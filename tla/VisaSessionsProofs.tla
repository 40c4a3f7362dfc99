------------------------- MODULE VisaSessionsProofs -------------------------
(* Proofs about VisaSessions, for any number of applications, resources,   *)
(* tickets, ids and server starts.                                         *)
EXTENDS VisaSessions, FiniteSetTheorems, TLAPS

-----------------------------------------------------------------------------
(* The inductive invariant.                                                *)

\* A stopped server holds nothing and nothing is on its way to it.
DownIsEmpty == ~up => reqs = {} /\ \A r \in Resources : port[r] = "absent"

\* A connection is in visa_conns_ exactly while its ref_ is positive, and
\* only then has grants.
ConnectionCounted ==
    \A r \in Resources :
        /\ port[r] = "absent" <=> ref[r] = 0
        /\ port[r] = "absent" => leases[r] = {}

\* Stages belong to kinds.
StagesFit ==
    \A q \in reqs : /\ q.stage \in {"replied", "ignored"} => q.kind = "connect"
                    /\ q.stage = "served" => q.kind = "disconnect"

\* A ticket names one request at a time.
RequestsDistinct == \A p, q \in reqs : p.lease = q.lease => p = q

\* A connect request the server has not handled is not counted anywhere.
ConnectFresh ==
    \A q \in reqs : q.kind = "connect" /\ q.stage \in {"sent", "opened"} =>
        \A r \in Resources : q.lease \notin leases[r]

\* The request an application waits for is the one of its call.
LiveFits ==
    \A q \in reqs : Live(q) =>
        pc[q.app] = IF q.kind = "connect" THEN "opening" ELSE "closing"

\* A request about an existing session is the disconnect its owner waits for.
RequestOfSession ==
    \A q \in reqs : \A a \in Apps : \A s \in repo[a] : q.lease = s.lease =>
        q.kind = "disconnect" /\ q.app = a /\ pc[a] = "closing" /\ call[a].lease = s.lease

\* The repository of an application is a map, and no two sessions share a ticket.
SessionsDistinct ==
    /\ \A a \in Apps : \A s, u \in repo[a] : s.id = u.id => s = u
    /\ \A a, b \in Apps : \A s \in repo[a], u \in repo[b] : s.lease = u.lease => a = b /\ s = u

\* viClose is working on a session that is still registered.
ClosingRegistered ==
    \A a \in Apps : pc[a] = "closing" =>
        \E s \in repo[a] : s.id = call[a].id /\ s.lease = call[a].lease

\* No session comes from a server that has not been started yet.
ErasPast == \A a \in Apps : \A s \in repo[a] : s.era <= starts

\* What a usable session, or an answer on its way, stands for is counted.
GrantsCounted ==
    clean => /\ \A a \in Apps : \A s \in repo[a] : Usable(a, s) => s.lease \in leases[s.res]
             /\ \A q \in reqs : q.stage = "replied" => q.lease \in leases[q.res]
             /\ \A q \in reqs :
                   q.kind = "disconnect" /\ q.stage \in {"sent", "opened"} /\ q.era = starts =>
                      q.lease \in leases[q.res]

IInv ==
    /\ TypeOK
    /\ DownIsEmpty
    /\ ConnectionCounted
    /\ StagesFit
    /\ RequestsDistinct
    /\ ConnectFresh
    /\ LiveFits
    /\ RequestOfSession
    /\ SessionsDistinct
    /\ ClosingRegistered
    /\ ErasPast
    /\ GrantsCounted
    /\ RefCounts

-----------------------------------------------------------------------------
(* Facts about the data.                                                   *)

LEMMA NoCallType == NoCall \in Call
  <1>1. \E r \in Resources : TRUE
    BY ConstantsAssumption
  <1>2. \E t \in Tickets : TRUE
    BY ConstantsAssumption
  <1>3. 0 \in Ids
    BY ConstantsAssumption DEF Ids
  <1>4. QED
    BY <1>1, <1>2, <1>3 DEF NoCall, Call

LEMMA FreshTicket ==
  ASSUME Free # {}
  PROVE  /\ (CHOOSE t \in Free : TRUE) \in Free
         /\ Free \subseteq Tickets
  BY DEF Free

LEMMA TicketSetsFinite ==
  ASSUME NEW S \in SUBSET Tickets
  PROVE  IsFiniteSet(S) /\ Cardinality(S) \in Nat
  BY ConstantsAssumption, FS_Subset, FS_CardinalityType

LEMMA AgeType ==
  ASSUME TypeOK, NEW a \in Apps,
         \/ UNCHANGED age
         \/ Older(a)
         \/ Unregister(a)
         \/ age' = [age EXCEPT ![a] = [i \in Ids |-> 0]]
  PROVE  age' \in [Apps -> Ages]
  <1>1. 0 \in 0 .. SessMod - 1 /\ SessMod - 1 \in 0 .. SessMod - 1
    BY ConstantsAssumption
  <1>2. \A i \in Ids : /\ age[a][i] \in 0 .. SessMod - 1
                       /\ age[a][i] < SessMod - 1 => age[a][i] + 1 \in 0 .. SessMod - 1
    BY ConstantsAssumption DEF TypeOK, Ages
  <1>3. CASE UNCHANGED age
    BY <1>3 DEF TypeOK
  <1>4. CASE Older(a)
    <2> DEFINE f == [i \in Ids |-> IF ~(\E s \in repo[a] : s.id = i) THEN 0
                                   ELSE IF age[a][i] < SessMod - 1 THEN age[a][i] + 1
                                   ELSE SessMod - 1]
    <2>1. f \in Ages
      BY <1>1, <1>2 DEF Ages
    <2>2. age' = [age EXCEPT ![a] = f]
      BY <1>4 DEF Older
    <2> QED
      BY <2>1, <2>2 DEF TypeOK
  <1>5. CASE Unregister(a)
    <2> DEFINE f == [i \in Ids |-> IF i = call[a].id THEN 0 ELSE age[a][i]]
    <2>1. f \in Ages
      BY <1>1, <1>2 DEF Ages
    <2>2. age' = [age EXCEPT ![a] = f]
      BY <1>5 DEF Unregister
    <2> QED
      BY <2>1, <2>2 DEF TypeOK
  <1>6. CASE age' = [age EXCEPT ![a] = [i \in Ids |-> 0]]
    BY <1>1, <1>6 DEF TypeOK, Ages
  <1> QED
    BY <1>3, <1>4, <1>5, <1>6

-----------------------------------------------------------------------------
(* The initial states.                                                     *)

LEMMA InitInv == Init => IInv
  <1> SUFFICES ASSUME Init PROVE IInv
    OBVIOUS
  <1>1. TypeOK
    BY NoCallType, ConstantsAssumption DEF Init, TypeOK, Ids, Garbage, Ages
  <1>2. RefCounts
    BY FS_EmptySet DEF Init, RefCounts
  <1>3. QED
    BY <1>1, <1>2 DEF Init, IInv, DownIsEmpty, ConnectionCounted, StagesFit,
       RequestsDistinct, ConnectFresh, LiveFits, RequestOfSession, SessionsDistinct,
       ClosingRegistered, ErasPast, GrantsCounted

-----------------------------------------------------------------------------
(* The steps of an application.                                            *)

LEMMA OpenRMStep ==
  ASSUME IInv, NEW a \in Apps, OpenRM(a)
  PROVE  IInv'
  <1> USE DEF IInv, OpenRM, serverVars, history
  <1>1. TypeOK'
    BY DEF TypeOK
  <1>2. LiveFits' /\ RequestOfSession' /\ ClosingRegistered'
    BY DEF TypeOK, LiveFits, Live, RequestOfSession, ClosingRegistered, Request
  <1>3. GrantsCounted'
    BY DEF TypeOK, GrantsCounted, Usable
  <1>4. QED
    BY <1>1, <1>2, <1>3 DEF DownIsEmpty, ConnectionCounted, StagesFit,
       RequestsDistinct, ConnectFresh, SessionsDistinct, ErasPast, RefCounts

LEMMA StartOpenStep ==
  ASSUME IInv, NEW a \in Apps, NEW r \in Resources, StartOpen(a, r)
  PROVE  IInv'
  <1> DEFINE t == CHOOSE t \in Free : TRUE
             new == [app |-> a, kind |-> "connect", res |-> r, lease |-> t,
                     era |-> starts, stage |-> "sent"]
  <1>1. t \in Tickets /\ t \notin InUse
    BY FreshTicket DEF Free, StartOpen
  <1>2. /\ \A x \in Resources : t \notin leases[x]
        /\ \A q \in reqs : q.lease # t
        /\ \A b \in Apps : \A s \in repo[b] : s.lease # t
    BY <1>1 DEF InUse
  <1>3. /\ call' = [call EXCEPT ![a] = [res |-> r, lease |-> t, id |-> 0]]
        /\ conn' = [conn EXCEPT ![a] = up]
        /\ reqs' = IF up THEN reqs \cup {new} ELSE reqs
        /\ orphans' = orphans \ {t}
        /\ pc' = [pc EXCEPT ![a] = "opening"]
        /\ pc[a] = "idle"
        /\ UNCHANGED <<serverVars, warm, repo, lastId, sessCnt, leases, clean, age>>
    BY DEF StartOpen, Send
  <1> HIDE DEF t
  <1> USE <1>1, <1>2, <1>3 DEF IInv, serverVars
  <1>4. TypeOK'
    BY ConstantsAssumption DEF TypeOK, Call, Request, Ids
  <1>5. DownIsEmpty' /\ ConnectionCounted' /\ StagesFit'
    BY DEF DownIsEmpty, ConnectionCounted, StagesFit
  <1>6. RequestsDistinct' /\ ConnectFresh'
    BY DEF RequestsDistinct, ConnectFresh
  <1>7. LiveFits'
    BY DEF TypeOK, LiveFits, Live, Request
  <1>8. RequestOfSession' /\ ClosingRegistered'
    BY DEF TypeOK, RequestOfSession, ClosingRegistered, Request
  <1>9. GrantsCounted'
    BY DEF TypeOK, GrantsCounted, Usable
  <1>10. QED
    BY <1>4, <1>5, <1>6, <1>7, <1>8, <1>9 DEF SessionsDistinct, ErasPast, RefCounts

LEMMA StartCloseStep ==
  ASSUME IInv, NEW a \in Apps, NEW s \in repo[a], StartClose(a, s)
  PROVE  IInv'
  <1> DEFINE new == [app |-> a, kind |-> "disconnect", res |-> s.res, lease |-> s.lease,
                     era |-> s.era, stage |-> "sent"]
  <1>1. /\ call' = [call EXCEPT ![a] = [res |-> s.res, lease |-> s.lease, id |-> s.id]]
        /\ conn' = [conn EXCEPT ![a] = up]
        /\ reqs' = IF up THEN reqs \cup {new} ELSE reqs
        /\ pc' = [pc EXCEPT ![a] = "closing"]
        /\ pc[a] = "idle"
        /\ UNCHANGED <<serverVars, warm, repo, lastId, sessCnt, history>>
    BY DEF StartClose, Send
  <1>2. \A q \in reqs : q.lease # s.lease
    BY <1>1 DEF IInv, RequestOfSession
  <1>3. s \in Session
    BY DEF IInv, TypeOK
  <1> USE <1>1, <1>2, <1>3 DEF IInv, serverVars, history
  <1>4. TypeOK'
    BY DEF TypeOK, Call, Request, Session
  <1>5. DownIsEmpty' /\ ConnectionCounted' /\ StagesFit'
    BY DEF DownIsEmpty, ConnectionCounted, StagesFit
  <1>6. RequestsDistinct' /\ ConnectFresh'
    BY DEF RequestsDistinct, ConnectFresh
  <1>7. LiveFits'
    BY DEF TypeOK, LiveFits, Live, Request
  <1>8. RequestOfSession' /\ ClosingRegistered'
    BY DEF TypeOK, RequestOfSession, ClosingRegistered, Request, SessionsDistinct
  <1>9. GrantsCounted'
    BY DEF TypeOK, GrantsCounted, Usable
  <1>10. QED
    BY <1>4, <1>5, <1>6, <1>7, <1>8, <1>9 DEF SessionsDistinct, ErasPast, RefCounts

LEMMA OnReplyStep ==
  ASSUME IInv, NEW a \in Apps, NEW q \in reqs, OnReply(a, q)
  PROVE  IInv'
  <1> DEFINE id   == (sessCnt[a] + 1) % SessMod
             new  == [id |-> id, res |-> q.res, lease |-> q.lease, era |-> starts]
             lost == \E s \in repo[a] : s.id = id
  <1>1. /\ Live(q) /\ q.app = a /\ q.stage = "replied"
        /\ sessCnt' = [sessCnt EXCEPT ![a] = id]
        /\ lastId' = [lastId EXCEPT ![a] = id]
        /\ repo' = IF lost THEN repo ELSE [repo EXCEPT ![a] = @ \cup {new}]
        /\ orphans' = IF lost THEN orphans \cup {q.lease} ELSE orphans
        /\ pc' = [pc EXCEPT ![a] = "idle"]
        /\ call' = [call EXCEPT ![a] = NoCall]
        /\ conn' = [conn EXCEPT ![a] = FALSE]
        /\ warm' = [warm EXCEPT ![a] = TRUE]
        /\ reqs' = reqs \ {q}
        /\ UNCHANGED <<serverVars, leases, clean>>
        /\ Older(a)
    BY DEF OnReply, EndCall
  <1>2. q \in Request /\ q.kind = "connect" /\ pc[a] = "opening"
    BY <1>1 DEF IInv, TypeOK, StagesFit, LiveFits
  <1>3. \A b \in Apps : \A s \in repo[b] : s.lease # q.lease
    BY <1>2 DEF IInv, RequestOfSession
  <1>4. id \in Ids
    BY ConstantsAssumption DEF IInv, TypeOK, Ids
  <1>5. new \in Session
    BY <1>2, <1>4 DEF Session, Request, IInv, TypeOK
  <1>6. \A b \in Apps : \A s \in repo'[b] : s \in repo[b] \/ (b = a /\ ~lost /\ s = new)
    BY <1>1 DEF IInv, TypeOK
  <1>7. \A s \in repo[a] : ~lost => s.id # id
    OBVIOUS
  <1>8. new.id = id /\ new.lease = q.lease /\ new.res = q.res /\ new.era = starts
    OBVIOUS
  <1> HIDE DEF new, lost, id
  <1> USE DEF IInv, serverVars
  <1>9. TypeOK'
    <2>1. age' \in [Apps -> Ages]
      BY <1>1, AgeType
    <2> QED
      BY <1>1, <1>2, <1>4, <1>5, <2>1, NoCallType DEF TypeOK, Request
  <1>10. DownIsEmpty' /\ ConnectionCounted' /\ StagesFit' /\ RequestsDistinct'
         /\ ConnectFresh' /\ RefCounts'
    BY <1>1 DEF DownIsEmpty, ConnectionCounted, StagesFit, RequestsDistinct, ConnectFresh,
       RefCounts
  <1>11. LiveFits'
    BY <1>1 DEF TypeOK, LiveFits, Live, Request
  <1>12. RequestOfSession'
    BY <1>1, <1>2, <1>6, <1>8 DEF TypeOK, RequestOfSession, RequestsDistinct, Request
  <1>13. SessionsDistinct'
    BY <1>1, <1>3, <1>6, <1>7, <1>8 DEF TypeOK, SessionsDistinct
  <1>14. ClosingRegistered'
    BY <1>1 DEF TypeOK, ClosingRegistered
  <1>15. ErasPast'
    BY <1>1, <1>6, <1>8 DEF TypeOK, ErasPast
  <1>16. GrantsCounted'
    BY <1>1, <1>2, <1>6, <1>8 DEF TypeOK, GrantsCounted, Usable
  <1>17. QED
    BY <1>9, <1>10, <1>11, <1>12, <1>13, <1>14, <1>15, <1>16

\* A call that ends takes its session out of the repository and leaves no
\* request for any session of a that stays.
LEMMA CallEnds ==
  ASSUME IInv, NEW a \in Apps, EndCall(a),
         \/ pc[a] = "closing" /\ Unregister(a)
         \/ pc[a] = "opening" /\ UNCHANGED <<repo, age>>,
         reqs' \subseteq reqs,
         warm' \in [Apps -> BOOLEAN],
         UNCHANGED <<serverVars, lastId, sessCnt, leases, orphans, clean>>
  PROVE  IInv'
  <1> USE DEF IInv, serverVars
  <1>1. \A b \in Apps : \A s \in repo'[b] :
           s \in repo[b] /\ (b = a /\ pc[a] = "closing" => s.lease # call[a].lease)
    BY DEF TypeOK, Unregister, ClosingRegistered, SessionsDistinct
  <1>2. /\ pc' = [pc EXCEPT ![a] = "idle"]
        /\ call' = [call EXCEPT ![a] = NoCall]
        /\ conn' = [conn EXCEPT ![a] = FALSE]
    BY DEF EndCall
  <1>3. repo' \in [Apps -> SUBSET Session]
    BY DEF TypeOK, Unregister
  <1>4. TypeOK'
    <2>1. age' \in [Apps -> Ages]
      BY AgeType
    <2> QED
      BY <1>2, <1>3, <2>1, NoCallType DEF TypeOK
  <1>5. DownIsEmpty' /\ ConnectionCounted' /\ StagesFit' /\ RequestsDistinct'
         /\ ConnectFresh' /\ RefCounts'
    BY DEF DownIsEmpty, ConnectionCounted, StagesFit, RequestsDistinct, ConnectFresh,
       RefCounts
  <1>6. LiveFits'
    BY <1>2 DEF TypeOK, LiveFits, Live, Request
  <1>7. RequestOfSession'
    BY <1>1, <1>2 DEF TypeOK, RequestOfSession
  <1>8. SessionsDistinct' /\ ErasPast'
    BY <1>1 DEF TypeOK, SessionsDistinct, ErasPast
  <1>9. ClosingRegistered'
    BY <1>1, <1>2, <1>3 DEF TypeOK, ClosingRegistered, Unregister
  <1>10. GrantsCounted'
    BY <1>1, <1>2 DEF TypeOK, GrantsCounted, Usable
  <1>11. QED
    BY <1>4, <1>5, <1>6, <1>7, <1>8, <1>9, <1>10

LEMMA OnDisconnectOpenStep ==
  ASSUME IInv, NEW a \in Apps, NEW q \in reqs, OnDisconnectOpen(a, q)
  PROVE  IInv'
  <1>1. pc[a] = "closing"
    BY DEF OnDisconnectOpen, IInv, LiveFits
  <1>2. warm' \in [Apps -> BOOLEAN]
    BY DEF OnDisconnectOpen, IInv, TypeOK
  <1>3. reqs' \subseteq reqs
    BY DEF OnDisconnectOpen
  <1>4. QED
    BY <1>1, <1>2, <1>3, CallEnds DEF OnDisconnectOpen

LEMMA RunReturnsStep ==
  ASSUME IInv, NEW a \in Apps, RunReturns(a)
  PROVE  IInv'
  <1>1. warm' \in [Apps -> BOOLEAN]
    BY DEF RunReturns, IInv, TypeOK
  <1>2. QED
    BY <1>1, CallEnds DEF RunReturns

LEMMA TimeoutStep ==
  ASSUME IInv, NEW a \in Apps, Timeout(a)
  PROVE  IInv'
  <1>1. /\ reqs' \subseteq reqs
        /\ conn' = [conn EXCEPT ![a] = FALSE]
        /\ orphans' = orphans \cup {call[a].lease}
        /\ UNCHANGED <<serverVars, pc, call, warm, repo, lastId, sessCnt, leases, clean, age>>
    BY DEF Timeout
  <1> USE <1>1 DEF IInv, serverVars
  <1>2. TypeOK'
    BY DEF TypeOK, Call
  <1>3. DownIsEmpty' /\ ConnectionCounted' /\ StagesFit' /\ RequestsDistinct'
         /\ ConnectFresh' /\ RefCounts'
    BY DEF DownIsEmpty, ConnectionCounted, StagesFit, RequestsDistinct, ConnectFresh,
       RefCounts
  <1>4. LiveFits'
    BY DEF TypeOK, LiveFits, Live, Request
  <1>5. RequestOfSession' /\ SessionsDistinct' /\ ClosingRegistered' /\ ErasPast'
    BY DEF RequestOfSession, SessionsDistinct, ClosingRegistered, ErasPast
  <1>6. GrantsCounted'
    BY DEF GrantsCounted, Usable
  <1>7. QED
    BY <1>2, <1>3, <1>4, <1>5, <1>6

LEMMA ForgetStep ==
  ASSUME IInv, NEW a \in Apps, Forget(a),
         sessCnt' \in [Apps -> Ids],
         UNCHANGED <<serverVars, reqs, leases, clean>>
  PROVE  IInv'
  <1> USE DEF IInv, Forget, serverVars
  <1>1. \A b \in Apps : repo'[b] \subseteq repo[b] /\ (b = a => repo'[b] = {})
    BY DEF TypeOK
  <1>2. {s.lease : s \in repo[a]} \subseteq Tickets
    BY DEF TypeOK, Session
  <1>3. {q.lease : q \in {p \in reqs : p.app = a /\ p.kind = "connect"}} \subseteq Tickets
    BY DEF TypeOK, Request
  <1>4. TypeOK'
    <2>1. age' \in [Apps -> Ages]
      BY AgeType
    <2> QED
      BY <1>2, <1>3, <2>1, NoCallType DEF TypeOK
  <1>5. DownIsEmpty' /\ ConnectionCounted' /\ StagesFit' /\ RequestsDistinct'
         /\ ConnectFresh' /\ RefCounts'
    BY DEF DownIsEmpty, ConnectionCounted, StagesFit, RequestsDistinct, ConnectFresh,
       RefCounts
  <1>6. LiveFits'
    BY DEF TypeOK, LiveFits, Live, Request
  <1>7. RequestOfSession' /\ SessionsDistinct' /\ ErasPast'
    BY <1>1 DEF TypeOK, RequestOfSession, SessionsDistinct, ErasPast
  <1>8. ClosingRegistered'
    BY <1>1 DEF TypeOK, ClosingRegistered
  <1>9. GrantsCounted'
    BY <1>1 DEF TypeOK, GrantsCounted, Usable
  <1>10. QED
    BY <1>4, <1>5, <1>6, <1>7, <1>8, <1>9

LEMMA AppStepInv ==
  ASSUME IInv, NEW a \in Apps, AppStep(a)
  PROVE  IInv'
  <1>1. CASE CloseRM(a)
    BY <1>1, ForgetStep DEF CloseRM, IInv, TypeOK
  <1>2. CASE CrashApp(a)
    <2>1. sessCnt' \in [Apps -> Ids]
      BY <1>2, ConstantsAssumption DEF CrashApp, IInv, TypeOK, Ids
    <2>2. QED
      BY <1>2, <2>1, ForgetStep DEF CrashApp
  <1>3. QED
    BY <1>1, <1>2, OpenRMStep, StartOpenStep, StartCloseStep, OnReplyStep,
       OnDisconnectOpenStep, TimeoutStep, RunReturnsStep DEF AppStep

-----------------------------------------------------------------------------
(* The steps of the server.                                                *)

LEMMA ServerGoneStep ==
  ASSUME IInv, ServerGone
  PROVE  IInv'
  <1> USE DEF IInv, ServerGone
  <1>1. TypeOK'
    BY DEF TypeOK
  <1>2. DownIsEmpty' /\ ConnectionCounted' /\ StagesFit' /\ RequestsDistinct'
         /\ ConnectFresh' /\ LiveFits' /\ RequestOfSession'
    BY DEF DownIsEmpty, ConnectionCounted, StagesFit, RequestsDistinct, ConnectFresh,
       LiveFits, RequestOfSession
  <1>3. SessionsDistinct' /\ ClosingRegistered' /\ ErasPast'
    BY DEF SessionsDistinct, ClosingRegistered, ErasPast
  <1>4. GrantsCounted'
    BY DEF GrantsCounted, Usable
  <1>5. RefCounts'
    BY FS_EmptySet DEF RefCounts
  <1>6. QED
    BY <1>1, <1>2, <1>3, <1>4, <1>5

LEMMA ServerStartStep ==
  ASSUME IInv, ServerStart
  PROVE  IInv'
  <1> USE DEF IInv, ServerStart, appVars
  <1>1. TypeOK'
    BY DEF TypeOK
  <1>2. DownIsEmpty' /\ ConnectionCounted' /\ StagesFit' /\ RequestsDistinct'
         /\ ConnectFresh' /\ LiveFits' /\ RequestOfSession'
    BY DEF DownIsEmpty, ConnectionCounted, StagesFit, RequestsDistinct, ConnectFresh,
       LiveFits, Live, RequestOfSession
  <1>3. SessionsDistinct' /\ ClosingRegistered'
    BY DEF SessionsDistinct, ClosingRegistered
  <1>4. \A a \in Apps : \A s \in repo[a] : s.era < starts'
    BY DEF TypeOK, ErasPast, Session
  <1>5. ErasPast' /\ GrantsCounted'
    BY <1>4 DEF TypeOK, ErasPast, GrantsCounted, Usable, DownIsEmpty, Session
  <1>6. RefCounts'
    BY FS_EmptySet DEF RefCounts, ConnectionCounted, DownIsEmpty
  <1>7. QED
    BY <1>1, <1>2, <1>3, <1>5, <1>6

LEMMA AcceptStep ==
  ASSUME IInv, NEW q \in reqs, Accept(q)
  PROVE  IInv'
  <1> DEFINE r == [q EXCEPT !.stage = "opened"]
  <1>1. /\ up /\ q.stage = "sent"
        /\ reqs' = (reqs \ {q}) \cup {r}
        /\ UNCHANGED <<serverVars, appVars, history>>
    BY DEF Accept
  <1>2. /\ q \in Request /\ r \in Request
        /\ r.app = q.app /\ r.kind = q.kind /\ r.res = q.res /\ r.lease = q.lease /\ r.era = q.era
        /\ r.stage = "opened"
    BY DEF IInv, TypeOK, Request
  <1> HIDE DEF r
  <1> USE <1>1, <1>2 DEF IInv, serverVars, appVars, history
  <1>3. TypeOK'
    BY DEF TypeOK
  <1>4. DownIsEmpty' /\ ConnectionCounted' /\ StagesFit' /\ RequestsDistinct' /\ ConnectFresh'
    BY DEF DownIsEmpty, ConnectionCounted, StagesFit, RequestsDistinct, ConnectFresh
  <1>5. LiveFits' /\ RequestOfSession'
    BY DEF LiveFits, Live, RequestOfSession
  <1>6. SessionsDistinct' /\ ClosingRegistered' /\ ErasPast' /\ RefCounts'
    BY DEF SessionsDistinct, ClosingRegistered, ErasPast, RefCounts
  <1>7. GrantsCounted'
    BY DEF GrantsCounted, Usable
  <1>8. QED
    BY <1>3, <1>4, <1>5, <1>6, <1>7

LEMMA DropAbandonedStep ==
  ASSUME IInv, NEW q \in reqs, DropAbandoned(q)
  PROVE  IInv'
  <1> USE DEF IInv, DropAbandoned, serverVars, appVars
  <1>1. TypeOK'
    BY DEF TypeOK
  <1>2. DownIsEmpty' /\ ConnectionCounted' /\ StagesFit' /\ RequestsDistinct' /\ ConnectFresh'
    BY DEF DownIsEmpty, ConnectionCounted, StagesFit, RequestsDistinct, ConnectFresh
  <1>3. LiveFits' /\ RequestOfSession'
    BY DEF LiveFits, Live, RequestOfSession
  <1>4. SessionsDistinct' /\ ClosingRegistered' /\ ErasPast' /\ RefCounts'
    BY DEF SessionsDistinct, ClosingRegistered, ErasPast, RefCounts
  <1>5. GrantsCounted'
    BY DEF GrantsCounted, Usable
  <1>6. QED
    BY <1>1, <1>2, <1>3, <1>4, <1>5

\* Answering a request changes its stage or drops it: what is known of every
\* request is still known, whatever becomes of the connections meanwhile.
LEMMA AnswerKeeps ==
  ASSUME IInv, NEW q \in reqs, NEW stage, Answer(q, stage), up,
         \/ stage \in {"replied", "ignored"} /\ q.kind = "connect"
         \/ stage = "served" /\ q.kind = "disconnect",
         UNCHANGED <<up, starts, appVars>>
  PROVE  /\ reqs' \subseteq Request
         /\ StagesFit' /\ RequestsDistinct' /\ LiveFits' /\ RequestOfSession'
         /\ SessionsDistinct' /\ ClosingRegistered' /\ ErasPast'
         /\ \A p \in reqs' : \/ p \in reqs /\ p.lease # q.lease
                             \/ p.lease = q.lease /\ p.res = q.res /\ p.kind = q.kind
                                  /\ p.stage = stage
  <1> DEFINE r == [q EXCEPT !.stage = stage]
  <1>1. reqs' \subseteq (reqs \ {q}) \cup {r}
    BY DEF Answer
  <1>2. /\ q \in Request /\ r \in Request
        /\ r.app = q.app /\ r.kind = q.kind /\ r.res = q.res /\ r.lease = q.lease /\ r.era = q.era
        /\ r.stage = stage
    BY DEF IInv, TypeOK, Request
  <1> HIDE DEF r
  <1> USE <1>1, <1>2 DEF IInv, appVars
  <1>3. reqs' \subseteq Request
    BY DEF TypeOK
  <1>4. StagesFit' /\ RequestsDistinct'
    BY DEF StagesFit, RequestsDistinct
  <1>5. LiveFits' /\ RequestOfSession'
    BY DEF LiveFits, Live, RequestOfSession
  <1>6. SessionsDistinct' /\ ClosingRegistered' /\ ErasPast'
    BY DEF SessionsDistinct, ClosingRegistered, ErasPast
  <1>7. \A p \in reqs' : \/ p \in reqs /\ p.lease # q.lease
                         \/ p.lease = q.lease /\ p.res = q.res /\ p.kind = q.kind
                              /\ p.stage = stage
    BY DEF RequestsDistinct
  <1>8. QED
    BY <1>3, <1>4, <1>5, <1>6, <1>7

LEMMA ServerTimeoutStep ==
  ASSUME IInv, NEW q \in reqs, ServerTimeout(q)
  PROVE  IInv'
  <1>1. /\ up /\ q \in Request /\ q.lease \in Tickets /\ q.app \in Apps
        /\ orphans' = IF q.kind = "connect" THEN orphans \ {q.lease} ELSE orphans \cup {q.lease}
        /\ UNCHANGED <<serverVars, pc, call, warm, repo, lastId, sessCnt, leases, clean, age>>
    BY DEF ServerTimeout, IInv, TypeOK, Request
  <1>2. CASE q.kind = "disconnect" /\ q.stage = "opened"
    <2>1. Answer(q, "served") /\ UNCHANGED <<up, starts, appVars>>
      BY <1>1, <1>2 DEF ServerTimeout, serverVars, appVars
    <2>2. /\ reqs' \subseteq Request
          /\ StagesFit' /\ RequestsDistinct' /\ LiveFits' /\ RequestOfSession'
          /\ SessionsDistinct' /\ ClosingRegistered' /\ ErasPast'
          /\ \A p \in reqs' : \/ p \in reqs /\ p.lease # q.lease
                              \/ p.lease = q.lease /\ p.res = q.res /\ p.kind = q.kind
                                   /\ p.stage = "served"
      BY <1>1, <1>2, <2>1, AnswerKeeps
    <2> USE <1>1, <2>1, <2>2 DEF IInv, serverVars, appVars
    <2>3. TypeOK'
      BY DEF TypeOK
    <2>4. DownIsEmpty' /\ ConnectionCounted' /\ ConnectFresh' /\ RefCounts'
      BY DEF DownIsEmpty, ConnectionCounted, ConnectFresh, RefCounts
    <2>5. GrantsCounted'
      BY DEF GrantsCounted, Usable
    <2>6. QED
      BY <2>3, <2>4, <2>5
  <1>3. CASE ~(q.kind = "disconnect" /\ q.stage = "opened")
    <2>1. /\ reqs' = reqs \ {q}
          /\ conn' = IF Live(q) THEN [conn EXCEPT ![q.app] = FALSE] ELSE conn
      BY <1>3 DEF ServerTimeout
    <2> USE <1>1, <2>1 DEF IInv, serverVars
    <2>2. TypeOK'
      BY DEF TypeOK
    <2>3. DownIsEmpty' /\ ConnectionCounted' /\ StagesFit' /\ RequestsDistinct'
           /\ ConnectFresh' /\ RefCounts'
      BY DEF DownIsEmpty, ConnectionCounted, StagesFit, RequestsDistinct, ConnectFresh,
         RefCounts
    <2>4. LiveFits'
      BY DEF TypeOK, LiveFits, Live, Request
    <2>5. RequestOfSession' /\ SessionsDistinct' /\ ClosingRegistered' /\ ErasPast'
      BY DEF RequestOfSession, SessionsDistinct, ClosingRegistered, ErasPast
    <2>6. GrantsCounted'
      BY DEF GrantsCounted, Usable
    <2>7. QED
      BY <2>2, <2>3, <2>4, <2>5, <2>6
  <1>4. QED
    BY <1>2, <1>3

\* Handling a request that changes no connection.
LEMMA AnswerOnlyStep ==
  ASSUME IInv, NEW q \in reqs, NEW stage, Answer(q, stage), up,
         \/ stage = "ignored" /\ q.kind = "connect"
         \/ stage = "served" /\ q.kind = "disconnect",
         UNCHANGED <<serverVars, appVars, history>>
  PROVE  IInv'
  <1> USE AnswerKeeps DEF IInv, serverVars, appVars, history
  <1>1. TypeOK'
    BY DEF TypeOK
  <1>2. DownIsEmpty' /\ ConnectionCounted' /\ ConnectFresh' /\ RefCounts'
    BY DEF DownIsEmpty, ConnectionCounted, ConnectFresh, RefCounts
  <1>3. GrantsCounted'
    BY DEF GrantsCounted, Usable
  <1>4. QED
    BY <1>1, <1>2, <1>3

\* Share and Establish: one more grant on the connection of q.res.
LEMMA GrantStep ==
  ASSUME IInv, NEW q \in reqs, q.kind = "connect", q.stage = "opened", up,
         Answer(q, "replied"),
         port' \in [Resources -> {"absent", "open", "failed"}],
         \A r \in Resources \ {q.res} : port'[r] = port[r],
         port'[q.res] # "absent",
         ref' = [ref EXCEPT ![q.res] = @ + 1],
         leases' = [leases EXCEPT ![q.res] = @ \cup {q.lease}],
         UNCHANGED <<up, starts, appVars, orphans, clean, age>>
  PROVE  IInv'
  <1> USE AnswerKeeps DEF IInv, appVars
  <1>1. q \in Request /\ q.res \in Resources /\ q.lease \in Tickets
    BY DEF TypeOK, Request
  <1>2. TypeOK'
    BY <1>1 DEF TypeOK
  <1>3. DownIsEmpty'
    BY DEF DownIsEmpty
  <1>4. ConnectionCounted'
    BY <1>1 DEF ConnectionCounted, TypeOK
  <1>5. ConnectFresh'
    BY <1>1 DEF ConnectFresh, TypeOK
  <1>6. GrantsCounted'
    BY <1>1 DEF GrantsCounted, Usable, TypeOK, Session, Request
  <1>7. RefCounts'
    <2>1. q.lease \notin leases[q.res]
      BY <1>1 DEF ConnectFresh
    <2>2. IsFiniteSet(leases[q.res])
      BY <1>1, TicketSetsFinite DEF TypeOK
    <2>3. Cardinality(leases[q.res] \cup {q.lease}) = Cardinality(leases[q.res]) + 1
      BY <2>1, <2>2, FS_AddElement
    <2>4. QED
      BY <1>1, <2>3 DEF RefCounts, TypeOK
  <1>8. QED
    BY <1>2, <1>3, <1>4, <1>5, <1>6, <1>7

LEMMA ServerOnConnectStep ==
  ASSUME IInv, NEW q \in reqs, ServerOnConnect(q)
  PROVE  IInv'
  <1>1. q.res \in Resources /\ up /\ q.kind = "connect" /\ q.stage = "opened"
    BY DEF IInv, TypeOK, Request, ServerOnConnect
  <1>2. CASE Share(q)
    BY <1>1, <1>2, GrantStep DEF Share, IInv, TypeOK
  <1>3. CASE Establish(q)
    <2>1. ref[q.res] = 0
      BY <1>1, <1>3 DEF Establish, IInv, ConnectionCounted
    <2>2. ref' = [ref EXCEPT ![q.res] = @ + 1]
      BY <1>1, <1>3, <2>1 DEF Establish, IInv, TypeOK
    <2>3. PICK o \in OpenOutcomes(KindOf[q.res]) \ {"throws"} :
             port' = [port EXCEPT ![q.res] = o]
      BY <1>3 DEF Establish
    <2>4. KindOf[q.res] \in Kinds
      BY <1>1, ConstantsAssumption
    <2>5. o \in {"open", "failed"}
      BY <2>3, <2>4 DEF OpenOutcomes, Kinds
    <2>6. QED
      BY <1>1, <1>3, <2>2, <2>3, <2>5, GrantStep DEF Establish, IInv, TypeOK
  <1>4. CASE OpenThrows(q)
    BY <1>4, ServerGoneStep DEF OpenThrows
  <1>5. CASE NoFinder(q)
    BY <1>1, <1>5, AnswerOnlyStep DEF NoFinder
  <1>6. QED
    BY <1>2, <1>3, <1>4, <1>5 DEF ServerOnConnect

LEMMA ReleaseStep ==
  ASSUME IInv, NEW q \in reqs, q.kind = "disconnect", q.stage = "opened", up, Release(q)
  PROVE  IInv'
  <1>1. q \in Request /\ q.res \in Resources /\ q.lease \in Tickets
    BY DEF IInv, TypeOK, Request
  <1>2. ref[q.res] \in Nat \ {0}
    BY <1>1 DEF Release, IInv, TypeOK, ConnectionCounted
  <1>3. clean' => clean /\ q.lease \in leases[q.res]
    BY DEF Release, IInv, GrantsCounted
  <1>4. clean' => IsFiniteSet(leases[q.res])
                  /\ Cardinality(leases[q.res]) = ref[q.res]
                  /\ Cardinality(leases[q.res] \ {q.lease}) = ref[q.res] - 1
    <2>1. IsFiniteSet(leases[q.res])
      BY <1>1, TicketSetsFinite DEF IInv, TypeOK
    <2>2. clean => ref[q.res] = Cardinality(leases[q.res])
      BY <1>1 DEF IInv, RefCounts
    <2>3. QED
      BY <1>3, <2>1, <2>2, FS_RemoveElement
  <1>5. clean' /\ ref[q.res] = 1 => leases[q.res] \ {q.lease} = {}
    <2>1. leases[q.res] \ {q.lease} \in SUBSET Tickets
      BY <1>1 DEF IInv, TypeOK
    <2>2. IsFiniteSet(leases[q.res] \ {q.lease})
      BY <2>1, TicketSetsFinite
    <2>3. QED
      BY <1>4, <2>2, FS_EmptySet
  <1> USE AnswerKeeps DEF IInv, Release, Deref, appVars
  <1>6. TypeOK'
    BY <1>1, <1>2 DEF TypeOK
  <1>7. DownIsEmpty'
    BY DEF DownIsEmpty
  <1>8. ConnectionCounted'
    BY <1>1, <1>2 DEF ConnectionCounted, TypeOK
  <1>9. ConnectFresh'
    BY <1>1 DEF ConnectFresh, TypeOK
  <1>10. clean' => leases' = [leases EXCEPT ![q.res] = @ \ {q.lease}]
    BY <1>1, <1>5 DEF TypeOK
  <1>11. GrantsCounted'
    BY <1>1, <1>3, <1>10 DEF GrantsCounted, Usable, TypeOK, RequestOfSession, Session, Request
  <1>12. RefCounts'
    BY <1>1, <1>2, <1>3, <1>4, <1>10 DEF RefCounts, TypeOK
  <1>13. QED
    BY <1>6, <1>7, <1>8, <1>9, <1>11, <1>12

LEMMA ServerStepInv ==
  ASSUME IInv, ServerStep
  PROVE  IInv'
  <1>1. ASSUME NEW q \in reqs, ServerOnDisconnect(q)
        PROVE  IInv'
    <2>1. CASE NotConnected(q)
      BY <1>1, <2>1, AnswerOnlyStep DEF NotConnected, ServerOnDisconnect
    <2>2. QED
      BY <1>1, <2>1, ReleaseStep, ServerGoneStep DEF ServerOnDisconnect, EraseCrash
  <1>2. QED
    BY <1>1, ServerGoneStep, ServerStartStep, AcceptStep, DropAbandonedStep,
       ServerTimeoutStep, ServerOnConnectStep DEF ServerStep, ServerKilled

-----------------------------------------------------------------------------
(* The theorems.                                                           *)

\* IInv holds in every state of the system.
THEOREM InductiveInvariant == Spec => []IInv
  <1>1. IInv /\ [Next]_vars => IInv'
    <2>1. CASE UNCHANGED vars
      BY <2>1 DEF vars, serverVars, appVars, history, IInv, TypeOK, DownIsEmpty,
         ConnectionCounted, StagesFit, RequestsDistinct, ConnectFresh, LiveFits, Live,
         RequestOfSession, SessionsDistinct, ClosingRegistered, ErasPast,
         GrantsCounted, Usable, RefCounts
    <2>2. QED
      BY <2>1, AppStepInv, ServerStepInv DEF Next
  <1>2. QED
    BY <1>1, InitInv, PTL DEF Spec

\* Every variable of server and applications keeps its type: in particular
\* ref_ never falls below zero, however often a resource is disconnected.
THEOREM TypeCorrect == Spec => []TypeOK
  <1>1. IInv => TypeOK
    BY DEF IInv
  <1>2. QED
    BY <1>1, InductiveInvariant, PTL

\* ref_ counts the grants (VisaConnction::refMe and close), whatever the
\* number of applications and resources.
THEOREM ReferencesCorrect == Spec => []RefCounts
  <1>1. IInv => RefCounts
    BY DEF IInv
  <1>2. QED
    BY <1>1, InductiveInvariant, PTL

\* No viClose, time-out, crash or restart of an application closes the
\* connection under a session of the running server.
THEOREM NoCloseUnderSession == Spec => []SessionsConnected
  <1>1. IInv => SessionsConnected
    BY DEF IInv, SessionsConnected, GrantsCounted, ConnectionCounted, TypeOK, Session
  <1>2. QED
    BY <1>1, InductiveInvariant, PTL

-----------------------------------------------------------------------------
(* Nothing else leaks: what is known of tickets that nobody waits for.     *)

\* A ticket is about one resource.
TicketsFit ==
    /\ \A q \in reqs : \A r \in Resources : q.lease \in leases[r] => q.res = r
    /\ \A a \in Apps : \A s \in repo[a] : \A r \in Resources : s.lease \in leases[r] => s.res = r
    /\ \A q \in reqs : \A a \in Apps : \A s \in repo[a] : q.lease = s.lease => q.res = s.res

Counted(t) == \E r \in Resources : t \in leases[r]

\* A disconnect that has been worked off has left no grant; one that timed out
\* in the server leaves an orphan.
ServedGone ==
    \A q \in reqs : q.stage = "served" => ~Counted(q.lease) \/ q.lease \in orphans

\* A request nobody waits for is an orphan, or a disconnect that is under way
\* or has nothing to give back.
AbandonedKnown ==
    \A q \in reqs : ~Live(q) =>
        \/ q.lease \in orphans
        \/ q.kind = "disconnect" /\ (q.stage # "sent" \/ ~Counted(q.lease))

\* So is the session of a viClose whose websocket is gone.
ClosingKnown ==
    \A a \in Apps : pc[a] = "closing" /\ ~conn[a] =>
        call[a].lease \in orphans \/ ~Counted(call[a].lease)

LInv ==
    /\ IInv
    /\ TicketsFit
    /\ ServedGone
    /\ AbandonedKnown
    /\ ClosingKnown
    /\ NothingElseLeaks

LEMMA InitLeaks == Init => LInv
  BY InitInv DEF Init, LInv, TicketsFit, ServedGone, AbandonedKnown, ClosingKnown, Counted,
     NothingElseLeaks

LEMMA StartOpenLeaks ==
  ASSUME LInv, IInv', NEW a \in Apps, NEW r \in Resources, StartOpen(a, r)
  PROVE  LInv'
  <1> DEFINE t == CHOOSE t \in Free : TRUE
             new == [app |-> a, kind |-> "connect", res |-> r, lease |-> t,
                     era |-> starts, stage |-> "sent"]
  <1>1. t \in Tickets /\ t \notin InUse
    BY FreshTicket DEF Free, StartOpen
  <1>2. /\ ~Counted(t)
        /\ \A q \in reqs : q.lease # t
        /\ \A b \in Apps : \A s \in repo[b] : s.lease # t
        /\ \A b \in Apps : pc[b] = "closing" => call[b].lease # t
    BY <1>1 DEF InUse, Counted
  <1>3. /\ call' = [call EXCEPT ![a] = [res |-> r, lease |-> t, id |-> 0]]
        /\ conn' = [conn EXCEPT ![a] = up]
        /\ reqs' = IF up THEN reqs \cup {new} ELSE reqs
        /\ orphans' = orphans \ {t}
        /\ pc' = [pc EXCEPT ![a] = "opening"]
        /\ pc[a] = "idle"
        /\ UNCHANGED <<serverVars, warm, repo, lastId, sessCnt, leases, clean, age>>
    BY DEF StartOpen, Send
  <1> HIDE DEF t
  <1>4. /\ new.app = a /\ new.lease = t /\ new.res = r /\ new.stage = "sent"
        /\ up => \A q : q = new => Live(q)'
    BY <1>3 DEF Live, LInv, IInv, TypeOK
  <1>5. \A q \in reqs : q.app \in Apps /\ (Live(q) => q.app # a)
    BY <1>3 DEF LInv, IInv, TypeOK, LiveFits, Request
  <1> HIDE DEF new
  <1> USE DEF LInv, Counted
  <1>6. TicketsFit'
    BY <1>2, <1>3, <1>4 DEF TicketsFit
  <1>7. ServedGone' /\ NothingElseLeaks'
    BY <1>2, <1>3, <1>4 DEF ServedGone, NothingElseLeaks
  <1>8. AbandonedKnown'
    <2>1. ASSUME NEW q \in reqs, ~Live(q)'
          PROVE  ~Live(q) /\ q.lease # t
      BY <1>2, <1>3, <1>5, <2>1 DEF Live, IInv, TypeOK
    <2>2. DownIsEmpty
      BY DEF IInv
    <2>3. QED
      BY <1>3, <1>4, <2>1, <2>2 DEF AbandonedKnown, DownIsEmpty
  <1>9. ClosingKnown'
    BY <1>2, <1>3 DEF ClosingKnown, IInv, TypeOK
  <1>10. QED
    BY <1>6, <1>7, <1>8, <1>9

LEMMA StartCloseLeaks ==
  ASSUME LInv, IInv', NEW a \in Apps, NEW s \in repo[a], StartClose(a, s)
  PROVE  LInv'
  <1> DEFINE new == [app |-> a, kind |-> "disconnect", res |-> s.res, lease |-> s.lease,
                     era |-> s.era, stage |-> "sent"]
  <1>1. /\ call' = [call EXCEPT ![a] = [res |-> s.res, lease |-> s.lease, id |-> s.id]]
        /\ conn' = [conn EXCEPT ![a] = up]
        /\ reqs' = IF up THEN reqs \cup {new} ELSE reqs
        /\ pc' = [pc EXCEPT ![a] = "closing"]
        /\ pc[a] = "idle"
        /\ UNCHANGED <<serverVars, warm, repo, lastId, sessCnt, history>>
    BY DEF StartClose, Send
  <1>2. /\ new.app = a /\ new.lease = s.lease /\ new.res = s.res /\ new.stage = "sent"
        /\ up => \A q : q = new => Live(q)'
    BY <1>1 DEF Live, LInv, IInv, TypeOK
  <1>3. \A q \in reqs : q.app \in Apps /\ (Live(q) => q.app # a)
    BY <1>1 DEF LInv, IInv, TypeOK, LiveFits, Request
  <1>4. ~up => \A t : ~Counted(t)
    BY DEF LInv, IInv, DownIsEmpty, ConnectionCounted, Counted
  <1>5. \A b \in Apps : \A u \in repo[b] : u.lease = s.lease => u = s
    BY DEF LInv, IInv, SessionsDistinct
  <1> HIDE DEF new
  <1> USE DEF LInv, history
  <1>6. TicketsFit'
    BY <1>1, <1>2, <1>5 DEF TicketsFit
  <1>7. ServedGone' /\ NothingElseLeaks'
    BY <1>1, <1>2 DEF ServedGone, NothingElseLeaks, Counted
  <1>8. AbandonedKnown'
    <2>1. ASSUME NEW q \in reqs, ~Live(q)'
          PROVE  ~Live(q)
      BY <1>1, <1>3, <2>1 DEF Live, IInv, TypeOK
    <2>2. DownIsEmpty
      BY DEF IInv
    <2>3. QED
      BY <1>1, <1>2, <2>1, <2>2 DEF AbandonedKnown, DownIsEmpty, Counted
  <1>9. ClosingKnown'
    BY <1>1, <1>4 DEF ClosingKnown, Counted, IInv, TypeOK
  <1>10. QED
    BY <1>6, <1>7, <1>8, <1>9

LEMMA OnReplyLeaks ==
  ASSUME LInv, IInv', NEW a \in Apps, NEW q \in reqs, OnReply(a, q)
  PROVE  LInv'
  <1> DEFINE id   == (sessCnt[a] + 1) % SessMod
             new  == [id |-> id, res |-> q.res, lease |-> q.lease, era |-> starts]
             lost == \E s \in repo[a] : s.id = id
  <1>1. /\ Live(q) /\ q.app = a /\ q.stage = "replied"
        /\ repo' = IF lost THEN repo ELSE [repo EXCEPT ![a] = @ \cup {new}]
        /\ orphans' = IF lost THEN orphans \cup {q.lease} ELSE orphans
        /\ pc' = [pc EXCEPT ![a] = "idle"]
        /\ call' = [call EXCEPT ![a] = NoCall]
        /\ conn' = [conn EXCEPT ![a] = FALSE]
        /\ reqs' = reqs \ {q}
        /\ UNCHANGED <<serverVars, leases, clean>>
    BY DEF OnReply, EndCall
  <1>2. new.res = q.res /\ new.lease = q.lease
    OBVIOUS
  <1>3. /\ q.kind = "connect"
        /\ \A p \in reqs \ {q} : p.lease # q.lease
        /\ \A p \in reqs \ {q} : Live(p) => p.app # a
    BY <1>1 DEF LInv, IInv, StagesFit, RequestsDistinct, Live
  <1>4. \A b \in Apps : \A s \in repo'[b] : s \in repo[b] \/ (b = a /\ s = new)
    BY <1>1 DEF LInv, IInv, TypeOK
  <1>5. ~lost => new \in repo'[a]
    BY <1>1 DEF LInv, IInv, TypeOK
  <1>6. \A b \in Apps : repo[b] \subseteq repo'[b]
    BY <1>1 DEF LInv, IInv, TypeOK
  <1> HIDE DEF new, lost
  <1> USE DEF LInv, Counted
  <1>7. TicketsFit'
    BY <1>1, <1>2, <1>3, <1>4 DEF TicketsFit
  <1>8. ServedGone'
    BY <1>1 DEF ServedGone
  <1>9. NothingElseLeaks'
    <2>1. ASSUME NEW r \in Resources, NEW t \in leases[r],
                 ~ \/ t \in orphans
                   \/ \E b \in Apps : \E s \in repo[b] : s.res = r /\ s.lease = t
                   \/ \E p \in reqs \ {q} : p.res = r /\ p.lease = t
          PROVE  q.res = r /\ q.lease = t
      BY <2>1 DEF NothingElseLeaks
    <2>2. CASE lost
      BY <1>1, <2>1, <2>2 DEF NothingElseLeaks
    <2>3. CASE ~lost
      BY <1>1, <1>2, <1>5, <1>6, <2>1, <2>3 DEF NothingElseLeaks
    <2>4. QED
      BY <2>2, <2>3
  <1>10. AbandonedKnown'
    <2>1. ASSUME NEW p \in reqs', ~Live(p)'
          PROVE  ~Live(p)
      BY <1>1, <1>3, <2>1 DEF Live, IInv, TypeOK, Request
    <2>2. QED
      BY <1>1, <2>1 DEF AbandonedKnown
  <1>11. ClosingKnown'
    BY <1>1 DEF ClosingKnown, IInv, TypeOK
  <1>12. QED
    BY <1>7, <1>8, <1>9, <1>10, <1>11

\* A viClose that ends leaves its grant to the request, to the orphans, or has
\* none.
LEMMA CallEndsLeaks ==
  ASSUME LInv, IInv', NEW a \in Apps, EndCall(a),
         \/ /\ pc[a] = "closing" /\ Unregister(a)
            /\ \/ call[a].lease \in orphans
               \/ ~Counted(call[a].lease)
               \/ \E q \in reqs' : q.lease = call[a].lease
         \/ pc[a] = "opening" /\ ~conn[a] /\ UNCHANGED <<repo, age>>,
         \/ reqs' = reqs
         \/ \E q \in reqs : q.stage = "served" /\ reqs' = reqs \ {q},
         \A q \in reqs' : q.app = a /\ Live(q) => q.kind = "disconnect" /\ q.stage # "sent",
         UNCHANGED <<serverVars, lastId, sessCnt, leases, orphans, clean>>
  PROVE  LInv'
  <1> USE DEF LInv, Counted
  <1>1. \A b \in Apps : \A s \in repo'[b] : s \in repo[b]
    BY DEF Unregister, IInv, TypeOK
  <1>2. \A b \in Apps : \A s \in repo[b] :
           s \in repo'[b] \/ (b = a /\ pc[a] = "closing" /\ s.lease = call[a].lease)
    BY DEF Unregister, IInv, TypeOK, ClosingRegistered, SessionsDistinct
  <1>3. /\ pc' = [pc EXCEPT ![a] = "idle"]
        /\ call' = [call EXCEPT ![a] = NoCall]
        /\ conn' = [conn EXCEPT ![a] = FALSE]
    BY DEF EndCall
  <1>4. reqs' \subseteq reqs /\ \A q \in reqs : q \in reqs' \/ ~Counted(q.lease)
                                                 \/ q.lease \in orphans
    BY DEF ServedGone
  <1>5. TicketsFit' /\ ServedGone'
    BY <1>1, <1>4 DEF TicketsFit, ServedGone
  <1>6. AbandonedKnown'
    <2>1. ASSUME NEW q \in reqs', ~Live(q)'
          PROVE  ~Live(q) \/ (q.kind = "disconnect" /\ q.stage # "sent")
      BY <1>3, <1>4, <2>1 DEF Live, IInv, TypeOK
    <2>2. QED
      BY <1>4, <2>1 DEF AbandonedKnown
  <1>7. ClosingKnown'
    BY <1>3 DEF ClosingKnown, IInv, TypeOK
  <1>8. NothingElseLeaks'
    <2>1. ASSUME NEW r \in Resources, NEW t \in leases[r], t \notin orphans
          PROVE  \/ \E b \in Apps : \E s \in repo'[b] : s.res = r /\ s.lease = t
                 \/ \E q \in reqs' : q.res = r /\ q.lease = t
      <3>1. CASE \E q \in reqs : q.res = r /\ q.lease = t
        BY <1>4, <3>1, <2>1
      <3>2. CASE \E b \in Apps : \E s \in repo[b] : s.res = r /\ s.lease = t
        <4>1. PICK b \in Apps : \E s \in repo[b] : s.res = r /\ s.lease = t
          BY <3>2
        <4>2. PICK s \in repo[b] : s.res = r /\ s.lease = t
          BY <4>1
        <4>3. CASE s \in repo'[b]
          BY <4>2, <4>3
        <4>4. CASE s \notin repo'[b]
          <5>1. pc[a] = "closing" /\ call[a].lease = t
            BY <1>2, <4>2, <4>4
          <5>2. PICK q \in reqs' : q.lease = t
            BY <2>1, <5>1
          <5>3. q.res = r
            BY <1>4, <2>1, <5>2 DEF TicketsFit
          <5>4. QED
            BY <5>2, <5>3
        <4>5. QED
          BY <4>3, <4>4
      <3>3. QED
        BY <2>1, <3>1, <3>2 DEF NothingElseLeaks
    <2>2. QED
      BY <2>1 DEF NothingElseLeaks
  <1>9. QED
    BY <1>5, <1>6, <1>7, <1>8

\* A request that is answered: what is counted of other tickets can only shrink.
LEMMA AnswerLeaks ==
  ASSUME LInv, IInv', NEW q \in reqs, NEW stage, Answer(q, stage),
         UNCHANGED <<up, starts, appVars>>,
         \A r \in Resources : \A t \in leases'[r] :
             t \in leases[r] \/ (r = q.res /\ t = q.lease /\ q.kind = "connect"),
         orphans' = orphans \/ (orphans' = orphans \ {q.lease} /\ q.kind = "disconnect"),
         q.kind = "disconnect" => stage = "served" /\ \A r \in Resources : q.lease \notin leases'[r],
         q.kind = "connect" => stage # "served" /\ q.stage = "opened"
  PROVE  LInv'
  <1> DEFINE n == [q EXCEPT !.stage = stage]
  <1>1. /\ q \in Request /\ q.app \in Apps /\ q.res \in Resources
        /\ n.app = q.app /\ n.kind = q.kind /\ n.res = q.res /\ n.lease = q.lease
        /\ n.stage = stage
    BY DEF LInv, IInv, TypeOK, Request
  <1>2. reqs' = (reqs \ {q}) \cup (IF Live(q) THEN {n} ELSE {})
    BY DEF Answer
  <1>3. \A p \in reqs \ {q} : p.lease # q.lease
    BY DEF LInv, IInv, RequestsDistinct
  <1>4. q.kind \in {"connect", "disconnect"}
    BY <1>1 DEF Request
  <1>5. \A p : Live(p)' <=> Live(p)
    BY DEF Live, appVars
  <1>6. q.kind = "connect" => /\ \A r \in Resources : q.lease \notin leases[r]
                              /\ \A a \in Apps : \A s \in repo[a] : s.lease # q.lease
    BY DEF LInv, IInv, ConnectFresh, RequestOfSession
  <1> HIDE DEF n
  <1> USE DEF LInv, Counted, appVars
  <1>7. TicketsFit'
    BY <1>1, <1>2, <1>3, <1>4, <1>6 DEF TicketsFit
  <1>8. ServedGone'
    BY <1>1, <1>2, <1>3, <1>4 DEF ServedGone
  <1>9. AbandonedKnown'
    BY <1>1, <1>2, <1>3, <1>4, <1>5 DEF AbandonedKnown, Live
  <1>10. ClosingKnown'
    <2>1. \A a \in Apps : pc[a] = "closing" /\ q.kind = "connect" => call[a].lease # q.lease
      BY <1>6 DEF IInv, ClosingRegistered
    <2>2. QED
      BY <1>4, <2>1 DEF ClosingKnown
  <1>11. NothingElseLeaks'
    <2>1. ASSUME NEW r \in Resources, NEW t \in leases'[r], t # q.lease
          PROVE  \/ t \in orphans'
                 \/ \E a \in Apps : \E s \in repo'[a] : s.res = r /\ s.lease = t
                 \/ \E p \in reqs' : p.res = r /\ p.lease = t
      <3>1. t \in leases[r]
        BY <2>1
      <3>2. \A p \in reqs : p.lease = t => p \in reqs'
        BY <1>2, <2>1
      <3>3. QED
        BY <2>1, <3>1, <3>2 DEF NothingElseLeaks
    <2>2. ASSUME NEW r \in Resources, q.lease \in leases'[r]
          PROVE  \/ q.lease \in orphans'
                 \/ \E p \in reqs' : p.res = r /\ p.lease = q.lease
      <3>1. q.kind = "connect" /\ r = q.res
        BY <1>4, <1>6, <2>2
      <3>2. CASE Live(q)
        BY <1>1, <1>2, <3>1, <3>2
      <3>3. CASE ~Live(q)
        BY <3>1, <3>3 DEF AbandonedKnown
      <3>4. QED
        BY <3>2, <3>3
    <2>3. QED
      BY <2>1, <2>2 DEF NothingElseLeaks
  <1>12. QED
    BY <1>7, <1>8, <1>9, <1>10, <1>11

LEMMA ServerGoneLeaks ==
  ASSUME LInv, IInv', ServerGone
  PROVE  LInv'
  BY DEF ServerGone, LInv, TicketsFit, ServedGone, AbandonedKnown, ClosingKnown, Counted,
     NothingElseLeaks

LEMMA ForgetLeaks ==
  ASSUME LInv, IInv', NEW a \in Apps, Forget(a), UNCHANGED <<serverVars, reqs, leases, clean>>
  PROVE  LInv'
  <1> USE DEF LInv, Counted, serverVars
  <1>1. /\ repo' = [repo EXCEPT ![a] = {}]
        /\ pc' = [pc EXCEPT ![a] = "noRM"]
        /\ call' = [call EXCEPT ![a] = NoCall]
        /\ conn' = [conn EXCEPT ![a] = FALSE]
        /\ orphans \subseteq orphans'
        /\ \A s \in repo[a] : s.lease \in orphans'
        /\ \A q \in reqs : q.app = a /\ q.kind = "connect" => q.lease \in orphans'
    BY DEF Forget
  <1>2. TicketsFit' /\ ServedGone'
    BY <1>1 DEF TicketsFit, ServedGone, IInv, TypeOK
  <1>3. AbandonedKnown'
    <2>1. ASSUME NEW q \in reqs, ~Live(q)'
          PROVE  \/ q.lease \in orphans'
                 \/ q.kind = "disconnect" /\ (q.stage # "sent" \/ ~Counted(q.lease))
      <3>1. CASE ~Live(q)
        BY <1>1, <3>1 DEF AbandonedKnown
      <3>2. CASE Live(q)
        <4>1. q.app = a
          BY <1>1, <2>1, <3>2 DEF Live, IInv, TypeOK, Request
        <4>2. q.kind = "disconnect" => q.lease \in {s.lease : s \in repo[a]}
          BY <3>2, <4>1 DEF Live, IInv, LiveFits, ClosingRegistered, TypeOK, Request
        <4>3. q.kind \in {"connect", "disconnect"}
          BY DEF IInv, TypeOK, Request
        <4>4. QED
          BY <1>1, <4>1, <4>2, <4>3
      <3>3. QED
        BY <3>1, <3>2
    <2>2. QED
      BY <1>1, <2>1 DEF AbandonedKnown
  <1>4. ClosingKnown'
    BY <1>1 DEF ClosingKnown, IInv, TypeOK
  <1>5. NothingElseLeaks'
    BY <1>1 DEF NothingElseLeaks, IInv, TypeOK
  <1>6. QED
    BY <1>2, <1>3, <1>4, <1>5

LEMMA AppStepLeaks ==
  ASSUME LInv, IInv', NEW a \in Apps, AppStep(a)
  PROVE  LInv'
  <1> USE DEF LInv, history
  <1>1. CASE OpenRM(a)
    BY <1>1 DEF OpenRM, serverVars, TicketsFit, ServedGone, AbandonedKnown, Live, ClosingKnown,
       Counted, NothingElseLeaks, IInv, TypeOK
  <1>2. ASSUME NEW q \in reqs, OnDisconnectOpen(a, q)
        PROVE  LInv'
    <2>1. pc[a] = "closing" /\ q.lease = call[a].lease
      BY <1>2 DEF OnDisconnectOpen, IInv, LiveFits, Live
    <2>2. q.stage = "served" => ~Counted(call[a].lease) \/ call[a].lease \in orphans
      BY <2>1 DEF ServedGone
    <2>3. \A p \in reqs : p.app = a /\ Live(p) => p = q
      BY <1>2 DEF OnDisconnectOpen, Live, IInv, RequestsDistinct
    <2>4. \/ call[a].lease \in orphans
          \/ ~Counted(call[a].lease)
          \/ \E p \in reqs' : p.lease = call[a].lease
      BY <1>2, <2>1, <2>2 DEF OnDisconnectOpen
    <2>5. \A p \in reqs' : p.app = a /\ Live(p) => p.kind = "disconnect" /\ p.stage # "sent"
      BY <1>2, <2>3 DEF OnDisconnectOpen
    <2>6. \/ reqs' = reqs
          \/ \E p \in reqs : p.stage = "served" /\ reqs' = reqs \ {p}
      BY <1>2 DEF OnDisconnectOpen
    <2>7. /\ EndCall(a) /\ Unregister(a)
          /\ UNCHANGED <<serverVars, lastId, sessCnt, leases, orphans, clean>>
      BY <1>2 DEF OnDisconnectOpen
    <2>8. QED
      BY <2>1, <2>4, <2>5, <2>6, <2>7, CallEndsLeaks
  <1>3. CASE Timeout(a)
    <2>1. PICK q \in reqs : /\ Live(q) /\ q.app = a
                            /\ reqs' = IF q.stage \in {"sent", "opened"} THEN reqs ELSE reqs \ {q}
      BY <1>3 DEF Timeout
    <2>2. q.lease = call[a].lease /\ \A p \in reqs : Live(p) /\ p.app = a => p = q
      BY <2>1 DEF Live, IInv, RequestsDistinct
    <2>3. /\ reqs' \subseteq reqs /\ \A p \in reqs : p \in reqs' \/ p = q
          /\ conn' = [conn EXCEPT ![a] = FALSE]
          /\ orphans' = orphans \cup {q.lease}
          /\ UNCHANGED <<serverVars, pc, call, warm, repo, lastId, sessCnt, leases, clean, age>>
      BY <1>3, <2>1, <2>2 DEF Timeout
    <2>4. AbandonedKnown'
      BY <2>2, <2>3 DEF AbandonedKnown, Live, Counted, IInv, TypeOK, Request
    <2>5. TicketsFit' /\ ServedGone'
      BY <2>3 DEF TicketsFit, ServedGone, Counted
    <2>6. ClosingKnown'
      BY <2>2, <2>3 DEF ClosingKnown, Counted, IInv, TypeOK
    <2>7. NothingElseLeaks'
      BY <2>3 DEF NothingElseLeaks
    <2>8. QED
      BY <2>4, <2>5, <2>6, <2>7
  <1>4. CASE RunReturns(a)
    <2>1. \A q \in reqs : q.app = a => ~Live(q)
      BY <1>4 DEF RunReturns, Live
    <2>2. pc[a] = "closing" => call[a].lease \in orphans \/ ~Counted(call[a].lease)
      BY <1>4 DEF RunReturns, ClosingKnown
    <2>3. \/ pc[a] = "closing" /\ Unregister(a)
          \/ pc[a] = "opening" /\ ~conn[a] /\ UNCHANGED <<repo, age>>
      BY <1>4 DEF RunReturns
    <2>4. /\ EndCall(a) /\ reqs' = reqs
          /\ UNCHANGED <<serverVars, lastId, sessCnt, leases, orphans, clean>>
      BY <1>4 DEF RunReturns
    <2>5. QED
      BY <2>1, <2>2, <2>3, <2>4, CallEndsLeaks
  <1>5. CASE CloseRM(a) \/ CrashApp(a)
    BY <1>5, ForgetLeaks DEF CloseRM, CrashApp
  <1>6. QED
    BY <1>1, <1>2, <1>3, <1>4, <1>5, StartOpenLeaks, StartCloseLeaks, OnReplyLeaks DEF AppStep

LEMMA ServerTimeoutLeaks ==
  ASSUME LInv, IInv', NEW q \in reqs, ServerTimeout(q)
  PROVE  LInv'
  <1> DEFINE n == [q EXCEPT !.stage = "served"]
  <1>1. /\ q.stage \in {"sent", "opened"}
        /\ orphans' = IF q.kind = "connect" THEN orphans \ {q.lease} ELSE orphans \cup {q.lease}
        /\ UNCHANGED <<serverVars, pc, call, warm, repo, lastId, sessCnt, leases, clean, age>>
    BY DEF ServerTimeout
  <1>2. /\ q.app \in Apps /\ q.kind \in {"connect", "disconnect"}
        /\ n.app = q.app /\ n.kind = q.kind /\ n.res = q.res /\ n.lease = q.lease
        /\ n.stage = "served"
    BY DEF LInv, IInv, TypeOK, Request
  <1>3. \/ /\ q.kind = "disconnect" /\ conn' = conn
           /\ reqs' = (reqs \ {q}) \cup (IF Live(q) THEN {n} ELSE {})
        \/ /\ reqs' = reqs \ {q}
           /\ conn' = IF Live(q) THEN [conn EXCEPT ![q.app] = FALSE] ELSE conn
    BY DEF ServerTimeout, Answer
  <1>4. \A p \in reqs \ {q} : p.lease # q.lease /\ p \in reqs' /\ (Live(p) => Live(p)')
    BY <1>1, <1>3 DEF LInv, IInv, RequestsDistinct, TypeOK, Request, Live
  <1>5. \A p \in reqs' : \/ p \in reqs \ {q}
                         \/ p = n /\ q.kind = "disconnect" /\ Live(q)
    BY <1>3
  <1>6. q.kind = "connect" => ~Counted(q.lease)
    BY <1>1 DEF LInv, IInv, ConnectFresh, Counted
  <1> HIDE DEF n
  <1> USE DEF LInv, Counted, serverVars
  <1>7. TicketsFit'
    BY <1>1, <1>2, <1>5 DEF TicketsFit
  <1>8. ServedGone'
    BY <1>1, <1>2, <1>4, <1>5 DEF ServedGone
  <1>9. AbandonedKnown'
    BY <1>1, <1>2, <1>4, <1>5 DEF AbandonedKnown
  <1>10. ClosingKnown'
    <2>1. ASSUME NEW a \in Apps, pc[a] = "closing", ~conn'[a], conn[a]
          PROVE  call[a].lease = q.lease /\ q.kind = "disconnect"
      BY <1>2, <1>3, <2>1 DEF Live, IInv, LiveFits, TypeOK
    <2>2. QED
      BY <1>1, <1>2, <1>6, <2>1 DEF ClosingKnown
  <1>11. NothingElseLeaks'
    BY <1>1, <1>2, <1>4, <1>6 DEF NothingElseLeaks
  <1>12. QED
    BY <1>7, <1>8, <1>9, <1>10, <1>11

LEMMA ServerStepLeaks ==
  ASSUME LInv, IInv', ServerStep
  PROVE  LInv'
  <1> USE DEF LInv, serverVars, appVars, history
  <1>1. CASE ServerStart
    BY <1>1 DEF ServerStart, TicketsFit, ServedGone, AbandonedKnown, Live, ClosingKnown,
       Counted, NothingElseLeaks
  <1>2. ASSUME NEW q \in reqs, Accept(q)
        PROVE  LInv'
    <2> DEFINE n == [q EXCEPT !.stage = "opened"]
    <2>1. /\ q.stage = "sent" /\ reqs' = (reqs \ {q}) \cup {n}
          /\ UNCHANGED <<serverVars, appVars, history>>
      BY <1>2 DEF Accept
    <2>2. n.app = q.app /\ n.kind = q.kind /\ n.res = q.res /\ n.lease = q.lease /\ n.stage = "opened"
      BY DEF IInv, TypeOK, Request
    <2>3. \A p : Live(p)' <=> Live(p)
      BY <2>1 DEF Live
    <2>4. Live(n) <=> Live(q)
      BY <2>2 DEF Live
    <2> HIDE DEF n
    <2>5. TicketsFit' /\ ServedGone' /\ ClosingKnown'
      BY <2>1, <2>2 DEF TicketsFit, ServedGone, ClosingKnown, Counted
    <2>6. AbandonedKnown'
      BY <2>1, <2>2, <2>3, <2>4 DEF AbandonedKnown, Counted
    <2>7. NothingElseLeaks'
      BY <2>1, <2>2 DEF NothingElseLeaks
    <2>8. QED
      BY <2>5, <2>6, <2>7
  <1>3. ASSUME NEW q \in reqs, DropAbandoned(q)
        PROVE  LInv'
    <2>1. /\ up /\ q.stage = "sent" /\ ~Live(q) /\ reqs' = reqs \ {q}
          /\ orphans' = IF q.kind = "connect" THEN orphans \ {q.lease} ELSE orphans
          /\ UNCHANGED <<serverVars, appVars, leases, clean, age>>
      BY <1>3 DEF DropAbandoned
    <2>2. q.kind = "connect" => ~Counted(q.lease)
      BY <2>1 DEF IInv, ConnectFresh, Counted
    <2>3. q.kind \in {"connect", "disconnect"}
      BY DEF IInv, TypeOK, Request
    <2>4. q.lease \in orphans \/ ~Counted(q.lease)
      BY <2>1 DEF AbandonedKnown
    <2>5. \A p \in reqs \ {q} : p.lease # q.lease
      BY DEF IInv, RequestsDistinct
    <2>6. q.kind = "connect" => \A b \in Apps : \A s \in repo[b] : s.lease # q.lease
      BY DEF IInv, RequestOfSession
    <2>7. TicketsFit' /\ ServedGone'
      BY <2>1, <2>5 DEF TicketsFit, ServedGone, Counted
    <2>8. AbandonedKnown'
      BY <2>1, <2>5 DEF AbandonedKnown, Live, Counted
    <2>9. ClosingKnown'
      BY <2>1, <2>2 DEF ClosingKnown, Counted
    <2>10. NothingElseLeaks'
      BY <2>1, <2>2, <2>4 DEF NothingElseLeaks, Counted
    <2>11. QED
      BY <2>7, <2>8, <2>9, <2>10
  <1>4. ASSUME NEW q \in reqs, ServerOnConnect(q)
        PROVE  LInv'
    <2>1. q.kind = "connect" /\ q.stage = "opened" /\ q.res \in Resources
      BY <1>4 DEF ServerOnConnect, IInv, TypeOK, Request
    <2>2. CASE Share(q)
      BY <2>1, <2>2, AnswerLeaks DEF Share, IInv, TypeOK
    <2>3. CASE Establish(q)
      BY <2>1, <2>3, AnswerLeaks DEF Establish, IInv, TypeOK
    <2>4. CASE OpenThrows(q)
      BY <2>4, ServerGoneLeaks DEF OpenThrows
    <2>5. CASE NoFinder(q)
      BY <2>1, <2>5, AnswerLeaks DEF NoFinder
    <2>6. QED
      BY <1>4, <2>2, <2>3, <2>4, <2>5 DEF ServerOnConnect
  <1>5. ASSUME NEW q \in reqs, ServerOnDisconnect(q)
        PROVE  LInv'
    <2>1. q.kind = "disconnect" /\ q.res \in Resources
      BY <1>5 DEF ServerOnDisconnect, IInv, TypeOK, Request
    <2>2. CASE Release(q)
      <3>1. \A r \in Resources : leases'[r] \subseteq leases[r] /\ q.lease \notin leases'[r]
        BY <2>1, <2>2 DEF Release, IInv, TypeOK, TicketsFit
      <3>2. Answer(q, "served") /\ UNCHANGED <<up, starts, appVars>>
            /\ orphans' = orphans \ {q.lease}
        BY <2>2 DEF Release
      <3>3. QED
        BY <2>1, <3>1, <3>2, AnswerLeaks
    <2>3. CASE EraseCrash(q)
      BY <2>3, ServerGoneLeaks DEF EraseCrash
    <2>4. CASE NotConnected(q)
      <3>1. \A r \in Resources : q.lease \notin leases[r]
        BY <2>1, <2>4 DEF NotConnected, TicketsFit, IInv, ConnectionCounted
      <3>2. QED
        BY <2>1, <2>4, <3>1, AnswerLeaks DEF NotConnected
    <2>5. QED
      BY <1>5, <2>2, <2>3, <2>4 DEF ServerOnDisconnect
  <1>6. QED
    BY <1>1, <1>2, <1>3, <1>4, <1>5, ServerTimeoutLeaks, ServerGoneLeaks
    DEF ServerStep, ServerKilled

\* A grant of the server is a session's, a request's, or one of those that
\* Timeout, ServerTimeout, Forget and OnReply give up: for any number of all of them.
THEOREM LeaksAccounted == Spec => []NothingElseLeaks
  <1>1. LInv /\ IInv' /\ [Next]_vars => LInv'
    <2>1. CASE UNCHANGED vars
      BY <2>1 DEF vars, serverVars, appVars, history, LInv, TicketsFit, ServedGone,
         AbandonedKnown, Live, ClosingKnown, Counted, NothingElseLeaks
    <2>2. QED
      BY <2>1, AppStepLeaks, ServerStepLeaks DEF Next
  <1>2. Spec => []LInv
    BY <1>1, InitLeaks, InductiveInvariant, PTL DEF Spec
  <1>3. LInv => NothingElseLeaks
    BY DEF LInv
  <1>4. QED
    BY <1>2, <1>3, PTL

-----------------------------------------------------------------------------
(* What an answered viOpen names.  The id is that of the session on_message *)
(* has just made, for the resource of the request; that this is the one     *)
(* viOpen was called with is a fact about requests and calls.               *)

\* The websocket an application waits on is for the resource of its call.
LiveNames == \A q \in reqs : Live(q) => call[q.app].res = q.res

LEMMA InitNames == Init => LiveNames
  BY DEF Init, LiveNames

\* A new call brings the only request that is on its ticket.
LEMMA CallsName ==
  ASSUME IInv, LiveNames, NEW a \in Apps, NEW c \in Call, NEW kind, NEW e,
         call' = [call EXCEPT ![a] = c],
         Send(a, kind, c.res, c.lease, e),
         \A q \in reqs : q.lease # c.lease
  PROVE  LiveNames'
  <1> USE DEF IInv, TypeOK
  <1>1. \A q \in reqs' : q \in reqs \/ (q.app = a /\ q.res = c.res)
    BY DEF Send
  <1>2. \A q \in reqs : Live(q)' => Live(q) /\ q.app # a
    BY DEF Send, Live, Request
  <1>3. \A q \in reqs : q.app # a => call'[q.app] = call[q.app]
    BY DEF Request
  <1>4. QED
    BY <1>1, <1>2, <1>3 DEF LiveNames

\* A step that ends the call of a, or none, and brings no request.
LEMMA CallsNameStill ==
  ASSUME IInv, LiveNames,
         \A q \in reqs' : \E p \in reqs : q.app = p.app /\ q.lease = p.lease /\ q.res = p.res,
         \A b \in Apps : ~conn'[b] \/ (conn[b] /\ call'[b] = call[b])
  PROVE  LiveNames'
  BY DEF IInv, TypeOK, Request, LiveNames, Live

LEMMA AppStepNames ==
  ASSUME IInv, LiveNames, NEW a \in Apps, AppStep(a)
  PROVE  LiveNames'
  <1> USE DEF IInv, TypeOK
  <1>1. ASSUME NEW r \in Resources, StartOpen(a, r)
        PROVE  LiveNames'
    <2> DEFINE t == CHOOSE t \in Free : TRUE
               c == [res |-> r, lease |-> t, id |-> 0]
    <2>1. /\ t \in Free /\ Free \subseteq Tickets
          /\ call' = [call EXCEPT ![a] = c]
          /\ Send(a, "connect", r, t, starts)
      BY <1>1, FreshTicket DEF StartOpen
    <2>2. \A q \in reqs : q.lease # t
      BY <2>1 DEF Free, InUse
    <2> HIDE DEF t
    <2>3. c \in Call /\ c.res = r /\ c.lease = t
      BY <2>1, ConstantsAssumption DEF Call, Ids
    <2> HIDE DEF c
    <2>4. QED
      BY <2>1, <2>2, <2>3, CallsName
  <1>2. ASSUME NEW s \in repo[a], StartClose(a, s)
        PROVE  LiveNames'
    <2> DEFINE c == [res |-> s.res, lease |-> s.lease, id |-> s.id]
    <2>1. \A q \in reqs : q.lease # s.lease
      BY <1>2 DEF StartClose, RequestOfSession
    <2>2. c \in Call /\ c.res = s.res /\ c.lease = s.lease
      BY DEF Call, Session
    <2>3. call' = [call EXCEPT ![a] = c] /\ Send(a, "disconnect", s.res, s.lease, s.era)
      BY <1>2 DEF StartClose
    <2> HIDE DEF c
    <2>4. QED
      BY <2>1, <2>2, <2>3, CallsName
  <1>3. ASSUME OpenRM(a) \/ (\E q \in reqs : OnReply(a, q) \/ OnDisconnectOpen(a, q))
                 \/ Timeout(a) \/ RunReturns(a) \/ CloseRM(a) \/ CrashApp(a)
        PROVE  LiveNames'
    <2>1. reqs' \subseteq reqs
      BY <1>3 DEF OpenRM, OnReply, OnDisconnectOpen, Timeout, RunReturns, CloseRM, CrashApp
    <2>2. \A b \in Apps : ~conn'[b] \/ (conn[b] /\ call'[b] = call[b])
      BY <1>3 DEF OpenRM, OnReply, OnDisconnectOpen, EndCall, Timeout, RunReturns, CloseRM,
         CrashApp, Forget
    <2>3. QED
      BY <2>1, <2>2, CallsNameStill
  <1>4. QED
    BY <1>1, <1>2, <1>3 DEF AppStep

LEMMA ServerStepNames ==
  ASSUME IInv, LiveNames, ServerStep
  PROVE  LiveNames'
  <1> USE DEF IInv, TypeOK
  <1>1. CASE ServerGone
    BY <1>1 DEF ServerGone, LiveNames
  <1>2. CASE ServerStart
    BY <1>2, CallsNameStill DEF ServerStart, appVars
  <1>3. ASSUME NEW q \in reqs, NEW stage, Answer(q, stage), UNCHANGED <<conn, call>>
        PROVE  LiveNames'
    <2>1. \A p \in reqs' : p \in reqs \/ (p.app = q.app /\ p.lease = q.lease /\ p.res = q.res)
      BY <1>3 DEF Answer, Request
    <2>2. QED
      BY <1>3, <2>1, CallsNameStill
  <1>4. ASSUME NEW q \in reqs, Accept(q) \/ DropAbandoned(q)
        PROVE  LiveNames'
    <2>1. UNCHANGED <<conn, call>>
      BY <1>4 DEF Accept, DropAbandoned, appVars
    <2>2. \A p \in reqs' : p \in reqs \/ (p.app = q.app /\ p.lease = q.lease /\ p.res = q.res)
      BY <1>4 DEF Accept, DropAbandoned, Request
    <2>3. QED
      BY <2>1, <2>2, CallsNameStill
  <1>5. ASSUME NEW q \in reqs, ServerTimeout(q)
        PROVE  LiveNames'
    <2>1. CASE Answer(q, "served") /\ UNCHANGED conn
      BY <1>3, <1>5, <2>1 DEF ServerTimeout
    <2>2. CASE /\ reqs' = reqs \ {q}
               /\ conn' = IF Live(q) THEN [conn EXCEPT ![q.app] = FALSE] ELSE conn
      BY <1>5, <2>2, CallsNameStill DEF ServerTimeout
    <2>3. QED
      BY <1>5, <2>1, <2>2 DEF ServerTimeout
  <1>6. ASSUME NEW q \in reqs, ServerOnConnect(q)
        PROVE  LiveNames'
    BY <1>1, <1>3, <1>6 DEF ServerOnConnect, Share, Establish, OpenThrows, NoFinder, appVars
  <1>7. ASSUME NEW q \in reqs, ServerOnDisconnect(q)
        PROVE  LiveNames'
    BY <1>1, <1>3, <1>7 DEF ServerOnDisconnect, Release, EraseCrash, NotConnected, appVars
  <1>8. QED
    BY <1>1, <1>2, <1>4, <1>5, <1>6, <1>7 DEF ServerStep, ServerKilled

-----------------------------------------------------------------------------
(* The ids of sessions.                                                    *)

\* An id is as far behind the counter as viOpens have been answered since it
\* was given out, until the counter has been all round.
AgesFit ==
    \A a \in Apps : \A s \in repo[a] :
        \/ age[a][s.id] >= SessMod - 1
        \/ s.id + age[a][s.id] = sessCnt[a]
        \/ s.id + age[a][s.id] = sessCnt[a] + SessMod

(* genSessionId counts on and starts again from zero.                      *)
LEMMA NextId ==
  ASSUME NEW c \in Ids
  PROVE  /\ (c + 1) % SessMod \in Ids
         /\ (c + 1) % SessMod = IF c + 1 = SessMod THEN 0 ELSE c + 1
  <1>1. CASE c + 1 = SessMod
    <2>1. (c + 1) % SessMod = 0
      BY <1>1, ConstantsAssumption DEF Ids
    <2> QED
      BY <1>1, <2>1, ConstantsAssumption DEF Ids
  <1>2. CASE c + 1 # SessMod
    <2>1. (c + 1) % SessMod = c + 1
      BY <1>2, ConstantsAssumption DEF Ids
    <2> QED
      BY <1>2, <2>1, ConstantsAssumption DEF Ids
  <1> QED
    BY <1>1, <1>2

LEMMA OnReplyAges ==
  ASSUME IInv, AgesFit, NEW a \in Apps, NEW q \in reqs, OnReply(a, q)
  PROVE  AgesFit'
  <1> DEFINE id   == (sessCnt[a] + 1) % SessMod
             new  == [id |-> id, res |-> q.res, lease |-> q.lease, era |-> starts]
             lost == \E s \in repo[a] : s.id = id
  <1>1. /\ sessCnt' = [sessCnt EXCEPT ![a] = id]
        /\ repo' = IF lost THEN repo ELSE [repo EXCEPT ![a] = @ \cup {new}]
        /\ Older(a)
    BY DEF OnReply
  <1>2. sessCnt[a] \in Ids /\ new.id = id
    BY DEF IInv, TypeOK
  <1>3. id \in Ids /\ id = IF sessCnt[a] + 1 = SessMod THEN 0 ELSE sessCnt[a] + 1
    BY <1>2, NextId
  <1>4. \A b \in Apps : \A s \in repo'[b] : s \in repo[b] \/ (b = a /\ ~lost /\ s = new)
    BY <1>1 DEF IInv, TypeOK
  <1>5. \A b \in Apps : b # a => sessCnt'[b] = sessCnt[b] /\ age'[b] = age[b]
    BY <1>1 DEF Older, IInv, TypeOK
  <1>6. sessCnt'[a] = id
    BY <1>1 DEF IInv, TypeOK
  <1>7. \A i \in Ids :
          age'[a][i] = IF ~(\E s \in repo[a] : s.id = i) THEN 0
                       ELSE IF age[a][i] < SessMod - 1 THEN age[a][i] + 1 ELSE SessMod - 1
    BY <1>1 DEF Older, IInv, TypeOK
  <1>8. \A i \in Ids : age[a][i] \in 0 .. SessMod - 1
    BY DEF IInv, TypeOK, Ages
  <1>9. \A s \in repo[a] : s.id \in Ids
    BY DEF IInv, TypeOK, Session
  <1> HIDE DEF id, new, lost
  <1>10. ASSUME NEW s \in repo'[a]
         PROVE  \/ age'[a][s.id] >= SessMod - 1
                \/ s.id + age'[a][s.id] = sessCnt'[a]
                \/ s.id + age'[a][s.id] = sessCnt'[a] + SessMod
    <2>1. CASE s \in repo[a]
      <3>1. /\ s.id \in Ids
            /\ age'[a][s.id] = IF age[a][s.id] < SessMod - 1 THEN age[a][s.id] + 1
                               ELSE SessMod - 1
        BY <1>7, <1>9, <2>1
      <3>2. \/ age[a][s.id] >= SessMod - 1
            \/ s.id + age[a][s.id] = sessCnt[a]
            \/ s.id + age[a][s.id] = sessCnt[a] + SessMod
        BY <2>1 DEF AgesFit
      <3> QED
        BY <1>2, <1>3, <1>6, <1>8, <3>1, <3>2, ConstantsAssumption DEF Ids
    <2>2. CASE s = new /\ ~lost
      <3>1. age'[a][id] = 0
        BY <1>3, <1>7, <2>2 DEF lost
      <3> QED
        BY <1>2, <1>3, <1>6, <2>2, <3>1, ConstantsAssumption DEF Ids
    <2> QED
      BY <1>4, <2>1, <2>2
  <1> QED
    BY <1>4, <1>5, <1>10 DEF AgesFit

LEMMA AgesStep ==
  ASSUME IInv, AgesFit, [Next]_vars
  PROVE  AgesFit'
  <1>1. CASE UNCHANGED <<repo, sessCnt, age>>
    BY <1>1 DEF AgesFit
  <1>2. ASSUME NEW a \in Apps, Unregister(a), UNCHANGED sessCnt
        PROVE  AgesFit'
    <2>1. \A b \in Apps : \A s \in repo'[b] :
             s \in repo[b] /\ (b = a => s.id # call[a].id)
      BY <1>2 DEF Unregister, IInv, TypeOK
    <2>2. \A b \in Apps : \A i \in Ids :
             (b = a => i # call[a].id) => age'[b][i] = age[b][i]
      BY <1>2 DEF Unregister, IInv, TypeOK
    <2>3. \A b \in Apps : \A s \in repo[b] : s.id \in Ids
      BY DEF IInv, TypeOK, Session
    <2> QED
      BY <1>2, <2>1, <2>2, <2>3 DEF AgesFit
  <1>3. ASSUME NEW a \in Apps, Forget(a),
               \A b \in Apps : b # a => sessCnt'[b] = sessCnt[b]
        PROVE  AgesFit'
    <2>1. \A b \in Apps : b # a => age'[b] = age[b] /\ repo'[b] = repo[b]
      BY <1>3 DEF Forget, IInv, TypeOK
    <2>2. repo'[a] = {}
      BY <1>3 DEF Forget, IInv, TypeOK
    <2> QED
      BY <1>3, <2>1, <2>2 DEF AgesFit
  <1>4. CASE ServerStep \/ UNCHANGED vars
    <2>1. UNCHANGED <<repo, sessCnt, age>>
      BY <1>4 DEF ServerStep, ServerKilled, ServerGone, ServerStart, Accept, DropAbandoned,
         ServerTimeout, ServerOnConnect, Share, Establish, OpenThrows, NoFinder,
         ServerOnDisconnect, Release, EraseCrash, NotConnected, vars, appVars, history
    <2> QED
      BY <1>1, <2>1
  <1>5. ASSUME NEW a \in Apps, AppStep(a)
        PROVE  AgesFit'
    <2>1. CASE \E q \in reqs : OnReply(a, q)
      BY <2>1, OnReplyAges
    <2>2. CASE \E q \in reqs : OnDisconnectOpen(a, q)
      BY <1>2, <2>2 DEF OnDisconnectOpen
    <2>3. CASE RunReturns(a)
      BY <1>1, <1>2, <2>3 DEF RunReturns
    <2>4. CASE CloseRM(a) \/ CrashApp(a)
      BY <1>3, <2>4 DEF CloseRM, CrashApp, IInv, TypeOK
    <2>5. CASE \/ OpenRM(a) \/ Timeout(a)
               \/ \E r \in Resources : StartOpen(a, r)
               \/ \E s \in repo[a] : StartClose(a, s)
      <3>1. UNCHANGED <<repo, sessCnt, age>>
        BY <2>5 DEF OpenRM, Timeout, StartOpen, StartClose, history
      <3> QED
        BY <1>1, <3>1
    <2> QED
      BY <1>5, <2>1, <2>2, <2>3, <2>4, <2>5 DEF AppStep
  <1> QED
    BY <1>4, <1>5 DEF Next

\* The one step that ends a viOpen whose websocket is open is OnReply.
LEMMA AnswersDenote ==
  ASSUME IInv, AgesFit, LiveNames, [Next]_vars, NEW a \in Apps,
         pc[a] = "opening", pc'[a] = "idle", conn[a]
  PROVE  \/ \E s \in repo'[a] :
               s.id = lastId'[a] /\ s.lease = call[a].lease /\ s.res = call[a].res
         \/ \E s \in repo[a] : s.id = lastId'[a] /\ age[a][s.id] >= SessMod - 1
  <1> USE DEF IInv, TypeOK
  <1>1. ~ServerStep /\ ~UNCHANGED vars
    BY DEF ServerStep, ServerKilled, ServerGone, ServerStart, Accept, DropAbandoned,
       ServerTimeout, ServerOnConnect, Share, Establish, OpenThrows, NoFinder,
       ServerOnDisconnect, Release, EraseCrash, NotConnected, vars, appVars
  <1>2. PICK b \in Apps : AppStep(b)
    BY <1>1 DEF Next
  <1>3. b = a /\ \E q \in reqs : OnReply(a, q)
    BY <1>2 DEF AppStep, OpenRM, StartOpen, StartClose, OnReply, OnDisconnectOpen, EndCall,
       LiveFits, Timeout, RunReturns, CloseRM, CrashApp, Forget
  <1>4. PICK q \in reqs : OnReply(a, q)
    BY <1>3
  <1> DEFINE id   == (sessCnt[a] + 1) % SessMod
             new  == [id |-> id, res |-> q.res, lease |-> q.lease, era |-> starts]
             lost == \E s \in repo[a] : s.id = id
  <1>5. lastId'[a] = id
    BY <1>4 DEF OnReply
  <1>6. CASE ~lost
    <2>1. repo' = [repo EXCEPT ![a] = @ \cup {new}]
      BY <1>4, <1>6 DEF OnReply
    <2>2. new \in repo'[a]
      BY <2>1
    <2>3. q.lease = call[a].lease /\ q.res = call[a].res
      BY <1>4 DEF OnReply, Live, LiveNames
    <2> QED
      BY <1>5, <2>2, <2>3
  <1>7. CASE lost
    <2>1. PICK s \in repo[a] : s.id = id
      BY <1>7
    <2>2. sessCnt[a] \in Ids /\ id = IF sessCnt[a] + 1 = SessMod THEN 0 ELSE sessCnt[a] + 1
      BY NextId
    <2>3. age[a][s.id] \in 0 .. SessMod - 1
      BY <2>1, <2>2, NextId DEF Ages
    <2>4. age[a][s.id] >= SessMod - 1
      <3> HIDE DEF id, IInv, TypeOK
      <3>1. \/ age[a][s.id] >= SessMod - 1
            \/ s.id + age[a][s.id] = sessCnt[a]
            \/ s.id + age[a][s.id] = sessCnt[a] + SessMod
        BY DEF AgesFit
      <3> QED
        BY <2>1, <2>2, <2>3, <3>1, ConstantsAssumption DEF Ids
    <2> QED
      BY <1>5, <2>1, <2>4
  <1> QED
    BY <1>6, <1>7

(* An answered viOpen gives the id of its own session, on the resource it  *)
(* asked for, with any number of applications, tickets and ids, time-outs, *)
(* crashes and restarts; two sessions meet in one id only when the older   *)
(* one has stayed open while all the others were given out.                *)
THEOREM OpensDenote == Spec => AnsweredOpenDenotes
  <1>1. Init => AgesFit
    BY DEF Init, AgesFit
  <1>2. IInv /\ AgesFit /\ [Next]_vars => AgesFit'
    BY AgesStep
  <1>3. LiveNames /\ IInv /\ [Next]_vars => LiveNames'
    <2>1. CASE UNCHANGED vars
      BY <2>1 DEF vars, appVars, LiveNames, Live
    <2>2. QED
      BY <2>1, AppStepNames, ServerStepNames DEF Next
  <1>4. Spec => [](AgesFit /\ LiveNames)
    BY <1>1, <1>2, <1>3, InitNames, InductiveInvariant, PTL DEF Spec
  <1> DEFINE Denotes ==
        \A a \in Apps :
          pc[a] = "opening" /\ pc'[a] = "idle" /\ conn[a] =>
             \/ \E s \in repo'[a] :
                   s.id = lastId'[a] /\ s.lease = call[a].lease /\ s.res = call[a].res
             \/ \E s \in repo[a] : s.id = lastId'[a] /\ age[a][s.id] >= SessMod - 1
  <1>5. IInv /\ AgesFit /\ LiveNames /\ [Next]_vars => Denotes
    BY AnswersDenote
  <1>6. Spec => [][Denotes]_vars
    <2> HIDE DEF Denotes
    <2>1. QED
      BY <1>4, <1>5, InductiveInvariant, PTL DEF Spec
  <1>7. QED
    BY <1>6 DEF AnsweredOpenDenotes
=============================================================================
