-------------------------- MODULE VisaSessionsLease --------------------------
(* VisaSessions implements PortLease: the proof, for all values of the     *)
(* constants, from the inductive invariant of VisaSessionsProofs.          *)
EXTENDS VisaSessionsProofs

\* A ticket is held while a session with it is usable.
LEMMA HeldMeaning ==
  /\ Held = [r \in Resources |-> Held[r]]
  /\ \A r \in Resources : \A t :
        t \in Held[r] <=>
          Promises /\ \E a \in Apps : \E s \in repo[a] :
                          s.res = r /\ s.lease = t /\ Usable(a, s)
  BY DEF Held

\* The same of the next state.
LEMMA HeldMeaningNext ==
  /\ Held' = [r \in Resources |-> Held'[r]]
  /\ \A r \in Resources : \A t :
        t \in Held'[r] <=>
          Promises' /\ \E a \in Apps : \E s \in repo'[a] :
                          s.res = r /\ s.lease = t /\ Usable(a, s)'
  BY DEF Held

\* Whoever holds a port is one of its users.
LEMMA HeldAreUsers ==
  ASSUME IInv, NEW r \in Resources
  PROVE  Held[r] \subseteq Users[r]
  BY HeldMeaning DEF IInv, GrantsCounted, Users, Promises

-----------------------------------------------------------------------------
(* The shapes of a step.                                                   *)

\* Nobody is lent anything or gives anything back.
LEMMA LettingGo ==
  ASSUME UNCHANGED <<Promises, Users, PortsOn>>,
         \A r \in Resources : Held'[r] \subseteq Held[r]
  PROVE  Lease!LetGo
  BY DEF Lease!LetGo

LEMMA Ending ==
  ASSUME ~Promises'
  PROVE  [Lease!Next]_(Lease!leaseVars)
  <1>1. /\ Users' = [r \in Resources |-> {}]
        /\ Held' = [r \in Resources |-> {}]
        /\ PortsOn' = {}
    BY DEF Users, Held, PortsOn
  <1>2. CASE Promises
    <2>1. Lease!End
      BY <1>1, <1>2 DEF Lease!End, Lease!Nobody
    <2>2. QED
      BY <2>1 DEF Lease!Next
  <1>3. CASE ~Promises
    <2>1. /\ Users = [r \in Resources |-> {}]
          /\ Held = [r \in Resources |-> {}]
          /\ PortsOn = {}
      BY <1>3 DEF Users, Held, PortsOn
    <2>2. Promises' = Promises
      BY <1>3 DEF Promises
    <2>3. QED
      BY <1>1, <2>1, <2>2 DEF Lease!leaseVars
  <1>4. QED
    BY <1>2, <1>3

\* A step of applications that registers no session only lets go.
LEMMA NothingHeldAnew ==
  ASSUME UNCHANGED <<serverVars, leases, clean>>,
         \A a \in Apps : \A s \in repo'[a] : s \in repo[a] /\ (Usable(a, s)' => Usable(a, s))
  PROVE  Lease!LetGo
  <1>1. UNCHANGED <<Promises, Users, PortsOn>>
    BY DEF Promises, Users, PortsOn, serverVars
  <1>2. \A r \in Resources : Held'[r] \subseteq Held[r]
    BY <1>1, HeldMeaning, HeldMeaningNext
  <1>3. QED
    BY <1>1, <1>2, LettingGo

-----------------------------------------------------------------------------
(* The initial state and the steps.                                        *)

LEMMA InitLease == Init => Lease!Init
  <1> SUFFICES ASSUME Init PROVE Lease!Init
    OBVIOUS
  <1>1. Promises /\ Users = [r \in Resources |-> {}] /\ PortsOn = {}
    BY DEF Init, Promises, Users, PortsOn
  <1>2. \A r \in Resources : Held[r] = {}
    BY HeldMeaning DEF Init
  <1>3. Held = [r \in Resources |-> {}]
    BY <1>2, HeldMeaning
  <1>4. QED
    BY <1>1, <1>3 DEF Lease!Init, Lease!Nobody

\* The session of an answered viOpen holds its port from now on.
LEMMA OnReplyLease ==
  ASSUME IInv, NEW a \in Apps, NEW q \in reqs, OnReply(a, q)
  PROVE  [Lease!Next]_(Lease!leaseVars)
  <1> DEFINE id   == (sessCnt[a] + 1) % SessMod
             new  == [id |-> id, res |-> q.res, lease |-> q.lease, era |-> starts]
             lost == \E s \in repo[a] : s.id = id
  <1>1. /\ q \in Request /\ q.kind = "connect" /\ q.app = a /\ pc[a] = "opening"
        /\ up /\ q.res \in Resources /\ q.lease \in Tickets /\ q.stage = "replied"
    BY DEF OnReply, IInv, TypeOK, StagesFit, LiveFits, Request, DownIsEmpty
  <1>2. /\ repo' = IF lost THEN repo ELSE [repo EXCEPT ![a] = @ \cup {new}]
        /\ pc' = [pc EXCEPT ![a] = "idle"]
        /\ call' = [call EXCEPT ![a] = NoCall]
        /\ UNCHANGED <<serverVars, leases, clean>>
    BY DEF OnReply, EndCall
  <1>3. new.res = q.res /\ new.lease = q.lease /\ new.era = starts
    OBVIOUS
  <1>4. UNCHANGED <<Promises, Users, PortsOn>>
    BY <1>2 DEF Promises, Users, PortsOn, serverVars
  <1>5. \A b \in Apps : \A s \in repo[b] : Usable(b, s)' <=> Usable(b, s)
    BY <1>1, <1>2 DEF Usable, serverVars, IInv, TypeOK
  <1>6. \A b \in Apps : repo'[b] = IF b = a /\ ~lost THEN repo[a] \cup {new} ELSE repo[b]
    BY <1>2 DEF IInv, TypeOK
  <1>7. \A s : s = new => Usable(a, s)'
    BY <1>1, <1>2, <1>3 DEF Usable, serverVars, IInv, TypeOK
  <1> HIDE DEF new, lost
  <1>8. CASE lost
    <2>1. repo' = repo
      BY <1>2, <1>8
    <2>2. Lease!LetGo
      BY <1>2, <1>5, <2>1, NothingHeldAnew
    <2>3. QED
      BY <2>2 DEF Lease!Next
  <1>9. CASE ~Promises
    BY <1>4, <1>9, Ending
  <1>10. CASE ~lost /\ Promises
    <2>1. ASSUME NEW r \in Resources, NEW t
          PROVE  t \in Held'[r] <=> t \in Held[r] \/ (r = q.res /\ t = q.lease)
      <3>1. t \in Held'[r] <=> \E b \in Apps : \E s \in repo'[b] :
                                  s.res = r /\ s.lease = t /\ Usable(b, s)'
        BY <1>4, <1>10, HeldMeaningNext
      <3>2. t \in Held[r] <=> \E b \in Apps : \E s \in repo[b] :
                                 s.res = r /\ s.lease = t /\ Usable(b, s)
        BY <1>10, HeldMeaning
      <3>3. \A b \in Apps : \A s : s \in repo'[b] <=> s \in repo[b] \/ (b = a /\ s = new)
        BY <1>6, <1>10
      <3>4. ASSUME NEW b \in Apps, NEW s \in repo'[b],
                   s.res = r, s.lease = t, Usable(b, s)'
            PROVE  t \in Held[r] \/ (r = q.res /\ t = q.lease)
        BY <1>3, <1>5, <3>2, <3>3, <3>4
      <3>5. t \in Held[r] => t \in Held'[r]
        BY <1>5, <3>1, <3>2, <3>3
      <3>6. r = q.res /\ t = q.lease => t \in Held'[r]
        BY <1>3, <1>7, <3>1, <3>3
      <3>7. QED
        BY <3>1, <3>4, <3>5, <3>6
    <2>2. Held' = [Held EXCEPT ![q.res] = @ \cup {q.lease}]
      BY <2>1, HeldMeaning, HeldMeaningNext
    <2>3. q.lease \in Users[q.res]
      BY <1>1, <1>10 DEF IInv, GrantsCounted, Users, Promises
    <2>4. q.lease \notin Held[q.res]
      BY <1>1, HeldMeaning DEF IInv, RequestOfSession
    <2>5. Lease!Deliver(q.res, q.lease)
      BY <1>4, <2>2, <2>3, <2>4 DEF Lease!Deliver
    <2>6. QED
      BY <1>1, <2>5 DEF Lease!Next
  <1>11. QED
    BY <1>8, <1>9, <1>10

\* Whatever else an application does, it is told of no port.
LEMMA AppStepLease ==
  ASSUME IInv, NEW a \in Apps, AppStep(a)
  PROVE  [Lease!Next]_(Lease!leaseVars)
  <1> SUFFICES ASSUME ~ \E q \in reqs : OnReply(a, q)
               PROVE  Lease!LetGo
    BY OnReplyLease DEF Lease!Next
  <1> USE DEF IInv, TypeOK, serverVars, history, Usable
  <1>1. CASE OpenRM(a)
    BY <1>1, NothingHeldAnew DEF OpenRM
  <1>2. ASSUME NEW r \in Resources, StartOpen(a, r)
        PROVE  Lease!LetGo
    BY <1>2, NothingHeldAnew DEF StartOpen
  <1>3. ASSUME NEW s \in repo[a], StartClose(a, s)
        PROVE  Lease!LetGo
    BY <1>3, NothingHeldAnew DEF StartClose
  <1>4. ASSUME EndCall(a), UNCHANGED <<serverVars, leases, clean>>,
               \/ pc[a] = "closing" /\ Unregister(a)
               \/ pc[a] = "opening" /\ UNCHANGED repo
        PROVE  Lease!LetGo
    <2>1. \A b \in Apps : \A s \in repo'[b] :
             s \in repo[b] /\ (b = a /\ pc[a] = "closing" => s.lease # call[a].lease)
      BY <1>4 DEF Unregister, ClosingRegistered, SessionsDistinct
    <2>2. /\ pc' = [pc EXCEPT ![a] = "idle"]
          /\ call' = [call EXCEPT ![a] = NoCall]
      BY <1>4 DEF EndCall
    <2>3. \A b \in Apps : \A s \in repo'[b] : Usable(b, s)' => Usable(b, s)
      BY <1>4, <2>1, <2>2
    <2>4. QED
      BY <1>4, <2>1, <2>3, NothingHeldAnew
  <1>5. ASSUME NEW q \in reqs, OnDisconnectOpen(a, q)
        PROVE  Lease!LetGo
    <2>1. pc[a] = "closing"
      BY <1>5 DEF OnDisconnectOpen, LiveFits
    <2>2. QED
      BY <1>4, <1>5, <2>1 DEF OnDisconnectOpen
  <1>6. CASE Timeout(a)
    BY <1>6, NothingHeldAnew DEF Timeout
  <1>7. CASE RunReturns(a)
    BY <1>4, <1>7 DEF RunReturns
  <1>8. CASE CloseRM(a) \/ CrashApp(a)
    <2>1. /\ repo' = [repo EXCEPT ![a] = {}]
          /\ pc' = [pc EXCEPT ![a] = "noRM"]
          /\ call' = [call EXCEPT ![a] = NoCall]
          /\ UNCHANGED <<serverVars, leases, clean>>
      BY <1>8 DEF CloseRM, CrashApp, Forget
    <2>2. QED
      BY <2>1, NothingHeldAnew
  <1>9. QED
    BY <1>1, <1>2, <1>3, <1>5, <1>6, <1>7, <1>8 DEF AppStep

\* The applications do not notice a step of the server.
LEMMA HeldUnchanged ==
  ASSUME UNCHANGED <<Promises, up, starts, appVars>>
  PROVE  Held' = Held
  <1>1. \A r \in Resources : \A t : t \in Held'[r] <=> t \in Held[r]
    BY HeldMeaning, HeldMeaningNext DEF appVars, Usable
  <1>2. \A r \in Resources : Held'[r] = Held[r]
    BY <1>1
  <1>3. QED
    BY <1>2, HeldMeaning, HeldMeaningNext

LEMMA ServerKeeps ==
  ASSUME UNCHANGED <<serverVars, appVars, leases, clean>>
  PROVE  Lease!LetGo
  BY NothingHeldAnew DEF serverVars, appVars, Usable

LEMMA ServerGoneLease ==
  ASSUME ServerGone
  PROVE  [Lease!Next]_(Lease!leaseVars)
  BY Ending DEF ServerGone, Promises

\* A new server finds nothing lent: no session is of its era yet.
LEMMA ServerStartLease ==
  ASSUME IInv, ServerStart
  PROVE  [Lease!Next]_(Lease!leaseVars)
  <1>1. ~Promises /\ Promises'
    BY DEF ServerStart, Promises
  <1>2. Users = [r \in Resources |-> {}] /\ Users' = [r \in Resources |-> {}]
    BY <1>1 DEF ServerStart, Users, IInv, DownIsEmpty, ConnectionCounted, TypeOK
  <1>3. PortsOn = {} /\ PortsOn' = {}
    BY <1>1 DEF ServerStart, PortsOn, IInv, DownIsEmpty
  <1>4. \A a \in Apps : \A s \in repo'[a] : ~Usable(a, s)'
    BY DEF ServerStart, appVars, Usable, IInv, ErasPast, TypeOK, Session
  <1>5. \A r \in Resources : Held[r] = {} /\ Held'[r] = {}
    BY <1>1, <1>4, HeldMeaning, HeldMeaningNext
  <1>6. Held' = Held
    BY <1>5, HeldMeaning, HeldMeaningNext
  <1>7. Lease!Begin
    BY <1>1, <1>2, <1>3, <1>6 DEF Lease!Begin, Promises
  <1>8. QED
    BY <1>7 DEF Lease!Next

\* The two ways of being granted a viOpen.
LEMMA GrantLease ==
  ASSUME IInv, NEW q \in reqs, q.kind = "connect", q.stage = "opened",
         \A r \in Resources \ {q.res} : port'[r] = port[r],
         port'[q.res] # "absent",
         leases' = [leases EXCEPT ![q.res] = @ \cup {q.lease}],
         UNCHANGED <<up, starts, appVars, clean>>
  PROVE  [Lease!Next]_(Lease!leaseVars)
  <1>1. q.res \in Resources /\ q.lease \in Tickets
    BY DEF IInv, TypeOK, Request
  <1>2. UNCHANGED Promises
    BY DEF Promises
  <1>3. CASE ~Promises
    BY <1>2, <1>3, Ending
  <1>4. CASE Promises
    <2>1. Held' = Held
      BY <1>2, HeldUnchanged
    <2>2. PortsOn' = PortsOn \cup {q.res}
      BY <1>1, <1>2, <1>4 DEF PortsOn
    <2>3. Users' = [Users EXCEPT ![q.res] = @ \cup {q.lease}]
      BY <1>2, <1>4 DEF Users
    <2>4. \A r \in Resources : q.lease \notin Users[r]
      BY <1>4 DEF Users, IInv, ConnectFresh
    <2>5. Lease!Grant(q.res, q.lease)
      BY <1>2, <1>4, <2>1, <2>2, <2>3, <2>4 DEF Lease!Grant
    <2>6. QED
      BY <1>1, <2>5 DEF Lease!Next
  <1>5. QED
    BY <1>3, <1>4

LEMMA ServerOnConnectLease ==
  ASSUME IInv, NEW q \in reqs, ServerOnConnect(q)
  PROVE  [Lease!Next]_(Lease!leaseVars)
  <1>1. q.res \in Resources /\ q.kind = "connect" /\ q.stage = "opened"
    BY DEF IInv, TypeOK, Request, ServerOnConnect
  <1>2. CASE Share(q)
    BY <1>1, <1>2, GrantLease DEF Share
  <1>3. CASE Establish(q)
    <2>1. PICK o \in OpenOutcomes(KindOf[q.res]) \ {"throws"} :
             port' = [port EXCEPT ![q.res] = o]
      BY <1>3 DEF Establish
    <2>2. o # "absent"
      BY <1>1, <2>1, ConstantsAssumption DEF OpenOutcomes, Kinds
    <2>3. QED
      BY <1>1, <1>3, <2>1, <2>2, GrantLease DEF Establish, IInv, TypeOK
  <1>4. CASE OpenThrows(q)
    BY <1>4, ServerGoneLease DEF OpenThrows
  <1>5. CASE NoFinder(q)
    BY <1>5, ServerKeeps DEF NoFinder, history, Lease!Next
  <1>6. QED
    BY <1>2, <1>3, <1>4, <1>5 DEF ServerOnConnect

\* A reference is taken back from one who held it, or the promise ends.
LEMMA ReleaseLease ==
  ASSUME IInv, NEW q \in reqs, q.kind = "disconnect", q.stage = "opened", up, Release(q)
  PROVE  [Lease!Next]_(Lease!leaseVars)
  <1>1. q \in Request /\ q.res \in Resources /\ q.lease \in Tickets
    BY DEF IInv, TypeOK, Request
  <1>2. CASE ~Promises'
    BY <1>2, Ending
  <1>3. CASE Promises'
    <2>1. clean /\ q.lease \in leases[q.res] /\ Promises
      BY <1>3 DEF Release, Promises, IInv, GrantsCounted
    <2>2. ref[q.res] = Cardinality(leases[q.res]) /\ ref[q.res] \in Nat
      BY <1>1, <2>1 DEF IInv, TypeOK, RefCounts
    <2>3. leases[q.res] \in SUBSET Tickets
      BY <1>1 DEF IInv, TypeOK
    <2>4. ref[q.res] = 1 <=> leases[q.res] \ {q.lease} = {}
      <3>1. /\ IsFiniteSet(leases[q.res] \ {q.lease})
            /\ Cardinality(leases[q.res] \ {q.lease}) = ref[q.res] - 1
        BY <2>1, <2>2, <2>3, TicketSetsFinite, FS_RemoveElement
      <3>2. QED
        BY <2>2, <3>1, FS_EmptySet
    <2>5. leases' = [leases EXCEPT ![q.res] = @ \ {q.lease}]
      BY <1>1, <2>4 DEF Release, IInv, TypeOK
    <2>6. Users' = [Users EXCEPT ![q.res] = @ \ {q.lease}]
      BY <1>3, <2>1, <2>5 DEF Users
    <2>7. PortsOn' = IF Users'[q.res] = {} THEN PortsOn \ {q.res} ELSE PortsOn
      <3>1. Users'[q.res] = leases[q.res] \ {q.lease}
        BY <1>1, <1>3, <2>5 DEF Users, IInv, TypeOK
      <3>2. port' = [port EXCEPT ![q.res] = IF ref[q.res] = 1 THEN "absent" ELSE @]
        BY DEF Release, Deref
      <3>3. port[q.res] # "absent"
        BY DEF Release
      <3>4. QED
        BY <1>1, <1>3, <2>1, <2>4, <3>1, <3>2, <3>3 DEF PortsOn, IInv, TypeOK
    <2>8. Held' = Held
      BY <1>3, <2>1, HeldUnchanged DEF Release
    <2>9. q.lease \in Users[q.res]
      BY <2>1 DEF Users
    <2>10. q.lease \notin Held[q.res]
      BY <1>1, HeldMeaning DEF IInv, RequestOfSession, Usable
    <2>11. Lease!Return(q.res, q.lease)
      BY <1>3, <2>1, <2>6, <2>7, <2>8, <2>9, <2>10 DEF Lease!Return
    <2>12. QED
      BY <1>1, <2>11 DEF Lease!Next
  <1>4. QED
    BY <1>2, <1>3

LEMMA ServerStepLease ==
  ASSUME IInv, ServerStep
  PROVE  [Lease!Next]_(Lease!leaseVars)
  <1>1. ASSUME NEW q \in reqs, ServerOnDisconnect(q)
        PROVE  [Lease!Next]_(Lease!leaseVars)
    <2>1. CASE NotConnected(q)
      BY <2>1, ServerKeeps DEF NotConnected, history, Lease!Next
    <2>2. QED
      BY <1>1, <2>1, ReleaseLease, ServerGoneLease DEF ServerOnDisconnect, EraseCrash
  <1>2. ASSUME NEW q \in reqs, Accept(q) \/ DropAbandoned(q)
        PROVE  [Lease!Next]_(Lease!leaseVars)
    BY <1>2, ServerKeeps DEF Accept, DropAbandoned, history, Lease!Next
  <1>3. ASSUME NEW q \in reqs, ServerTimeout(q)
        PROVE  [Lease!Next]_(Lease!leaseVars)
    BY <1>3, NothingHeldAnew DEF ServerTimeout, serverVars, Usable, Lease!Next
  <1>4. QED
    BY <1>1, <1>2, <1>3, ServerGoneLease, ServerStartLease, ServerOnConnectLease
       DEF ServerStep, ServerKilled

-----------------------------------------------------------------------------
(* The theorem.                                                            *)

\* The session protocol keeps the promise of PortLease: a port is there from
\* the first grant to the last disconnect of its users (VisaConnction::refMe,
\* close), and no session loses the port it holds.
THEOREM LeaseImplemented == Spec => ImplementsLease
  <1>1. IInv /\ [Next]_vars => [Lease!Next]_(Lease!leaseVars)
    <2>1. ASSUME IInv, UNCHANGED vars
          PROVE  [Lease!Next]_(Lease!leaseVars)
      BY <2>1, ServerKeeps DEF vars, history, Lease!Next
    <2>2. QED
      BY <2>1, AppStepLease, ServerStepLease DEF Next
  <1>2. QED
    BY <1>1, InitLease, InductiveInvariant, PTL DEF Spec, ImplementsLease, Lease!Spec
=============================================================================
