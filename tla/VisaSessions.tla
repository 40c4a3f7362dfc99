---------------------------- MODULE VisaSessions ----------------------------
(***************************************************************************)
(* The session protocol of avisa: application processes linked with        *)
(* libavisa (client/src) open and close VISA sessions on instruments that  *)
(* one server process (src) reaches through its ports.                     *)
(*                                                                         *)
(*   viOpen   opens a websocket on /avisa/service/connect?res=r and waits  *)
(*            for the reply; the server's on_open shares or creates the    *)
(*            VisaConnction of r and counts the session in its ref_.       *)
(*   viClose  opens a websocket on /avisa/service/disconnect?res=r and     *)
(*            returns as soon as the handshake is over; the server's       *)
(*            on_open drops one reference, later.                          *)
(*                                                                         *)
(* Every call uses a TCP connection of its own, so the server meets the    *)
(* requests in any order: they are a set.  The server runs one handler at  *)
(* a time (one m_server.run()), so a handler is one step.                  *)
(*                                                                         *)
(* A ticket names one viOpen ... viClose lifetime: the connect request,    *)
(* its reply, the Session object and the disconnect request carry it.  The *)
(* code has no such name (that is why its count can go wrong); leases,     *)
(* orphans, clean, age and the era of a session are history variables that *)
(* no guard reads.                                                         *)
(***************************************************************************)
EXTENDS Naturals, FiniteSets

CONSTANTS
    Apps,        \* processes linked with libavisa, one resource manager each
    Resources,   \* resource strings an application may pass to viOpen
    KindOf,      \* the finder whose pattern a resource matches, or "none"
    Tickets,     \* bound: lifetimes that may be unfinished at one time
    SessMod,     \* ids before sess_cnt wraps (65536 in IdGen::genSessionId)
    MaxStarts,   \* bound: how often the server process is started
    Timeouts,    \* TRUE: the 5 s handshake timer of websocketpp may expire
    AppCrashes   \* TRUE: an application may die, or restart

Kinds == {"usb", "tcp", "com", "none"}

ASSUME ConstantsAssumption ==
    /\ Apps # {} /\ Resources # {} /\ Tickets # {}
    /\ IsFiniteSet(Tickets)
    /\ KindOf \in [Resources -> Kinds]
    /\ SessMod \in Nat \ {0}
    /\ MaxStarts \in Nat \ {0}
    /\ Timeouts \in BOOLEAN /\ AppCrashes \in BOOLEAN

VARIABLES
    \* the server process
    up,        \* m_server.run() is running
    starts,    \* how often it has been started
    port,      \* visa_conns_ and the Port of each entry
    ref,       \* VisaConnction::ref_, 0 for a resource without connection
    \* the websocket requests of all calls
    reqs,
    \* each application
    pc,        \* where its thread is
    call,      \* the arguments of the call it is in
    conn,      \* the websocket of that call is still open
    warm,      \* an earlier websocket of the same WsClient is still open
    repo,      \* SessionManager::repo, entries with distinct ids
    lastId,    \* SessionManager::id_
    sessCnt,   \* IdGen::sess_cnt
    \* history
    leases,    \* the tickets counted by ref
    orphans,   \* tickets no application will ever disconnect any more
    clean,     \* this server has seen no disconnect of an earlier server's session
    age        \* viOpens answered since that of each id, counted to SessMod - 1

serverVars == <<up, starts, port, ref>>
appVars    == <<pc, call, conn, warm, repo, lastId, sessCnt>>
history    == <<leases, orphans, clean, age>>
vars       == <<serverVars, reqs, appVars, history>>

Ids     == 0 .. SessMod - 1
Garbage == SessMod            \* a value of id_ that is the id of no session

Session == [id: Ids, res: Resources, lease: Tickets, era: Nat]
Request == [app: Apps, kind: {"connect", "disconnect"}, res: Resources,
            lease: Tickets, era: Nat,
            stage: {"sent", "opened", "replied", "ignored", "served"}]
Call    == [res: Resources, lease: Tickets, id: Ids]
Ages    == [Ids -> 0 .. SessMod - 1]

NoCall == [res |-> CHOOSE r \in Resources : TRUE,
           lease |-> CHOOSE t \in Tickets : TRUE, id |-> 0]

\* The websocket of q is the one its application is waiting on.
Live(q) == conn[q.app] /\ call[q.app].lease = q.lease

\* The tickets that still name something.
InUse == (UNION {leases[r] : r \in Resources})
            \cup {q.lease : q \in reqs}
            \cup {s.lease : s \in (UNION {repo[a] : a \in Apps})}
            \cup {call[a].lease : a \in {b \in Apps : pc[b] \in {"opening", "closing"}}}

Free == Tickets \ InUse

-----------------------------------------------------------------------------
(* What Port::open() of each kind may do.  Its result is ignored by        *)
(* VisaService::connect: "failed" is a port that is not usable and is kept *)
(* like any other; "throws" is an exception nothing catches below          *)
(* VisaWsServer::start, which ends the server.                             *)
OpenOutcomes(kind) ==
    CASE kind = "usb"  -> {"open", "failed"}
      [] kind = "tcp"  -> {"open", "failed", "throws"}
      [] kind = "com"  -> {"open", "failed", "throws"}
      [] kind = "none" -> {}

Init ==
    /\ up = TRUE /\ starts = 1
    /\ port = [r \in Resources |-> "absent"]
    /\ ref = [r \in Resources |-> 0]
    /\ reqs = {}
    /\ pc = [a \in Apps |-> "noRM"]
    /\ call = [a \in Apps |-> NoCall]
    /\ conn = [a \in Apps |-> FALSE]
    /\ warm = [a \in Apps |-> FALSE]
    /\ repo = [a \in Apps |-> {}]
    /\ lastId = [a \in Apps |-> Garbage]
    /\ sessCnt = [a \in Apps |-> 0]
    /\ leases = [r \in Resources |-> {}]
    /\ orphans = {}
    /\ clean = TRUE
    /\ age = [a \in Apps |-> [i \in Ids |-> 0]]

-----------------------------------------------------------------------------
(* The application side.                                                   *)

\* viOpenDefaultRM / viOpenRM: a ResManager and its SessionManager, whose
\* id_ no constructor sets.
OpenRM(a) ==
    /\ pc[a] = "noRM"
    /\ pc' = [pc EXCEPT ![a] = "idle"]
    /\ \E i \in Ids \cup {Garbage} : lastId' = [lastId EXCEPT ![a] = i]
    /\ UNCHANGED <<serverVars, reqs, call, conn, warm, repo, sessCnt, history>>

\* The first half of SessionManager::connect and disconnect: a new websocket
\* on the route of the call.  It is refused when no server listens.
Send(a, kind, r, t, e) ==
    /\ conn' = [conn EXCEPT ![a] = up]
    /\ reqs' = IF up
               THEN reqs \cup {[app |-> a, kind |-> kind, res |-> r, lease |-> t,
                                era |-> e, stage |-> "sent"]}
               ELSE reqs

\* viOpen(rm, r, ...).
StartOpen(a, r) ==
    /\ pc[a] = "idle"
    /\ Free # {}
    /\ LET t == CHOOSE t \in Free : TRUE IN
       /\ call' = [call EXCEPT ![a] = [res |-> r, lease |-> t, id |-> 0]]
       /\ Send(a, "connect", r, t, starts)
       /\ orphans' = orphans \ {t}
    /\ pc' = [pc EXCEPT ![a] = "opening"]
    /\ UNCHANGED <<serverVars, warm, repo, lastId, sessCnt, leases, clean, age>>

\* Mutant: viClose only forgets the session on its own side.
StartClose_NoRequest(a, s) ==
    /\ pc[a] = "idle"
    /\ repo' = [repo EXCEPT ![a] = @ \ {s}]
    /\ UNCHANGED <<serverVars, reqs, pc, call, conn, warm, lastId, sessCnt, history>>

\* viClose(id) of an id in the repository; on any other id it returns at once.
StartClose(a, s) ==
    /\ pc[a] = "idle"
    /\ call' = [call EXCEPT ![a] = [res |-> s.res, lease |-> s.lease, id |-> s.id]]
    /\ Send(a, "disconnect", s.res, s.lease, s.era)
    /\ pc' = [pc EXCEPT ![a] = "closing"]
    /\ UNCHANGED <<serverVars, warm, repo, lastId, sessCnt, history>>

\* What disconnect does once run() has returned, whatever made it return.
Unregister(a) ==
    /\ repo' = [repo EXCEPT ![a] = {s \in @ : s.id # call[a].id}]
    /\ age' = [age EXCEPT ![a] = [i \in Ids |-> IF i = call[a].id THEN 0 ELSE age[a][i]]]

EndCall(a) ==
    /\ pc' = [pc EXCEPT ![a] = "idle"]
    /\ call' = [call EXCEPT ![a] = NoCall]
    /\ conn' = [conn EXCEPT ![a] = FALSE]

\* One more viOpen of a has been answered.
Older(a) ==
    LET Registered(i) == \E s \in repo[a] : s.id = i IN
    age' = [age EXCEPT ![a] =
               [i \in Ids |-> IF ~Registered(i) THEN 0
                              ELSE IF age[a][i] < SessMod - 1 THEN age[a][i] + 1 ELSE SessMod - 1]]

\* Mutant: a session is numbered by how many the repository has.
OnReply_NumbersBySize(a, q) ==
    LET id   == (Cardinality(repo[a]) + 1) % SessMod
        lost == \E s \in repo[a] : s.id = id
    IN
    /\ Live(q) /\ q.app = a /\ q.stage = "replied"
    /\ sessCnt' = [sessCnt EXCEPT ![a] = id]
    /\ lastId' = [lastId EXCEPT ![a] = id]
    /\ repo' = IF lost THEN repo
               ELSE [repo EXCEPT ![a] = @ \cup {[id |-> id, res |-> q.res,
                                                 lease |-> q.lease, era |-> starts]}]
    /\ orphans' = IF lost THEN orphans \cup {q.lease} ELSE orphans
    /\ Older(a)
    /\ EndCall(a)
    /\ warm' = [warm EXCEPT ![a] = TRUE]
    /\ reqs' = reqs \ {q}
    /\ UNCHANGED <<serverVars, leases, clean>>

\* on_message for the connect route: std::map::insert keeps an entry whose
\* id is already there, and the new session is lost.
OnReply(a, q) ==
    LET id   == (sessCnt[a] + 1) % SessMod
        lost == \E s \in repo[a] : s.id = id
    IN
    /\ Live(q) /\ q.app = a /\ q.stage = "replied"
    /\ sessCnt' = [sessCnt EXCEPT ![a] = id]
    /\ lastId' = [lastId EXCEPT ![a] = id]
    /\ repo' = IF lost THEN repo
               ELSE [repo EXCEPT ![a] = @ \cup {[id |-> id, res |-> q.res,
                                                 lease |-> q.lease, era |-> starts]}]
    /\ orphans' = IF lost THEN orphans \cup {q.lease} ELSE orphans
    /\ Older(a)
    /\ EndCall(a)
    /\ warm' = [warm EXCEPT ![a] = TRUE]
    /\ reqs' = reqs \ {q}
    /\ UNCHANGED <<serverVars, leases, clean>>

\* on_open for the disconnect route stops the client's loop: viClose returns
\* while the server may not have run its own handler yet.
OnDisconnectOpen(a, q) ==
    /\ Live(q) /\ q.app = a /\ q.kind = "disconnect"
    /\ q.stage \in {"opened", "served"}
    /\ Unregister(a)
    /\ EndCall(a)
    /\ warm' = [warm EXCEPT ![a] = TRUE]
    /\ reqs' = IF q.stage = "served" THEN reqs \ {q} ELSE reqs
    /\ UNCHANGED <<serverVars, lastId, sessCnt, leases, orphans, clean>>

\* The websocket of the call is given up by a timer of the client (GiveUp of
\* WsCall), or closed by the server before its answer was out; on_fail and
\* on_close do nothing.  What the server has still to do stays where it is.
Timeout(a) ==
    /\ Timeouts
    /\ \E q \in reqs :
         /\ Live(q) /\ q.app = a
         /\ reqs' = IF q.stage \in {"sent", "opened"} THEN reqs ELSE reqs \ {q}
    /\ conn' = [conn EXCEPT ![a] = FALSE]
    /\ orphans' = orphans \cup {call[a].lease}
    /\ UNCHANGED <<serverVars, pc, call, warm, repo, lastId, sessCnt, leases, clean, age>>

\* run() has no work left: neither the websocket of the call nor an earlier
\* one is open.  connect() returns id_ as it stands; disconnect() unregisters.
RunReturns(a) ==
    /\ pc[a] \in {"opening", "closing"}
    /\ ~conn[a] /\ ~warm[a]
    /\ IF pc[a] = "closing" THEN Unregister(a) ELSE UNCHANGED <<repo, age>>
    /\ EndCall(a)
    /\ UNCHANGED <<serverVars, reqs, warm, lastId, sessCnt, leases, orphans, clean>>

\* The sessions of a are forgotten without a disconnect.
Forget(a) ==
    /\ pc' = [pc EXCEPT ![a] = "noRM"]
    /\ call' = [call EXCEPT ![a] = NoCall]
    /\ conn' = [conn EXCEPT ![a] = FALSE]
    /\ warm' = [warm EXCEPT ![a] = FALSE]
    /\ repo' = [repo EXCEPT ![a] = {}]
    /\ lastId' = [lastId EXCEPT ![a] = Garbage]
    /\ orphans' = orphans \cup {s.lease : s \in repo[a]}
                    \cup {q.lease : q \in {p \in reqs : p.app = a /\ p.kind = "connect"}}
    /\ age' = [age EXCEPT ![a] = [i \in Ids |-> 0]]

\* viClose(rm): the ResManager, its SessionManager and every Session of it are
\* destroyed, with their websockets.
CloseRM(a) ==
    /\ pc[a] = "idle"
    /\ Forget(a)
    /\ UNCHANGED <<serverVars, reqs, sessCnt, leases, clean>>

\* The process dies at any point; putResManager, which goes on iterating from
\* the entry it has just erased, is one of the ways.
CrashApp(a) ==
    /\ AppCrashes
    /\ pc[a] # "noRM"
    /\ Forget(a)
    /\ sessCnt' = [sessCnt EXCEPT ![a] = 0]
    /\ UNCHANGED <<serverVars, reqs, leases, clean>>

-----------------------------------------------------------------------------
(* The server side.                                                        *)

\* The process is gone, by an exception out of run() or by undefined
\* behaviour, and with it every socket.  (A reply that was on its way counts
\* as received before this step or as lost: only its receiver can tell.)
ServerGone ==
    /\ up' = FALSE
    /\ port' = [r \in Resources |-> "absent"]
    /\ ref' = [r \in Resources |-> 0]
    /\ reqs' = {}
    /\ conn' = [a \in Apps |-> FALSE]
    /\ warm' = [a \in Apps |-> FALSE]
    /\ leases' = [r \in Resources |-> {}]
    /\ orphans' = {}
    /\ UNCHANGED <<starts, pc, call, repo, lastId, sessCnt, clean, age>>

\* Nothing saves or restores anything when the process is stopped.
ServerKilled == up /\ ServerGone

ServerStart ==
    /\ ~up
    /\ starts < MaxStarts
    /\ up' = TRUE
    /\ starts' = starts + 1
    /\ clean' = TRUE
    /\ UNCHANGED <<port, ref, reqs, appVars, leases, orphans, age>>

\* The handshake is answered (101); the server's on_open is a later event.
Accept(q) ==
    /\ up /\ q.stage = "sent"
    /\ reqs' = (reqs \ {q}) \cup {[q EXCEPT !.stage = "opened"]}
    /\ UNCHANGED <<serverVars, appVars, history>>

\* The peer of q is gone before the handshake: q is never opened.
DropAbandoned(q) ==
    /\ up /\ q.stage = "sent" /\ ~Live(q)
    /\ reqs' = reqs \ {q}
    /\ orphans' = IF q.kind = "connect" THEN orphans \ {q.lease} ELSE orphans
    /\ UNCHANGED <<serverVars, appVars, leases, clean, age>>

\* The fate of a request the server is done with: an answer for whoever still waits for it.
Answer(q, stage) ==
    reqs' = (reqs \ {q}) \cup (IF Live(q) THEN {[q EXCEPT !.stage = stage]} ELSE {})

\* The server's own handshake timer expires (End of WsCall): its on_open never
\* runs.  A viClose whose client has the answer (101) returns all the same.
ServerTimeout(q) ==
    /\ Timeouts /\ up
    /\ q.stage \in {"sent", "opened"}
    /\ IF q.kind = "disconnect" /\ q.stage = "opened"
       THEN Answer(q, "served") /\ UNCHANGED conn
       ELSE /\ reqs' = reqs \ {q}
            /\ conn' = IF Live(q) THEN [conn EXCEPT ![q.app] = FALSE] ELSE conn
    /\ orphans' = IF q.kind = "connect" THEN orphans \ {q.lease} ELSE orphans \cup {q.lease}
    /\ UNCHANGED <<serverVars, pc, call, warm, repo, lastId, sessCnt, leases, clean, age>>

\* Mutant: a second viOpen of a resource does not count.
Share_NoRefMe(q) ==
    /\ port[q.res] # "absent"
    /\ leases' = [leases EXCEPT ![q.res] = @ \cup {q.lease}]
    /\ Answer(q, "replied")
    /\ UNCHANGED <<serverVars, appVars, orphans, clean, age>>

\* Mutant: a second viOpen of a resource counts but is not answered.
Share_NoReply(q) ==
    /\ port[q.res] # "absent"
    /\ ref' = [ref EXCEPT ![q.res] = @ + 1]
    /\ leases' = [leases EXCEPT ![q.res] = @ \cup {q.lease}]
    /\ Answer(q, "ignored")
    /\ UNCHANGED <<up, starts, port, appVars, orphans, clean, age>>

\* The connection of r exists: VisaConnction::refMe() and the reply.
Share(q) ==
    /\ port[q.res] # "absent"
    /\ ref' = [ref EXCEPT ![q.res] = @ + 1]
    /\ leases' = [leases EXCEPT ![q.res] = @ \cup {q.lease}]
    /\ Answer(q, "replied")
    /\ UNCHANGED <<up, starts, port, appVars, orphans, clean, age>>

\* It does not exist and a finder matches: VisaService::connect.
Establish(q) ==
    /\ port[q.res] = "absent"
    /\ \E o \in OpenOutcomes(KindOf[q.res]) \ {"throws"} :
          port' = [port EXCEPT ![q.res] = o]
    /\ ref' = [ref EXCEPT ![q.res] = 1]
    /\ leases' = [leases EXCEPT ![q.res] = @ \cup {q.lease}]
    /\ Answer(q, "replied")
    /\ UNCHANGED <<up, starts, appVars, orphans, clean, age>>

OpenThrows(q) ==
    /\ port[q.res] = "absent"
    /\ "throws" \in OpenOutcomes(KindOf[q.res])
    /\ ServerGone

\* No finder matches: on_open sends nothing and the client waits on.
NoFinder(q) ==
    /\ port[q.res] = "absent"
    /\ KindOf[q.res] = "none"
    /\ Answer(q, "ignored")
    /\ UNCHANGED <<serverVars, appVars, history>>

ServerOnConnect(q) ==
    /\ up /\ q.kind = "connect" /\ q.stage = "opened"
    /\ Share(q) \/ Establish(q) \/ OpenThrows(q) \/ NoFinder(q)

\* Mutant: any disconnect closes the port.
Deref_AlwaysCloses(r) ==
    /\ ref' = [ref EXCEPT ![r] = @ - 1]
    /\ port' = [port EXCEPT ![r] = "absent"]

\* VisaConnction::close(): the last reference closes the port.
Deref(r) ==
    /\ ref' = [ref EXCEPT ![r] = @ - 1]
    /\ port' = [port EXCEPT ![r] = IF ref[r] = 1 THEN "absent" ELSE @]

\* Mutant: a resource without a connection is dereferenced all the same.
Release_Unchecked(q) ==
    /\ Deref(q.res)
    /\ leases' = [leases EXCEPT ![q.res] = @ \ {q.lease}]
    /\ Answer(q, "served")
    /\ UNCHANGED <<up, starts, appVars, orphans, clean, age>>

\* Mutant: a disconnect that is not the last one is skipped.
Release_OnlyLast(q) ==
    /\ port[q.res] # "absent"
    /\ IF ref[q.res] = 1
       THEN Deref(q.res) /\ leases' = [leases EXCEPT ![q.res] = {}]
       ELSE UNCHANGED <<port, ref, leases>>
    /\ Answer(q, "served")
    /\ UNCHANGED <<up, starts, appVars, orphans, clean, age>>

\* One reference of the connection of q.res, whoever holds it, is dropped; no
\* grant outlives the connection.
Release(q) ==
    /\ port[q.res] # "absent"
    /\ Deref(q.res)
    /\ leases' = [leases EXCEPT ![q.res] = IF ref[q.res] = 1 THEN {} ELSE @ \ {q.lease}]
    /\ clean' = (clean /\ q.era = starts)
    /\ orphans' = orphans \ {q.lease}
    /\ Answer(q, "served")
    /\ UNCHANGED <<up, starts, appVars, age>>

\* visa_conns_.erase(i) inside the range-for over visa_conns_: the loop then
\* steps from a freed node.  It may go on (Release) or end the process.
EraseCrash(q) ==
    /\ port[q.res] # "absent"
    /\ ref[q.res] = 1
    /\ ServerGone

NotConnected(q) ==
    /\ port[q.res] = "absent"
    /\ Answer(q, "served")
    /\ UNCHANGED <<serverVars, appVars, history>>

ServerOnDisconnect(q) ==
    /\ up /\ q.kind = "disconnect" /\ q.stage = "opened"
    /\ Release(q) \/ EraseCrash(q) \/ NotConnected(q)

-----------------------------------------------------------------------------
AppStep(a) ==
    \/ OpenRM(a)
    \/ \E r \in Resources : StartOpen(a, r)
    \/ \E s \in repo[a] : StartClose(a, s)
    \/ \E q \in reqs : OnReply(a, q)
    \/ \E q \in reqs : OnDisconnectOpen(a, q)
    \/ Timeout(a)
    \/ RunReturns(a)
    \/ CloseRM(a)
    \/ CrashApp(a)

ServerStep ==
    \/ ServerKilled
    \/ ServerStart
    \/ \E q \in reqs : Accept(q)
    \/ \E q \in reqs : DropAbandoned(q)
    \/ \E q \in reqs : ServerTimeout(q)
    \/ \E q \in reqs : ServerOnConnect(q)
    \/ \E q \in reqs : ServerOnDisconnect(q)

Next == ServerStep \/ \E a \in Apps : AppStep(a)

Spec == Init /\ [][Next]_vars

\* The event loops: the server runs every ready handler, and a client that is
\* inside run() takes the event it waits for.  Applications need not call, the
\* server need not be started again, and a timer need not expire.
Handle(t) ==
    \E q \in reqs : q.lease = t /\ (Accept(q) \/ ServerOnConnect(q) \/ ServerOnDisconnect(q))

ClientEvent(a) ==
    \/ \E q \in reqs : OnReply(a, q) \/ OnDisconnectOpen(a, q)
    \/ RunReturns(a)

Fairness ==
    /\ \A t \in Tickets : WF_vars(Handle(t))
    /\ \A a \in Apps : WF_vars(ClientEvent(a))

FairSpec == Spec /\ Fairness

-----------------------------------------------------------------------------
(* Properties.                                                             *)

TypeOK ==
    /\ up \in BOOLEAN
    /\ starts \in Nat
    /\ port \in [Resources -> {"absent", "open", "failed"}]
    /\ ref \in [Resources -> Nat]
    /\ reqs \subseteq Request
    /\ pc \in [Apps -> {"noRM", "idle", "opening", "closing"}]
    /\ call \in [Apps -> Call]
    /\ conn \in [Apps -> BOOLEAN]
    /\ warm \in [Apps -> BOOLEAN]
    /\ repo \in [Apps -> SUBSET Session]
    /\ lastId \in [Apps -> Ids \cup {Garbage}]
    /\ sessCnt \in [Apps -> Ids]
    /\ leases \in [Resources -> SUBSET Tickets]
    /\ orphans \subseteq Tickets
    /\ clean \in BOOLEAN
    /\ age \in [Apps -> Ages]

\* The session s of a is usable: opened on the running server and not the
\* one a viClose of a is closing.
Usable(a, s) ==
    /\ up /\ s.era = starts
    /\ ~(pc[a] = "closing" /\ call[a].lease = s.lease)

(* While no session of an earlier server has been disconnected on this     *)
(* one, ref_ of a connection is the number of viOpens the server has       *)
(* granted on it and not yet taken back (VisaConnction::refMe, close).     *)
RefCounts ==
    clean => \A r \in Resources : ref[r] = Cardinality(leases[r])

(* While no session of an earlier server has been disconnected on this     *)
(* one, a session that was opened on it and is not being closed still has  *)
(* its connection in visa_conns_: no viClose of another application, no    *)
(* duplicate or late disconnect, no timed out call closes the instrument   *)
(* under it.  (A disconnect of an earlier server's session may: that is    *)
(* what clean leaves out.)                                                 *)
SessionsConnected ==
    clean => \A a \in Apps : \A s \in repo[a] :
        Usable(a, s) => port[s.res] # "absent"

(* A grant is held by a session, is on its way to or from an application,  *)
(* or was given up in one of the ways Timeout, ServerTimeout, Forget and   *)
(* OnReply name: nothing else leaks a connection of the server.            *)
NothingElseLeaks ==
    \A r \in Resources : \A t \in leases[r] :
        \/ t \in orphans
        \/ \E a \in Apps : \E s \in repo[a] : s.res = r /\ s.lease = t
        \/ \E q \in reqs : q.res = r /\ q.lease = t

(* What the users of a resource may rely on (PortLease): the server lends  *)
(* a port to those it has granted a viOpen; a session holds it while it is *)
(* usable.  Servers that are down or unclean promise nothing.              *)
Promises == up /\ clean

Users == IF Promises THEN leases ELSE [r \in Resources |-> {}]

Held == [r \in Resources |->
            IF Promises
            THEN UNION {{s.lease : s \in {x \in repo[a] : x.res = r /\ Usable(a, x)}} : a \in Apps}
            ELSE {}]

PortsOn == {r \in Resources : Promises /\ port[r] # "absent"}

Lease == INSTANCE PortLease
            WITH valid <- Promises, users <- Users, held <- Held, open <- PortsOn

(* The protocol implements that contract: every step of viOpen, viClose,   *)
(* their handlers, time-outs, crashes and restarts is one of lending,      *)
(* telling, letting go, taking back or ending, or none of these.           *)
ImplementsLease == Lease!Spec

(* viOpen answers VI_SUCCESS with an id whose session is on the resource   *)
(* that was asked for (main.c goes on to viWrite whenever viOpen returns   *)
(* VI_SUCCESS, and OpenSession returns nothing else).                      *)
OpenDenotes ==
    [][\A a \in Apps : pc[a] = "opening" /\ pc'[a] = "idle" =>
          \E s \in repo'[a] : s.id = lastId'[a] /\ s.res = call[a].res]_vars

(* An answered viOpen returns the id of its own session, on the resource   *)
(* it asked for, except when the ids have gone round: then the id is that  *)
(* of an older session which has stayed open while every other id was      *)
(* handed out, and the new session is lost (std::map::insert).  No close,  *)
(* reopening, time-out or crash in between makes two sessions meet in one  *)
(* id any sooner.                                                          *)
AnsweredOpenDenotes ==
    [][\A a \in Apps :
          pc[a] = "opening" /\ pc'[a] = "idle" /\ conn[a] =>
             \/ \E s \in repo'[a] :
                   s.id = lastId'[a] /\ s.lease = call[a].lease /\ s.res = call[a].res
             \/ \E s \in repo[a] : s.id = lastId'[a] /\ age[a][s.id] >= SessMod - 1]_vars

(* The reference a viClose gives back is taken back: once the handshake of *)
(* a disconnect is over, the server stops counting its grant.              *)
ClosedIsReleased ==
    \A t \in Tickets :
        (\E q \in reqs : q.lease = t /\ q.kind = "disconnect" /\ q.stage = "opened")
            ~> (\A r \in Resources : t \notin leases[r])

(* viOpen of a resource some finder knows, and viClose, return, whatever   *)
(* the server does, when no handshake times out.                           *)
CallsReturn ==
    \A a \in Apps :
        (pc[a] = "closing" \/ (pc[a] = "opening" /\ KindOf[call[a].res] # "none"))
            ~> pc[a] \in {"idle", "noRM"}
=============================================================================
