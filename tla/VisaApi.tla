------------------------------- MODULE VisaApi -------------------------------
(* The ids the library hands out, in one process with several threads:     *)
(* resource managers (viOpenDefaultRM, viOpenRM), which are shared by url,  *)
(* and sessions (viOpen), both kept in maps by id and found again from the  *)
(* id alone.                                                                *)
(*                                                                         *)
(* IdGen counts, compares and reads its counters in atomic steps of their   *)
(* own, and getResManager searches its map, asks for a number and inserts   *)
(* without a lock, so the steps of several threads mix.  Two threads in one *)
(* std::map at the same moment are a data race: one search, one insert and  *)
(* one erase of the map are a step each, and what a torn map would do is    *)
(* left out.  The calls on one manager, which has one event loop, do not    *)
(* overlap.                                                                 *)
(*                                                                         *)
(* Every viOpen here is answered by the server; VisaSessions is about those *)
(* that are not.                                                            *)
(***************************************************************************)
EXTENDS Naturals, FiniteSets

CONSTANTS
    Threads,
    Urls,      \* the servers an application may use
    NoUrl,
    ManLimit,  \* the last number of a resource manager: 255
    CntLimit,  \* the last number of a session: 65535
    Ahead,     \* bound: threads that have counted past ManLimit and not reset
    MaxRMs,    \* bound: viOpenRMs of a thread
    MaxOpens   \* bound: viOpens of a thread

ASSUME ApiAssumption ==
    /\ NoUrl \notin Urls
    /\ ManLimit \in Nat /\ ManLimit % 2 = 1
    /\ CntLimit \in Nat
    /\ Ahead \in Nat
    /\ MaxRMs \in Nat
    /\ MaxOpens \in Nat

VARIABLES
    alive,      \* the process has not been ended by undefined behaviour
    resmanCnt,  \* IdGen::resman_cnt
    sessCnt,    \* IdGen::sess_cnt
    urlOf,      \* ResManagerMaker::repo: the url of the manager with a number
    sessions,   \* the repo of that manager's SessionManager
    making,     \* the getResManager a thread is in, after its search
    rm,         \* the manager and url a thread opened
    call,       \* the viOpen a thread is in
    rms,        \* how many viOpenRMs a thread has made
    opens,      \* how many viOpens a thread has made
    handles,    \* history: all ids viOpen gave a thread, and whether they count
    drawn,      \* history: the numbers genResManId has given, up to one given twice
    raced,      \* history: the managers another was inserted before, after their search
    reused      \* history: a counter has passed its limit, or a number was given twice

vars == <<alive, resmanCnt, sessCnt, urlOf, sessions, making, rm, call, rms, opens, handles,
          drawn, raced, reused>>

\* A thread may read the number of another that has not reset it yet.
Managers == 0 .. ManLimit + Ahead
Id       == [man: 0 .. ManLimit, cnt: 0 .. CntLimit]

\* A Session object is named by the thread and the viOpen it was made for.
Entry  == [id: Id, by: Threads, no: 1 .. MaxOpens]
Handle == [id: Id, no: 0 .. MaxOpens, open: BOOLEAN]

Closed(h) == [id |-> h.id, no |-> h.no, open |-> FALSE]

Steps  == {"idle", "compare", "reset", "read"}
NoRM   == [man |-> 0, url |-> NoUrl]
NoCall == [step |-> "idle", man |-> 0, lost |-> FALSE]

MakeSteps == {"idle", "count", "compare", "reset", "read", "insert"}
Make      == [step: MakeSteps, url: Urls \cup {NoUrl}, man: Managers, overtaken: BOOLEAN]
NotMaking == [step |-> "idle", url |-> NoUrl, man |-> 0, overtaken |-> FALSE]

\* What a session variable holds before viOpen writes it.
Zero == [man |-> 0, cnt |-> 0]

Init ==
    /\ alive = TRUE
    /\ resmanCnt = 0 /\ sessCnt = 0
    /\ urlOf = [m \in Managers |-> NoUrl]
    /\ sessions = [m \in Managers |-> {}]
    /\ making = [t \in Threads |-> NotMaking]
    /\ rm = [t \in Threads |-> NoRM]
    /\ call = [t \in Threads |-> NoCall]
    /\ rms = [t \in Threads |-> 0]
    /\ opens = [t \in Threads |-> 0]
    /\ handles = [t \in Threads |-> {}]
    /\ drawn = {} /\ raced = {}
    /\ reused = FALSE

Calling(t) == call[t].step # "idle"
Making(t)  == making[t].step # "idle"
Idle(t)    == ~Calling(t) /\ ~Making(t)

\* No call is running on the event loop of the manager with number m.
Free(m) == \A t \in Threads : Calling(t) /\ ~call[t].lost => call[t].man # m

\* Mutants of SessionId.
SessionId_NoManager(man, cnt) == [man |-> 0, cnt |-> cnt % (CntLimit + 1)]
SessionId_NoCarry(man, cnt)   == [man |-> man % (ManLimit + 1), cnt |-> cnt]

\* genSessionId: eight bits of the manager's number are bits 16 to 23; a
\* counter above 65535 reaches the lowest of them.
SessionId(man, cnt) ==
    LET bits == man % (ManLimit + 1) IN
    [man |-> IF cnt > CntLimit /\ bits % 2 = 0 THEN bits + 1 ELSE bits,
     cnt |-> cnt % (CntLimit + 1)]

\* getSession: the manager from the id, then the id in its repo.
Lookup(id) ==
    IF urlOf[id.man] = NoUrl THEN {} ELSE {e \in sessions[id.man] : e.id = id}

-----------------------------------------------------------------------------
(* Resource managers.                                                      *)

\* getResManager(vi, url, status) found managers of the url; the search goes
\* through the map in the order of the numbers.
ShareRM(t, url) ==
    \E m \in Managers :
        /\ urlOf[m] = url /\ \A n \in Managers : urlOf[n] = url => m <= n
        /\ rm' = [rm EXCEPT ![t] = [man |-> m, url |-> url]]
        /\ UNCHANGED making

\* Mutant of StartMaking: the managers are not searched for the url.
StartMaking_Anew(t, url) ==
    /\ making' = [making EXCEPT ![t] = [NotMaking EXCEPT !.step = "count", !.url = url]]
    /\ UNCHANGED rm

\* It found none and is going to make one.
StartMaking(t, url) ==
    /\ \A m \in Managers : urlOf[m] # url
    /\ making' = [making EXCEPT ![t] = [NotMaking EXCEPT !.step = "count", !.url = url]]
    /\ UNCHANGED rm

OpenRM(t, url) ==
    /\ alive /\ Idle(t) /\ rm[t] = NoRM /\ rms[t] < MaxRMs
    /\ rms' = [rms EXCEPT ![t] = @ + 1]
    /\ ShareRM(t, url) \/ StartMaking(t, url)
    /\ UNCHANGED <<alive, resmanCnt, sessCnt, urlOf, sessions, call, opens, handles,
                   drawn, raced, reused>>

\* resman_cnt++
CountRM(t) ==
    /\ alive /\ making[t].step = "count"
    /\ resmanCnt < ManLimit + Ahead
    /\ resmanCnt' = resmanCnt + 1
    /\ making' = [making EXCEPT ![t].step = "compare"]
    /\ reused' = (reused \/ resmanCnt' > ManLimit)
    /\ UNCHANGED <<alive, sessCnt, urlOf, sessions, rm, call, rms, opens, handles, drawn, raced>>

\* if(resman_cnt > 255)
CompareRM(t) ==
    /\ alive /\ making[t].step = "compare"
    /\ making' = [making EXCEPT ![t].step = IF resmanCnt > ManLimit THEN "reset" ELSE "read"]
    /\ UNCHANGED <<alive, resmanCnt, sessCnt, urlOf, sessions, rm, call, rms, opens, handles,
                   drawn, raced, reused>>

\* resman_cnt = 0
ResetRM(t) ==
    /\ alive /\ making[t].step = "reset"
    /\ resmanCnt' = 0
    /\ making' = [making EXCEPT ![t].step = "read"]
    /\ UNCHANGED <<alive, sessCnt, urlOf, sessions, rm, call, rms, opens, handles,
                   drawn, raced, reused>>

\* return resman_cnt|ID_RESMAN
ReadRM(t) ==
    /\ alive /\ making[t].step = "read"
    /\ making' = [making EXCEPT ![t].step = "insert", ![t].man = resmanCnt]
    /\ reused' = (reused \/ resmanCnt \in drawn)
    /\ drawn' = IF reused' THEN {} ELSE drawn \cup {resmanCnt}
    /\ UNCHANGED <<alive, resmanCnt, sessCnt, urlOf, sessions, rm, call, rms, opens, handles, raced>>

\* repo.insert leaves the map alone when the number is taken; the caller gets
\* the number all the same.
InsertRM(t) ==
    LET m == making[t].man
        new == urlOf[m] = NoUrl IN
    /\ alive /\ making[t].step = "insert"
    /\ urlOf' = IF new THEN [urlOf EXCEPT ![m] = making[t].url] ELSE urlOf
    /\ rm' = [rm EXCEPT ![t] = [man |-> m, url |-> making[t].url]]
    /\ raced' = IF new THEN {n \in raced : n # m} \cup (IF making[t].overtaken THEN {m} ELSE {})
                       ELSE raced
    /\ making' = [u \in Threads |-> IF u = t THEN NotMaking
                                    ELSE [making[u] EXCEPT !.overtaken = @ \/ Making(u)]]
    /\ UNCHANGED <<alive, resmanCnt, sessCnt, sessions, call, rms, opens, handles, drawn, reused>>

\* viClose of a manager, by anyone who has its id: the manager and the
\* sessions in it are gone.  A viOpen under way keeps it alive until it returns.
CloseRM(t) ==
    LET m == rm[t].man IN
    /\ alive /\ Idle(t) /\ rm[t] # NoRM
    /\ urlOf' = [urlOf EXCEPT ![m] = NoUrl]
    /\ sessions' = [sessions EXCEPT ![m] = {}]
    /\ call' = [u \in Threads |-> IF Calling(u) /\ call[u].man = m
                                  THEN [call[u] EXCEPT !.lost = TRUE] ELSE call[u]]
    /\ handles' = [u \in Threads |->
                     {IF h.id.man = m THEN Closed(h) ELSE h : h \in handles[u]}]
    /\ rm' = [rm EXCEPT ![t] = NoRM]
    \* the range-for goes on from the erased node
    /\ alive' = TRUE \/ (urlOf[m] # NoUrl /\ alive' = FALSE)
    /\ UNCHANGED <<resmanCnt, sessCnt, making, rms, opens, drawn, raced, reused>>

-----------------------------------------------------------------------------
(* Sessions.                                                               *)

\* viOpen up to the answer of the server, and sess_cnt++.
StartOpen(t) ==
    /\ alive /\ Idle(t) /\ opens[t] < MaxOpens
    /\ rm[t] # NoRM /\ urlOf[rm[t].man] # NoUrl /\ Free(rm[t].man)
    /\ call' = [call EXCEPT ![t] = [step |-> "compare", man |-> rm[t].man, lost |-> FALSE]]
    /\ opens' = [opens EXCEPT ![t] = @ + 1]
    /\ sessCnt' = sessCnt + 1
    /\ reused' = (reused \/ sessCnt + 1 > CntLimit)
    /\ UNCHANGED <<alive, resmanCnt, urlOf, sessions, making, rm, rms, handles, drawn,
                   raced>>

\* if(sess_cnt > 65535)
Compare(t) ==
    /\ alive /\ call[t].step = "compare"
    /\ call' = [call EXCEPT ![t].step = IF sessCnt > CntLimit THEN "reset" ELSE "read"]
    /\ UNCHANGED <<alive, resmanCnt, sessCnt, urlOf, sessions, making, rm, rms, opens,
                   handles, drawn, raced, reused>>

\* sess_cnt = 0
Reset(t) ==
    /\ alive /\ call[t].step = "reset"
    /\ call' = [call EXCEPT ![t].step = "read"]
    /\ sessCnt' = 0
    /\ UNCHANGED <<alive, resmanCnt, urlOf, sessions, making, rm, rms, opens, handles,
                   drawn, raced, reused>>

\* return sess_cnt|..., and registerSession, which keeps an entry that is there.
Register(t) ==
    LET c  == call[t]
        id == SessionId(c.man, sessCnt) IN
    /\ alive /\ c.step = "read"
    /\ sessions' = IF c.lost \/ \E e \in sessions[c.man] : e.id = id
                   THEN sessions
                   ELSE [sessions EXCEPT ![c.man] = @ \cup {[id |-> id, by |-> t, no |-> opens[t]]}]
    /\ handles' = [handles EXCEPT ![t] =
                     @ \cup {[id |-> id, no |-> opens[t], open |-> ~c.lost]}]
    /\ call' = [call EXCEPT ![t] = NoCall]
    /\ UNCHANGED <<alive, resmanCnt, sessCnt, urlOf, making, rm, rms, opens, drawn,
                   raced, reused>>

\* viOpen on a manager somebody has closed returns an uninitialised status.
\* When that is VI_SUCCESS, the thread takes its variable for a session.
OpenOnClosed(t) ==
    /\ alive /\ Idle(t) /\ opens[t] < MaxOpens
    /\ rm[t] # NoRM /\ urlOf[rm[t].man] = NoUrl
    /\ opens' = [opens EXCEPT ![t] = @ + 1]
    /\ handles' = [handles EXCEPT ![t] = @ \cup {[id |-> Zero, no |-> 0, open |-> FALSE]}]
    /\ UNCHANGED <<alive, resmanCnt, sessCnt, urlOf, sessions, making, rm, call, rms,
                   drawn, raced, reused>>

\* viClose of any session id the thread was ever given, a second time too.
CloseSession(t, h) ==
    /\ alive /\ Idle(t) /\ h \in handles[t] /\ Free(h.id.man)
    /\ h.id # Zero  \* its class bits are zero: viClose does nothing
    /\ sessions' = [sessions EXCEPT ![h.id.man] = @ \ Lookup(h.id)]
    /\ handles' = [handles EXCEPT ![t] = (@ \ {h}) \cup {Closed(h)}]
    /\ UNCHANGED <<alive, resmanCnt, sessCnt, urlOf, making, rm, call, rms, opens,
                   drawn, raced, reused>>

Next ==
    \E t \in Threads :
        \/ \E url \in Urls : OpenRM(t, url)
        \/ CountRM(t)
        \/ CompareRM(t)
        \/ ResetRM(t)
        \/ ReadRM(t)
        \/ InsertRM(t)
        \/ CloseRM(t)
        \/ StartOpen(t)
        \/ Compare(t)
        \/ Reset(t)
        \/ Register(t)
        \/ OpenOnClosed(t)
        \/ \E h \in handles[t] : CloseSession(t, h)

Spec == Init /\ [][Next]_vars

-----------------------------------------------------------------------------
(* Properties.                                                             *)

TypeOK ==
    /\ alive \in BOOLEAN /\ reused \in BOOLEAN
    /\ drawn \subseteq Managers /\ raced \subseteq Managers
    /\ resmanCnt \in Managers
    /\ sessCnt \in Nat
    /\ urlOf \in [Managers -> Urls \cup {NoUrl}]
    /\ sessions \in [Managers -> SUBSET Entry]
    /\ making \in [Threads -> Make]
    /\ rm \in [Threads -> [man: Managers, url: Urls \cup {NoUrl}]]
    /\ call \in [Threads -> [step: Steps, man: Managers, lost: BOOLEAN]]
    /\ rms \in [Threads -> 0 .. MaxRMs]
    /\ opens \in [Threads -> 0 .. MaxOpens]
    /\ handles \in [Threads -> SUBSET Handle]

(* Until a counter has gone round or two threads in genResManId were given *)
(* one number, an id viOpen gave leads to the session that viOpen made, as *)
(* long as neither it nor its manager was closed, and to none afterwards   *)
(* (getSession, getResManIdFromSessionId).  Threads may read the same      *)
(* sess_cnt, managers come and go, ids are closed twice, and still no      *)
(* viRead, viWrite or viClose reaches the session of another.              *)
HandlesDenote ==
    ~reused => \A t \in Threads : \A h \in handles[t] :
        Lookup(h.id) = IF h.open THEN {[id |-> h.id, by |-> t, no |-> h.no]} ELSE {}

(* getResManager shares managers by url, without a lock: a url has two     *)
(* managers only if one of them was inserted by a call that another insert *)
(* overtook between its search and its own insert, and never because of    *)
(* calls that came after one another, also when the numbers have gone      *)
(* round.  Until a number is given twice, the one a thread holds is that   *)
(* of a manager of the url it asked for, or of none.                       *)
ManagersByUrl ==
    /\ \A m, n \in Managers :
          urlOf[m] = urlOf[n] /\ urlOf[m] # NoUrl /\ m # n => {m, n} \cap raced # {}
    /\ ~reused => \A t \in Threads :
          rm[t] # NoRM => urlOf[rm[t].man] \in {rm[t].url, NoUrl}

=============================================================================
