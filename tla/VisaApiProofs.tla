---------------------------- MODULE VisaApiProofs ----------------------------
(* For any number of threads, urls and ids: TypeOK and ManagersByUrl, and   *)
(* HandlesDenote until a counter goes round or a number is given twice.     *)
EXTENDS VisaApi, TLAPS

\* What threads and the map hold are numbers genResManId has given.
Numbered ==
    /\ \A m \in drawn : 0 < m /\ m <= ManLimit
    /\ \A m \in Managers : urlOf[m] # NoUrl => m \in drawn
    /\ \A t \in Threads :
          /\ rm[t] # NoRM => rm[t].man \in drawn
          /\ Calling(t) => call[t].man \in drawn

\* A number is its thread's alone until the thread has inserted its manager.
Fresh(t) ==
    LET m == making[t].man IN
    /\ m \in drawn /\ urlOf[m] = NoUrl
    /\ \A u \in Threads :
          /\ rm[u] # NoRM => rm[u].man # m
          /\ Calling(u) => call[u].man # m
          /\ making[u].step = "insert" /\ making[u].man = m => u = t

NumbersFresh ==
    /\ resmanCnt <= ManLimit
    /\ \A t \in Threads :
          /\ making[t].step # "reset"
          /\ making[t].step \in {"compare", "read"} => 0 < resmanCnt
          /\ making[t].step = "insert" => Fresh(t)

\* One viOpen at a time runs on a number; its manager is there until lost.
CallsDistinct ==
    /\ \A t, u \in Threads :
          Calling(t) /\ Calling(u) /\ call[t].man = call[u].man => t = u
    /\ \A t \in Threads :
          Calling(t) => (call[t].lost <=> urlOf[call[t].man] = NoUrl)

\* The counter is beyond the ids given out, strictly so for the manager of
\* a viOpen that has counted and not read.
CounterAhead ==
    /\ sessCnt <= CntLimit
    /\ \A t \in Threads : call[t].step # "reset"
    /\ \A t \in Threads : \A h \in handles[t] : h.id.cnt <= sessCnt
    /\ \A t, u \in Threads : \A h \in handles[u] :
          Calling(t) /\ h.id.man = call[t].man => h.id.cnt < sessCnt

\* The entries of a repo are those of the open handles.
EntriesHeld ==
    \A m \in Managers : \A e \in sessions[m] :
        \E h \in handles[e.by] : h.id = e.id /\ h.no = e.no /\ h.open /\ e.id.man = m

\* An open handle has its entry, and its manager is there.
OpenRegistered ==
    \A t \in Threads : \A h \in handles[t] : h.open =>
        /\ urlOf[h.id.man] # NoUrl
        /\ [id |-> h.id, by |-> t, no |-> h.no] \in sessions[h.id.man]

\* No two threads have one id, and no thread has it for two sessions.
HandlesDistinct ==
    \A t, u \in Threads : \A h \in handles[t] : \A k \in handles[u] :
        h.id = k.id /\ h.id # Zero => t = u /\ h.no = k.no /\ h.open = k.open

\* The number a thread holds is of a manager of its url, or of none.
NumbersOfUrls == \A t \in Threads : rm[t] # NoRM => urlOf[rm[t].man] \in {rm[t].url, NoUrl}

Inductive ==
    /\ Numbered /\ NumbersFresh /\ CallsDistinct /\ CounterAhead
    /\ EntriesHeld /\ OpenRegistered /\ HandlesDistinct
    /\ NumbersOfUrls

\* These hold when the counters have gone round, too: what a call that was
\* not overtaken has searched has not got a manager of its url since.
SearchHolds ==
    \A t \in Threads : Making(t) =>
        /\ making[t].url \in Urls
        /\ ~making[t].overtaken => \A m \in Managers : urlOf[m] # making[t].url
TwinsRaced ==
    \A m, n \in Managers :
        urlOf[m] = urlOf[n] /\ urlOf[m] # NoUrl /\ m # n => {m, n} \cap raced # {}
CallsCounted == \A t \in Threads : Calling(t) => opens[t] > 0

IInv == TypeOK /\ SearchHolds /\ TwinsRaced /\ CallsCounted /\ (~reused => Inductive)

-----------------------------------------------------------------------------
(* Arithmetic of the ids.                                                  *)

\* A remainder is below the divisor, and a number below it is its own.
LEMMA Remainder ==
    ASSUME NEW x \in Nat, NEW n \in Nat
    PROVE  /\ x % (n + 1) \in 0 .. n
           /\ x <= n => x % (n + 1) = x
  OBVIOUS

\* The numbers in ids are numbers of managers.
LEMMA LowManagers == 0 \in Managers /\ 0 .. ManLimit \subseteq Managers
  BY ApiAssumption DEF Managers

\* genSessionId gives an id, and within the limits the plain pair.
LEMMA SessionIdType ==
    ASSUME NEW man \in Managers, NEW cnt \in Nat
    PROVE  /\ SessionId(man, cnt) \in Id
           /\ cnt <= CntLimit /\ man <= ManLimit => SessionId(man, cnt) = [man |-> man, cnt |-> cnt]
  <1> DEFINE bits == man % (ManLimit + 1)
  <1>1. cnt % (CntLimit + 1) \in 0 .. CntLimit /\ (cnt <= CntLimit => cnt % (CntLimit + 1) = cnt)
    BY Remainder, ApiAssumption
  <1>2. bits \in 0 .. ManLimit /\ (man <= ManLimit => bits = man)
    BY Remainder, ApiAssumption DEF Managers
  <1> HIDE DEF bits
  <1>3. bits % 2 = 0 => bits + 1 \in 0 .. ManLimit
    BY <1>2, ApiAssumption
  <1>4. SessionId(man, cnt) = [man |-> IF cnt > CntLimit /\ bits % 2 = 0 THEN bits + 1 ELSE bits,
                               cnt |-> cnt % (CntLimit + 1)]
    BY DEF SessionId, bits
  <1> QED  BY <1>1, <1>2, <1>3, <1>4, ApiAssumption DEF Id

-----------------------------------------------------------------------------
(* The initial states.                                                     *)

LEMMA InitInvariant == Init => IInv
  <1> SUFFICES ASSUME Init PROVE IInv  OBVIOUS
  <1>1. TypeOK
    <2>1. 0 \in Managers /\ 0 \in 0 .. MaxOpens /\ 0 \in 0 .. MaxRMs
      BY LowManagers, ApiAssumption
    <2>2. NoRM \in [man: Managers, url: Urls \cup {NoUrl}]
      BY <2>1 DEF NoRM
    <2>3. NoCall \in [step: Steps, man: Managers, lost: BOOLEAN]
      BY <2>1 DEF NoCall, Steps
    <2>4. NotMaking \in Make
      BY <2>1 DEF NotMaking, Make, MakeSteps
    <2> QED  BY <2>1, <2>2, <2>3, <2>4, ApiAssumption DEF Init, TypeOK
  <1>2. SearchHolds /\ TwinsRaced /\ CallsCounted
    BY DEF Init, SearchHolds, TwinsRaced, CallsCounted, Calling, Making, NoCall, NotMaking
  <1>3. Numbered /\ NumbersFresh /\ CallsDistinct /\ NumbersOfUrls
    BY ApiAssumption
    DEF Init, Numbered, NumbersFresh, CallsDistinct, NumbersOfUrls, Calling, NoCall, NotMaking
  <1>4. CounterAhead /\ EntriesHeld /\ OpenRegistered /\ HandlesDistinct
    BY ApiAssumption
    DEF Init, CounterAhead, EntriesHeld, OpenRegistered, HandlesDistinct, NoCall
  <1> QED  BY <1>1, <1>2, <1>3, <1>4 DEF IInv, Inductive

-----------------------------------------------------------------------------
(* What holds also after a counter has gone round.                         *)

\* The values of the state have their types after every step.
LEMMA TypeStep == TypeOK /\ CallsCounted /\ [Next]_vars => TypeOK'
  <1> SUFFICES ASSUME TypeOK, CallsCounted, [Next]_vars PROVE TypeOK'
    OBVIOUS
  <1>0. CASE UNCHANGED vars
    BY <1>0 DEF TypeOK, vars
  <1>1. ASSUME NEW t \in Threads, NEW url \in Urls, OpenRM(t, url) PROVE TypeOK'
    <2>1. rms' \in [Threads -> 0 .. MaxRMs]
      BY <1>1, ApiAssumption DEF OpenRM, TypeOK
    <2>2. UNCHANGED <<alive, resmanCnt, sessCnt, urlOf, sessions, call, opens, handles, drawn, raced, reused>>
      BY <1>1 DEF OpenRM
    <2>3. CASE ShareRM(t, url)
      BY <2>1, <2>2, <2>3 DEF ShareRM, TypeOK
    <2>4. CASE StartMaking(t, url)
      <3>1. [NotMaking EXCEPT !.step = "count", !.url = url] \in Make
        BY LowManagers DEF NotMaking, Make, MakeSteps
      <3> QED  BY <2>1, <2>2, <2>4, <3>1 DEF StartMaking, TypeOK
    <2> QED  BY <1>1, <2>3, <2>4 DEF OpenRM
  <1>14. ASSUME NEW t \in Threads, NEW step \in MakeSteps, making' = [making EXCEPT ![t].step = step]
         PROVE  making' \in [Threads -> Make]
    <2>1. \A u \in Threads : making[u] \in Make
      BY DEF TypeOK
    <2>2. [making[t] EXCEPT !.step = step] \in Make
      BY <2>1, <1>14 DEF Make
    <2> QED  BY <1>14, <2>1, <2>2 DEF TypeOK
  <1>9. ASSUME NEW t \in Threads, CountRM(t) PROVE TypeOK'
    <2>1. resmanCnt + 1 \in Managers
      BY <1>9, ApiAssumption DEF CountRM, TypeOK, Managers
    <2>2. making' \in [Threads -> Make]
      BY <1>9, <1>14 DEF CountRM, MakeSteps
    <2> QED  BY <1>9, <2>1, <2>2 DEF CountRM, TypeOK
  <1>10. ASSUME NEW t \in Threads, CompareRM(t) PROVE TypeOK'
    <2>1. making' \in [Threads -> Make]
      BY <1>10, <1>14 DEF CompareRM, MakeSteps
    <2> QED  BY <1>10, <2>1 DEF CompareRM, TypeOK
  <1>11. ASSUME NEW t \in Threads, ResetRM(t) PROVE TypeOK'
    <2>1. making' \in [Threads -> Make]
      BY <1>11, <1>14 DEF ResetRM, MakeSteps
    <2> QED  BY <1>11, <2>1, LowManagers DEF ResetRM, TypeOK
  <1>12. ASSUME NEW t \in Threads, ReadRM(t) PROVE TypeOK'
    <2>1. making' \in [Threads -> Make]
      <3>1. \A u \in Threads : making[u] \in Make
        BY DEF TypeOK
      <3>2. [making[t] EXCEPT !.step = "insert", !.man = resmanCnt] \in Make
        BY <3>1 DEF Make, MakeSteps, TypeOK
      <3>3. making' = [making EXCEPT ![t] = [making[t] EXCEPT !.step = "insert", !.man = resmanCnt]]
        BY <1>12 DEF ReadRM, TypeOK
      <3> QED  BY <3>1, <3>2, <3>3 DEF TypeOK
    <2>2. drawn' \subseteq Managers /\ reused' \in BOOLEAN
      BY <1>12 DEF ReadRM, TypeOK
    <2> QED  BY <1>12, <2>1, <2>2 DEF ReadRM, TypeOK
  <1>13. ASSUME NEW t \in Threads, InsertRM(t) PROVE TypeOK'
    <2> DEFINE m == making[t].man
               url == making[t].url
    <2>1. m \in Managers /\ url \in Urls \cup {NoUrl}
      BY DEF TypeOK, Make
    <2>2. urlOf' \in [Managers -> Urls \cup {NoUrl}]
      BY <1>13, <2>1 DEF InsertRM, TypeOK
    <2>3. rm' \in [Threads -> [man: Managers, url: Urls \cup {NoUrl}]]
      BY <1>13, <2>1 DEF InsertRM, TypeOK
    <2>4. raced' \subseteq Managers
      BY <1>13, <2>1 DEF InsertRM, TypeOK
    <2>5. making' \in [Threads -> Make]
      <3>1. NotMaking \in Make
        BY LowManagers DEF NotMaking, Make, MakeSteps
      <3>2. ASSUME NEW u \in Threads
            PROVE  [making[u] EXCEPT !.overtaken = @ \/ Making(u)] \in Make
        <4>1. making[u] \in Make /\ (making[u].overtaken \/ Making(u)) \in BOOLEAN
          BY DEF TypeOK, Make
        <4> QED  BY <4>1 DEF Make
      <3> QED  BY <1>13, <3>1, <3>2 DEF InsertRM
    <2> QED  BY <1>13, <2>2, <2>3, <2>4, <2>5 DEF InsertRM, TypeOK
  <1>2. ASSUME NEW t \in Threads, CloseRM(t) PROVE TypeOK'
    <2> DEFINE m == rm[t].man
    <2>1. m \in Managers
      BY DEF TypeOK
    <2>2. /\ urlOf' = [urlOf EXCEPT ![m] = NoUrl]
          /\ sessions' = [sessions EXCEPT ![m] = {}]
          /\ rm' = [rm EXCEPT ![t] = NoRM]
          /\ alive' \in BOOLEAN
          /\ UNCHANGED <<resmanCnt, sessCnt, making, rms, opens, drawn, raced, reused>>
      BY <1>2 DEF CloseRM
    <2>3. call' \in [Threads -> [step: Steps, man: Managers, lost: BOOLEAN]]
      <3>1. \A u \in Threads : call[u] \in [step: Steps, man: Managers, lost: BOOLEAN]
        BY DEF TypeOK
      <3>2. call' = [u \in Threads |-> IF Calling(u) /\ call[u].man = m
                                      THEN [call[u] EXCEPT !.lost = TRUE] ELSE call[u]]
        BY <1>2 DEF CloseRM
      <3> QED  BY <3>1, <3>2
    <2>4. handles' \in [Threads -> SUBSET Handle]
      <3>1. \A u \in Threads : \A h \in handles[u] :
               (IF h.id.man = m THEN Closed(h) ELSE h) \in Handle
        BY DEF TypeOK, Handle, Closed
      <3> QED  BY <1>2, <3>1 DEF CloseRM, TypeOK
    <2>5. NoRM \in [man: Managers, url: Urls \cup {NoUrl}]
      BY ApiAssumption DEF NoRM, Managers
    <2> QED  BY <2>1, <2>2, <2>3, <2>4, <2>5 DEF TypeOK
  <1>3. ASSUME NEW t \in Threads, StartOpen(t) PROVE TypeOK'
    BY <1>3, ApiAssumption DEF StartOpen, TypeOK, Steps
  <1>4. ASSUME NEW t \in Threads, Compare(t) PROVE TypeOK'
    BY <1>4 DEF Compare, TypeOK, Steps
  <1>5. ASSUME NEW t \in Threads, Reset(t) PROVE TypeOK'
    BY <1>5 DEF Reset, TypeOK, Steps
  <1>6. ASSUME NEW t \in Threads, Register(t) PROVE TypeOK'
    <2> DEFINE m == call[t].man
               id == SessionId(m, sessCnt)
               e == [id |-> id, by |-> t, no |-> opens[t]]
               h == [id |-> id, no |-> opens[t], open |-> ~call[t].lost]
    <2>1. m \in Managers /\ id \in Id /\ call[t].lost \in BOOLEAN
      BY SessionIdType DEF TypeOK
    <2>2. opens[t] \in 1 .. MaxOpens /\ opens[t] \in 0 .. MaxOpens
      <3>1. opens[t] > 0
        BY <1>6 DEF Register, CallsCounted, Calling
      <3>2. opens[t] \in 0 .. MaxOpens
        BY DEF TypeOK
      <3> QED  BY <3>1, <3>2, ApiAssumption
    <2>3. e \in Entry /\ h \in Handle
      <3> HIDE DEF id
      <3> QED  BY <2>1, <2>2 DEF Entry, Handle
    <2>4. /\ sessions' \in {sessions, [sessions EXCEPT ![m] = @ \cup {e}]}
          /\ handles' = [handles EXCEPT ![t] = @ \cup {h}]
          /\ call' = [call EXCEPT ![t] = NoCall]
          /\ UNCHANGED <<alive, resmanCnt, sessCnt, urlOf, making, rm, rms, opens, drawn, raced, reused>>
      BY <1>6 DEF Register
    <2>5. NoCall \in [step: Steps, man: Managers, lost: BOOLEAN]
      BY ApiAssumption DEF NoCall, Managers, Steps
    <2> HIDE DEF e, h, m
    <2> QED  BY <2>1, <2>3, <2>4, <2>5 DEF TypeOK
  <1>7. ASSUME NEW t \in Threads, OpenOnClosed(t) PROVE TypeOK'
    <2>1. [id |-> Zero, no |-> 0, open |-> FALSE] \in Handle
      BY ApiAssumption DEF Zero, Handle, Id
    <2>2. opens[t] + 1 \in 0 .. MaxOpens
      BY <1>7, ApiAssumption DEF OpenOnClosed, TypeOK
    <2> QED  BY <1>7, <2>1, <2>2 DEF OpenOnClosed, TypeOK
  <1>8. ASSUME NEW t \in Threads, NEW h \in handles[t], CloseSession(t, h) PROVE TypeOK'
    <2>1. h.id.man \in Managers /\ Closed(h) \in Handle
      BY LowManagers DEF TypeOK, Handle, Id, Closed
    <2> QED  BY <1>8, <2>1 DEF CloseSession, TypeOK
  <1> QED
    BY <1>0, <1>1, <1>2, <1>3, <1>4, <1>5, <1>6, <1>7, <1>8, <1>9, <1>10, <1>11, <1>12, <1>13 DEF Next

\* An insert overtakes every other call that has searched, and an erase
\* takes urls away.
LEMMA SearchHoldsStep == TypeOK /\ SearchHolds /\ [Next]_vars => SearchHolds'
  <1> SUFFICES ASSUME TypeOK, SearchHolds, [Next]_vars PROVE SearchHolds'
    OBVIOUS
  <1> USE DEF SearchHolds, Making
  <1>1. ASSUME NEW t \in Threads, NEW url \in Urls, StartMaking(t, url), UNCHANGED urlOf
        PROVE  SearchHolds'
    BY <1>1 DEF StartMaking, TypeOK, NotMaking
  <1>2. ASSUME NEW t \in Threads, CountRM(t) \/ CompareRM(t) \/ ResetRM(t) \/ ReadRM(t)
        PROVE  SearchHolds'
    <2>1. UNCHANGED urlOf
      BY <1>2 DEF CountRM, CompareRM, ResetRM, ReadRM
    <2>2. making[t].step # "idle"
      BY <1>2 DEF CountRM, CompareRM, ResetRM, ReadRM
    <2>3. \A u \in Threads :
             /\ making'[u].url = making[u].url /\ making'[u].overtaken = making[u].overtaken
             /\ u # t => making'[u].step = making[u].step
      BY <1>2 DEF CountRM, CompareRM, ResetRM, ReadRM, TypeOK, Make
    <2> QED  BY <2>1, <2>2, <2>3
  <1>3. ASSUME NEW t \in Threads, InsertRM(t) PROVE SearchHolds'
    <2>1. making' = [u \in Threads |-> IF u = t THEN NotMaking
                                       ELSE [making[u] EXCEPT !.overtaken = @ \/ Making(u)]]
      BY <1>3 DEF InsertRM
    <2>2. making'[t].step = "idle"
      BY <2>1 DEF NotMaking
    <2>3. \A u \in Threads \ {t} :
             /\ making'[u].step = making[u].step /\ making'[u].url = making[u].url
             /\ making[u].step # "idle" => making'[u].overtaken
      <3> SUFFICES ASSUME NEW u \in Threads, u # t
                   PROVE  /\ making'[u].step = making[u].step /\ making'[u].url = making[u].url
                          /\ making[u].step # "idle" => making'[u].overtaken
        OBVIOUS
      <3>1. making[u] \in Make
        BY DEF TypeOK
      <3>2. making'[u] = [making[u] EXCEPT !.overtaken = @ \/ Making(u)]
        BY <2>1
      <3>3. making'[u].step = making[u].step /\ making'[u].url = making[u].url
        BY <3>1, <3>2 DEF Make
      <3>4. making'[u].overtaken = (making[u].overtaken \/ Making(u))
        BY <3>1, <3>2 DEF Make
      <3> QED  BY <3>3, <3>4
    <2> QED  BY <2>2, <2>3
  <1>4. ASSUME NEW t \in Threads, CloseRM(t) PROVE SearchHolds'
    <2>1. UNCHANGED making /\ urlOf' = [urlOf EXCEPT ![rm[t].man] = NoUrl]
      BY <1>4 DEF CloseRM
    <2> QED  BY <2>1, ApiAssumption DEF TypeOK
  <1>5. CASE UNCHANGED <<urlOf, making>>
    BY <1>5
  <1> QED
    BY <1>1, <1>2, <1>3, <1>4, <1>5
    DEF Next, vars, OpenRM, ShareRM, StartOpen, Compare, Reset, Register, OpenOnClosed, CloseSession

\* A second manager of a url comes only from a call that was overtaken.
LEMMA TwinsRacedStep == TypeOK /\ SearchHolds /\ TwinsRaced /\ [Next]_vars => TwinsRaced'
  <1> SUFFICES ASSUME TypeOK, SearchHolds, TwinsRaced, [Next]_vars PROVE TwinsRaced'
    OBVIOUS
  <1>1. ASSUME NEW t \in Threads, InsertRM(t) PROVE TwinsRaced'
    <2> DEFINE m == making[t].man
               url == making[t].url
    <2>1. m \in Managers /\ Making(t)
      BY <1>1 DEF InsertRM, Making, TypeOK, Make
    <2>2. CASE urlOf[m] # NoUrl
      BY <1>1, <2>2 DEF InsertRM, TwinsRaced
    <2>3. CASE urlOf[m] = NoUrl
      <3>1. /\ urlOf' = [urlOf EXCEPT ![m] = url]
            /\ raced' = {n \in raced : n # m} \cup (IF making[t].overtaken THEN {m} ELSE {})
        BY <1>1, <2>3 DEF InsertRM
      <3>2. ASSUME NEW n \in Managers, n # m, urlOf[n] = url PROVE m \in raced'
        <4>1. making[t].overtaken
          BY <2>1, <3>2 DEF SearchHolds
        <4> QED  BY <3>1, <4>1
      <3>3. ASSUME NEW n \in Managers, NEW k \in Managers, n # m, k # m, n # k,
                   urlOf[n] = urlOf[k], urlOf[n] # NoUrl
            PROVE  {n, k} \cap raced' # {}
        BY <3>1, <3>3 DEF TwinsRaced
      <3> QED  BY <2>1, <3>1, <3>2, <3>3 DEF TwinsRaced, TypeOK
    <2> QED  BY <2>2, <2>3
  <1>2. ASSUME NEW t \in Threads, CloseRM(t) PROVE TwinsRaced'
    BY <1>2 DEF CloseRM, TwinsRaced, TypeOK
  <1>3. CASE UNCHANGED <<urlOf, raced>>
    BY <1>3 DEF TwinsRaced
  <1> QED
    BY <1>1, <1>2, <1>3
    DEF Next, vars, OpenRM, CountRM, CompareRM, ResetRM, ReadRM, StartOpen, Compare, Reset,
        Register, OpenOnClosed, CloseSession

\* A viOpen under way has been counted.
LEMMA CallsCountedStep == TypeOK /\ CallsCounted /\ [Next]_vars => CallsCounted'
  <1> SUFFICES ASSUME TypeOK, CallsCounted, [Next]_vars PROVE CallsCounted'
    OBVIOUS
  <1> USE DEF CallsCounted, Calling, TypeOK
  <1>1. ASSUME NEW t \in Threads, NEW url \in Urls, OpenRM(t, url) PROVE CallsCounted'
    BY <1>1 DEF OpenRM
  <1>9. ASSUME NEW t \in Threads, CountRM(t) \/ CompareRM(t) \/ ResetRM(t) \/ ReadRM(t) \/ InsertRM(t)
        PROVE  CallsCounted'
    BY <1>9 DEF CountRM, CompareRM, ResetRM, ReadRM, InsertRM
  <1>2. ASSUME NEW t \in Threads, CloseRM(t) PROVE CallsCounted'
    BY <1>2 DEF CloseRM
  <1>3. ASSUME NEW t \in Threads, StartOpen(t) PROVE CallsCounted'
    BY <1>3, ApiAssumption DEF StartOpen
  <1>4. ASSUME NEW t \in Threads, Compare(t) \/ Reset(t) PROVE CallsCounted'
    BY <1>4 DEF Compare, Reset
  <1>5. ASSUME NEW t \in Threads, Register(t) PROVE CallsCounted'
    BY <1>5 DEF Register, NoCall
  <1>6. ASSUME NEW t \in Threads, OpenOnClosed(t) PROVE CallsCounted'
    BY <1>6, ApiAssumption DEF OpenOnClosed
  <1>7. ASSUME NEW t \in Threads, NEW h \in handles[t], CloseSession(t, h) PROVE CallsCounted'
    BY <1>7 DEF CloseSession
  <1>8. CASE UNCHANGED vars
    BY <1>8 DEF vars
  <1> QED
    BY <1>1, <1>2, <1>3, <1>4, <1>5, <1>6, <1>7, <1>8, <1>9 DEF Next

-----------------------------------------------------------------------------
(* Until a number is given twice: one lemma for each action.               *)

\* A number taken from the map is shared; a search that finds none starts
\* a call that has no number yet.
LEMMA OpenRMStep ==
    ASSUME TypeOK, Inductive, NEW t \in Threads, NEW url \in Urls, OpenRM(t, url)
    PROVE  Inductive'
  <1>1. UNCHANGED <<resmanCnt, sessCnt, urlOf, sessions, call, handles, drawn>> /\ ~Making(t)
    BY DEF OpenRM, Idle
  <1>2. CallsDistinct' /\ CounterAhead'
    BY <1>1 DEF Inductive, CallsDistinct, CounterAhead, Calling
  <1>3. EntriesHeld' /\ OpenRegistered' /\ HandlesDistinct'
    BY <1>1 DEF Inductive, EntriesHeld, OpenRegistered, HandlesDistinct
  <1>4. CASE ShareRM(t, url)
    <2>1. PICK m \in Managers : urlOf[m] = url /\ rm' = [rm EXCEPT ![t] = [man |-> m, url |-> url]]
      BY <1>4 DEF ShareRM
    <2>2. UNCHANGED making
      BY <1>4 DEF ShareRM
    <2>3. urlOf[m] # NoUrl /\ m \in drawn
      BY <2>1, ApiAssumption DEF Inductive, Numbered
    <2>4. rm'[t].man = m /\ rm'[t].url = url /\ \A u \in Threads \ {t} : rm'[u] = rm[u]
      BY <2>1 DEF TypeOK
    <2>5. Numbered' /\ NumbersOfUrls'
      BY <1>1, <2>1, <2>3, <2>4 DEF Inductive, Numbered, NumbersOfUrls, Calling
    <2>6. NumbersFresh'
      <3>1. ASSUME NEW u \in Threads, making[u].step = "insert" PROVE Fresh(u)'
        <4>1. Fresh(u) /\ making[u].man # m
          BY <2>3, <3>1 DEF Inductive, NumbersFresh, Fresh
        <4> QED  BY <1>1, <2>2, <2>4, <4>1 DEF Fresh, Calling
      <3> QED  BY <1>1, <2>2, <3>1 DEF Inductive, NumbersFresh
    <2> QED  BY <1>2, <1>3, <2>5, <2>6 DEF Inductive
  <1>5. CASE StartMaking(t, url)
    <2>1. UNCHANGED rm
      BY <1>5 DEF StartMaking
    <2>2. making'[t].step = "count" /\ \A u \in Threads \ {t} : making'[u] = making[u]
      BY <1>5 DEF StartMaking, TypeOK, NotMaking
    <2>3. Numbered' /\ NumbersOfUrls'
      BY <1>1, <2>1 DEF Inductive, Numbered, NumbersOfUrls, Calling
    <2>4. NumbersFresh'
      <3>1. ASSUME NEW u \in Threads, making'[u].step = "insert" PROVE Fresh(u)'
        <4>1. u # t /\ making'[u] = making[u] /\ Fresh(u)
          BY <2>2, <3>1 DEF Inductive, NumbersFresh
        <4> QED  BY <1>1, <2>1, <2>2, <4>1 DEF Fresh, Calling
      <3> QED  BY <1>1, <2>2, <3>1 DEF Inductive, NumbersFresh
    <2> QED  BY <1>2, <1>3, <2>3, <2>4 DEF Inductive
  <1> QED  BY <1>4, <1>5 DEF OpenRM

\* Within its limit the counter is never reset, and a number nobody has read
\* before is nobody's.
LEMMA DrawStep ==
    ASSUME TypeOK, Inductive, NEW t \in Threads, ~reused',
           CountRM(t) \/ CompareRM(t) \/ ResetRM(t) \/ ReadRM(t)
    PROVE  Inductive'
  <1>1. UNCHANGED <<sessCnt, urlOf, sessions, rm, call, handles>>
    BY DEF CountRM, CompareRM, ResetRM, ReadRM
  <1>2. CallsDistinct' /\ CounterAhead'
    BY <1>1 DEF Inductive, CallsDistinct, CounterAhead, Calling
  <1>3. EntriesHeld' /\ OpenRegistered' /\ HandlesDistinct' /\ NumbersOfUrls'
    BY <1>1 DEF Inductive, EntriesHeld, OpenRegistered, HandlesDistinct, NumbersOfUrls
  <1>4. resmanCnt \in Nat /\ resmanCnt \in Managers
    BY ApiAssumption DEF TypeOK, Managers
  <1>5. CASE CountRM(t) \/ CompareRM(t)
    <2>1. UNCHANGED drawn
      BY <1>5 DEF CountRM, CompareRM
    <2>2. resmanCnt' \in Nat /\ resmanCnt <= resmanCnt' /\ resmanCnt' <= ManLimit
      <3>1. CASE CountRM(t)
        <4>1. resmanCnt' = resmanCnt + 1 /\ reused' = (reused \/ resmanCnt' > ManLimit)
          BY <3>1 DEF CountRM
        <4>2. ~(resmanCnt' > ManLimit)
          BY <4>1
        <4> QED  BY <1>4, <4>1, <4>2, ApiAssumption
      <3>2. CASE CompareRM(t)
        BY <1>4, <3>2, ApiAssumption DEF CompareRM, Inductive, NumbersFresh
      <3> QED  BY <1>5, <3>1, <3>2
    <2>3. making'[t].step \in {"compare", "read"} /\ 0 < resmanCnt'
      <3>1. CASE CountRM(t)
        BY <1>4, <3>1 DEF CountRM, TypeOK
      <3>2. CASE CompareRM(t)
        <4>1. 0 < resmanCnt /\ ~(resmanCnt > ManLimit)
          BY <1>4, <3>2, ApiAssumption DEF CompareRM, Inductive, NumbersFresh
        <4> QED  BY <3>2, <4>1 DEF CompareRM, TypeOK
      <3> QED  BY <1>5, <3>1, <3>2
    <2>4. \A u \in Threads \ {t} : making'[u] = making[u]
      BY <1>5 DEF CountRM, CompareRM, TypeOK
    <2>5. NumbersFresh'
      <3>1. ASSUME NEW u \in Threads, making'[u].step = "insert" PROVE Fresh(u)'
        <4>1. u # t /\ making'[u] = making[u] /\ Fresh(u)
          BY <2>3, <2>4, <3>1 DEF Inductive, NumbersFresh
        <4> QED  BY <1>1, <2>1, <2>3, <2>4, <4>1 DEF Fresh, Calling
      <3>2. ASSUME NEW u \in Threads
            PROVE  /\ making'[u].step # "reset"
                   /\ making'[u].step \in {"compare", "read"} => 0 < resmanCnt'
        BY <1>4, <2>2, <2>3, <2>4 DEF Inductive, NumbersFresh
      <3> QED  BY <2>2, <3>1, <3>2 DEF NumbersFresh
    <2>6. Numbered'
      BY <1>1, <2>1 DEF Inductive, Numbered, Calling
    <2> QED  BY <1>2, <1>3, <2>5, <2>6 DEF Inductive
  <1>6. ~ResetRM(t)
    BY DEF Inductive, NumbersFresh, ResetRM
  <1>7. CASE ReadRM(t)
    <2>1. /\ resmanCnt \notin drawn /\ 0 < resmanCnt /\ resmanCnt <= ManLimit
          /\ UNCHANGED resmanCnt
      BY <1>7 DEF ReadRM, Inductive, NumbersFresh
    <2>2. drawn' = drawn \cup {resmanCnt}
      BY <1>7 DEF ReadRM
    <2>3. making'[t].step = "insert" /\ making'[t].man = resmanCnt
          /\ \A u \in Threads \ {t} : making'[u] = making[u]
      BY <1>7 DEF ReadRM, TypeOK
    <2>4. Numbered'
      BY <1>1, <2>1, <2>2 DEF Inductive, Numbered, Calling
    <2>5. Fresh(t)'
      <3>1. urlOf[resmanCnt] = NoUrl
        BY <1>4, <2>1 DEF Inductive, Numbered
      <3>2. ASSUME NEW u \in Threads
            PROVE  /\ rm[u] # NoRM => rm[u].man # resmanCnt
                   /\ Calling(u) => call[u].man # resmanCnt
                   /\ making'[u].step = "insert" /\ making'[u].man = resmanCnt => u = t
        <4>1. u # t /\ making[u].step = "insert" => making[u].man \in drawn
          BY DEF Inductive, NumbersFresh, Fresh
        <4> QED  BY <2>1, <2>3, <4>1 DEF Inductive, Numbered
      <3> QED  BY <1>1, <2>2, <2>3, <3>1, <3>2 DEF Fresh, Calling
    <2>6. ASSUME NEW u \in Threads, u # t, making[u].step = "insert" PROVE Fresh(u)'
      <3>1. Fresh(u) /\ making[u].man # resmanCnt
        BY <2>1, <2>6 DEF Inductive, NumbersFresh, Fresh
      <3> QED  BY <1>1, <2>2, <2>3, <2>6, <3>1 DEF Fresh, Calling
    <2>7. NumbersFresh'
      BY <2>1, <2>3, <2>5, <2>6 DEF Inductive, NumbersFresh
    <2> QED  BY <1>2, <1>3, <2>4, <2>7 DEF Inductive
  <1> QED  BY <1>5, <1>6, <1>7

\* The number is fresh, so the insert is done and reaches nobody else.
LEMMA InsertRMStep ==
    ASSUME TypeOK, SearchHolds, Inductive, NEW t \in Threads, InsertRM(t)
    PROVE  Inductive'
  <1> DEFINE m == making[t].man
             url == making[t].url
  <1>1. m \in Managers /\ url \in Urls /\ url # NoUrl /\ Fresh(t) /\ making[t].step = "insert"
    BY ApiAssumption DEF InsertRM, SearchHolds, Making, Inductive, NumbersFresh, TypeOK, Make
  <1>2. /\ urlOf' = [urlOf EXCEPT ![m] = url]
        /\ rm' = [rm EXCEPT ![t] = [man |-> m, url |-> url]]
        /\ UNCHANGED <<resmanCnt, sessCnt, sessions, call, handles, drawn>>
    BY <1>1 DEF InsertRM, Fresh
  <1>3. urlOf[m] = NoUrl /\ m \in drawn
        /\ \A u \in Threads : /\ rm[u] # NoRM => rm[u].man # m
                              /\ Calling(u) => call[u].man # m
                              /\ u # t /\ making[u].step = "insert" => making[u].man # m
    BY <1>1 DEF Fresh
  <1>4. making'[t].step = "idle"
        /\ \A u \in Threads \ {t} : making'[u].step = making[u].step /\ making'[u].man = making[u].man
    BY DEF InsertRM, TypeOK, NotMaking, Make
  <1> HIDE DEF m, url
  <1>5. rm'[t].man = m /\ rm'[t].url = url /\ \A u \in Threads \ {t} : rm'[u] = rm[u]
    BY <1>2 DEF TypeOK
  <1>6. urlOf'[m] = url /\ \A n \in Managers \ {m} : urlOf'[n] = urlOf[n]
    BY <1>1, <1>2 DEF TypeOK
  <1>7. Numbered'
    BY <1>2, <1>3, <1>5, <1>6 DEF Inductive, Numbered, Calling
  <1>8. NumbersFresh'
    <2>1. ASSUME NEW u \in Threads, making'[u].step = "insert" PROVE Fresh(u)'
      <3>1. u # t /\ Fresh(u) /\ making'[u].man = making[u].man /\ making[u].man # m
        BY <1>3, <1>4, <2>1 DEF Inductive, NumbersFresh
      <3>2. making[u].man \in Managers
        BY DEF TypeOK, Make
      <3>3. \A v \in Threads : making'[v].step = "insert" => v # t
        BY <1>4
      <3> QED  BY <1>2, <1>4, <1>5, <1>6, <3>1, <3>2, <3>3 DEF Fresh, Calling
    <2> QED  BY <1>2, <1>4, <2>1 DEF Inductive, NumbersFresh
  <1>9. CallsDistinct'
    <2>1. \A u \in Threads : call[u].man \in Managers
      BY DEF TypeOK
    <2> QED  BY <1>2, <1>3, <1>6, <2>1 DEF Inductive, CallsDistinct, Calling
  <1>10. CounterAhead' /\ EntriesHeld' /\ HandlesDistinct'
    BY <1>2 DEF Inductive, CounterAhead, EntriesHeld, HandlesDistinct, Calling
  <1>11. OpenRegistered'
    <2>1. \A u \in Threads : \A h \in handles[u] : h.id.man \in Managers
      BY LowManagers DEF TypeOK, Handle, Id
    <2> QED  BY <1>1, <1>2, <1>6, <2>1 DEF Inductive, OpenRegistered
  <1>12. NumbersOfUrls'
    <2>1. \A u \in Threads : rm[u].man \in Managers
      BY DEF TypeOK
    <2> QED  BY <1>3, <1>5, <1>6, <2>1 DEF Inductive, NumbersOfUrls
  <1> QED  BY <1>7, <1>8, <1>9, <1>10, <1>11, <1>12 DEF Inductive

\* With a manager go its entries and the handles to them, and nothing else.
LEMMA CloseRMStep ==
    ASSUME TypeOK, Inductive, NEW t \in Threads, CloseRM(t)
    PROVE  Inductive'
  <1> DEFINE m == rm[t].man
             End(h) == IF h.id.man = m THEN Closed(h) ELSE h
  <1>1. m \in Managers
    BY DEF TypeOK
  <1>2. /\ urlOf' = [urlOf EXCEPT ![m] = NoUrl]
        /\ sessions' = [sessions EXCEPT ![m] = {}]
        /\ rm' = [rm EXCEPT ![t] = NoRM]
        /\ UNCHANGED <<resmanCnt, sessCnt, making, drawn>>
    BY DEF CloseRM
  <1>3. \A u \in Threads :
           /\ call'[u].step = call[u].step /\ call'[u].man = call[u].man
           /\ call'[u].lost = IF Calling(u) /\ call[u].man = m THEN TRUE ELSE call[u].lost
    BY DEF CloseRM, TypeOK
  <1>4. \A u \in Threads : (Calling(u))' = Calling(u)
    BY <1>3 DEF Calling
  <1>5. \A u \in Threads : handles'[u] = {End(h) : h \in handles[u]}
    BY DEF CloseRM
  <1>6. \A u \in Threads : \A h \in handles[u] :
           End(h).id = h.id /\ End(h).no = h.no /\ h.id.man \in Managers
    BY LowManagers DEF Closed, TypeOK, Handle, Id
  <1>7. \A u \in Threads : \A h \in handles[u] :
           End(h).open <=> h.open /\ h.id.man # m
    BY DEF Closed, TypeOK, Handle
  <1>8. \A u \in Threads : \A k \in handles'[u] : \E h \in handles[u] : k = End(h)
    BY <1>5
  <1>16. \A u \in Threads : \A k \in handles'[u] : \E h \in handles[u] :
           k.id = h.id /\ k.no = h.no
    BY <1>6, <1>8
  <1> HIDE DEF End, m
  <1>17. rm'[t] = NoRM /\ \A u \in Threads \ {t} : rm'[u] = rm[u]
    BY <1>2 DEF TypeOK
  <1>18. \A n \in Managers : urlOf'[n] = IF n = m THEN NoUrl ELSE urlOf[n]
    BY <1>1, <1>2 DEF TypeOK
  <1>9. Numbered'
    <2>1. \A n \in Managers : urlOf'[n] # NoUrl => n \in drawn
      BY <1>18 DEF Inductive, Numbered
    <2>2. \A u \in Threads : rm'[u] # NoRM => rm'[u].man \in drawn
      BY <1>17 DEF Inductive, Numbered
    <2>3. \A u \in Threads : (Calling(u))' => call'[u].man \in drawn
      BY <1>3, <1>4 DEF Inductive, Numbered
    <2> QED  BY <1>2, <2>1, <2>2, <2>3 DEF Inductive, Numbered
  <1>19. NumbersFresh'
    <2>1. ASSUME NEW u \in Threads, making[u].step = "insert" PROVE Fresh(u)'
      <3>1. Fresh(u) /\ making[u].man \in Managers
        BY <2>1 DEF Inductive, NumbersFresh, TypeOK, Make
      <3> QED  BY <1>2, <1>3, <1>4, <1>17, <1>18, <3>1 DEF Fresh
    <2> QED  BY <1>2, <2>1 DEF Inductive, NumbersFresh
  <1>10. CallsDistinct'
    <2>1. \A u \in Threads : call[u].man \in Managers
      BY DEF TypeOK
    <2>2. \A u, v \in Threads :
             (Calling(u))' /\ (Calling(v))' /\ call'[u].man = call'[v].man => u = v
      <3>1. \A u, v \in Threads :
               Calling(u) /\ Calling(v) /\ call[u].man = call[v].man => u = v
        BY DEF Inductive, CallsDistinct
      <3>2. SUFFICES ASSUME NEW u \in Threads, NEW v \in Threads, (Calling(u))', (Calling(v))',
                            call'[u].man = call'[v].man
                     PROVE  u = v
        OBVIOUS
      <3>3. Calling(u) /\ Calling(v) /\ call[u].man = call[v].man
        BY <1>3, <1>4, <3>2
      <3> QED  BY <3>1, <3>3
    <2>3. \A n \in Managers : urlOf'[n] = NoUrl <=> n = m \/ urlOf[n] = NoUrl
      <3>1. \A n \in Managers : urlOf'[n] = IF n = m THEN NoUrl ELSE urlOf[n]
        BY <1>1, <1>2 DEF TypeOK
      <3> QED  BY <3>1
    <2>4. \A u \in Threads : (Calling(u))' => (call'[u].lost <=> urlOf'[call'[u].man] = NoUrl)
      BY <1>3, <1>4, <2>1, <2>3 DEF Inductive, CallsDistinct
    <2> QED  BY <2>2, <2>4 DEF CallsDistinct
  <1>11. CounterAhead'
    <2>1. \A u \in Threads : \A k \in handles'[u] : k.id.cnt <= sessCnt'
      BY <1>2, <1>16 DEF Inductive, CounterAhead
    <2>2. \A u, v \in Threads : \A k \in handles'[v] :
             (Calling(u))' /\ k.id.man = call'[u].man => k.id.cnt < sessCnt'
      <3> SUFFICES ASSUME NEW u \in Threads, NEW v \in Threads, NEW k \in handles'[v],
                          Calling(u)', k.id.man = call'[u].man
                   PROVE  k.id.cnt < sessCnt'
        OBVIOUS
      <3>1. PICK h \in handles[v] : k.id = h.id
        BY <1>16
      <3>2. Calling(u) /\ h.id.man = call[u].man
        BY <1>3, <1>4, <3>1
      <3> QED  BY <1>2, <3>1, <3>2 DEF Inductive, CounterAhead
    <2>3. sessCnt' <= CntLimit /\ \A u \in Threads : call'[u].step # "reset"
      BY <1>2, <1>3 DEF Inductive, CounterAhead
    <2> QED  BY <2>1, <2>2, <2>3 DEF CounterAhead
  <1>12. EntriesHeld'
    <2> SUFFICES ASSUME NEW n \in Managers, NEW e \in sessions'[n]
                 PROVE  \E k \in handles'[e.by] : k.id = e.id /\ k.no = e.no /\ k.open /\ e.id.man = n
      BY DEF EntriesHeld
    <2>1. n # m /\ e \in sessions[n]
      BY <1>1, <1>2 DEF TypeOK
    <2>2. e.by \in Threads
      BY <2>1 DEF TypeOK, Entry
    <2>3. PICK h \in handles[e.by] : h.id = e.id /\ h.no = e.no /\ h.open /\ e.id.man = n
      BY <2>1 DEF Inductive, EntriesHeld
    <2>4. End(h) \in handles'[e.by]
      BY <1>5, <2>2
    <2> QED  BY <1>6, <1>7, <2>1, <2>2, <2>3, <2>4
  <1>13. OpenRegistered'
    <2> SUFFICES ASSUME NEW u \in Threads, NEW k \in handles'[u], k.open
                 PROVE  /\ urlOf'[k.id.man] # NoUrl
                        /\ [id |-> k.id, by |-> u, no |-> k.no] \in sessions'[k.id.man]
      BY DEF OpenRegistered
    <2>1. PICK h \in handles[u] : k = End(h)
      BY <1>8
    <2>2. k.id = h.id /\ k.no = h.no /\ h.open /\ h.id.man # m /\ h.id.man \in Managers
      BY <1>6, <1>7, <2>1
    <2>3. urlOf[h.id.man] # NoUrl /\ [id |-> h.id, by |-> u, no |-> h.no] \in sessions[h.id.man]
      BY <2>2 DEF Inductive, OpenRegistered
    <2> QED  BY <1>1, <1>2, <2>2, <2>3 DEF TypeOK
  <1>14. HandlesDistinct'
    <2> SUFFICES ASSUME NEW u \in Threads, NEW v \in Threads, NEW h \in handles'[u],
                        NEW k \in handles'[v], h.id = k.id, h.id # Zero
                 PROVE  u = v /\ h.no = k.no /\ h.open = k.open
      BY DEF HandlesDistinct
    <2>1. h \in {End(x) : x \in handles[u]} /\ k \in {End(x) : x \in handles[v]}
      BY <1>5
    <2>2. PICK x \in handles[u] : h = End(x)
      BY <2>1
    <2>3. PICK y \in handles[v] : k = End(y)
      BY <2>1
    <2>4. x.id = y.id /\ x.id # Zero
      BY <1>6, <2>2, <2>3
    <2>5. u = v /\ x.no = y.no /\ x.open = y.open
      BY <2>4 DEF Inductive, HandlesDistinct
    <2>6. h.no = k.no
      BY <1>6, <2>2, <2>3, <2>5
    <2>7. h.open = k.open
      BY <2>2, <2>3, <2>4, <2>5 DEF End, Closed
    <2> QED  BY <2>5, <2>6, <2>7
  <1>15. NumbersOfUrls'
    BY <1>1, <1>2 DEF Inductive, NumbersOfUrls, TypeOK
  <1> QED  BY <1>9, <1>19, <1>10, <1>11, <1>12, <1>13, <1>14, <1>15 DEF Inductive

\* Counting puts the counter above every id of the manager, and only one
\* viOpen of it is under way.
LEMMA StartOpenStep ==
    ASSUME TypeOK, Inductive, NEW t \in Threads, StartOpen(t), ~reused'
    PROVE  Inductive'
  <1> DEFINE m == rm[t].man
  <1>1. /\ m \in Managers /\ urlOf[m] # NoUrl /\ rm[t] # NoRM /\ Free(m)
        /\ call' = [call EXCEPT ![t] = [step |-> "compare", man |-> m, lost |-> FALSE]]
        /\ sessCnt' = sessCnt + 1
        /\ UNCHANGED <<resmanCnt, urlOf, sessions, making, rm, handles, drawn>>
    BY DEF StartOpen, TypeOK
  <1>2. sessCnt' <= CntLimit
    <2>1. reused' = (reused \/ sessCnt + 1 > CntLimit)
      BY DEF StartOpen
    <2>2. ~(sessCnt + 1 > CntLimit)
      BY <2>1
    <2> QED  BY <1>1, <2>2, ApiAssumption DEF TypeOK
  <1>3. ~Calling(t) /\ \A u \in Threads \ {t} : call'[u] = call[u] /\ (Calling(u))' = Calling(u)
    BY <1>1 DEF StartOpen, Idle, Calling, TypeOK
  <1>4. call'[t] = [step |-> "compare", man |-> m, lost |-> FALSE]
    BY <1>1 DEF TypeOK
  <1> HIDE DEF m
  <1>5. \A u \in Threads : Calling(u) => call[u].man # m
    BY <1>1 DEF Inductive, CallsDistinct, Free
  <1>6. Numbered'
    <2>1. m \in drawn
      BY <1>1 DEF Inductive, Numbered
    <2> QED  BY <1>1, <1>3, <1>4, <2>1 DEF Inductive, Numbered
  <1>10. NumbersFresh'
    <2>1. ASSUME NEW u \in Threads, making[u].step = "insert" PROVE Fresh(u)'
      <3>1. Fresh(u)
        BY <2>1 DEF Inductive, NumbersFresh
      <3>2. m # making[u].man
        BY <1>1, <3>1 DEF Fresh
      <3> QED  BY <1>1, <1>3, <1>4, <3>1, <3>2 DEF Fresh
    <2> QED  BY <1>1, <2>1 DEF Inductive, NumbersFresh
  <1>7. CallsDistinct'
    BY <1>1, <1>3, <1>4, <1>5 DEF Inductive, CallsDistinct
  <1>8. CounterAhead'
    <2>1. \A u \in Threads : \A h \in handles[u] : h.id.cnt \in Nat /\ h.id.cnt <= sessCnt
      BY ApiAssumption DEF Inductive, CounterAhead, TypeOK, Handle, Id
    <2>2. \A u \in Threads : \A h \in handles[u] : h.id.cnt < sessCnt'
      BY <1>1, <2>1 DEF TypeOK
    <2>3. \A u \in Threads : call'[u].step # "reset"
      BY <1>3, <1>4 DEF Inductive, CounterAhead
    <2>4. \A u \in Threads : \A h \in handles[u] : h.id.cnt <= sessCnt'
      BY <1>1, <2>1 DEF TypeOK
    <2> QED  BY <1>1, <1>2, <2>2, <2>3, <2>4 DEF CounterAhead
  <1>9. EntriesHeld' /\ OpenRegistered' /\ HandlesDistinct' /\ NumbersOfUrls'
    BY <1>1 DEF Inductive, EntriesHeld, OpenRegistered, HandlesDistinct, NumbersOfUrls
  <1> QED  BY <1>6, <1>10, <1>7, <1>8, <1>9 DEF Inductive

\* The counter is within its limit, so no viOpen resets it.
LEMMA CompareStep ==
    ASSUME TypeOK, Inductive, NEW t \in Threads, Compare(t) \/ Reset(t)
    PROVE  Inductive'
  <1>1. Compare(t)
    BY DEF Inductive, CounterAhead, Reset
  <1>2. ~(sessCnt > CntLimit)
    BY ApiAssumption DEF Inductive, CounterAhead, TypeOK
  <1>3. /\ call' = [call EXCEPT ![t].step = "read"]
        /\ UNCHANGED <<resmanCnt, sessCnt, urlOf, sessions, making, rm, handles, drawn>>
    BY <1>1, <1>2 DEF Compare
  <1>4. \A u \in Threads : /\ call'[u].man = call[u].man /\ call'[u].lost = call[u].lost
                           /\ (Calling(u))' = Calling(u)
                           /\ call'[u].step # "reset"
    BY <1>1, <1>3 DEF Compare, Calling, TypeOK, Inductive, CounterAhead
  <1>5. Numbered' /\ NumbersFresh' /\ CallsDistinct'
    BY <1>3, <1>4 DEF Inductive, Numbered, NumbersFresh, Fresh, CallsDistinct
  <1>6. CounterAhead'
    BY <1>3, <1>4 DEF Inductive, CounterAhead
  <1>7. EntriesHeld' /\ OpenRegistered' /\ HandlesDistinct' /\ NumbersOfUrls'
    BY <1>3 DEF Inductive, EntriesHeld, OpenRegistered, HandlesDistinct, NumbersOfUrls
  <1> QED  BY <1>5, <1>6, <1>7 DEF Inductive

\* The new id is above every other of its manager, so the repo has room for
\* it and nobody else has it.
LEMMA RegisterStep ==
    ASSUME TypeOK, CallsCounted, Inductive, NEW t \in Threads, Register(t)
    PROVE  Inductive'
  <1> DEFINE m  == call[t].man
             id == SessionId(m, sessCnt)
             e  == [id |-> id, by |-> t, no |-> opens[t]]
             new == [id |-> id, no |-> opens[t], open |-> ~call[t].lost]
  <1>1. /\ m \in Managers /\ Calling(t) /\ call[t].lost \in BOOLEAN
        /\ m \in Nat /\ sessCnt \in Nat
    BY ApiAssumption DEF Register, TypeOK, Calling, Managers
  <1>3. 0 < m /\ m <= ManLimit
    BY <1>1 DEF Inductive, Numbered
  <1>2. id = [man |-> m, cnt |-> sessCnt]
    BY <1>1, <1>3, SessionIdType DEF Inductive, CounterAhead
  <1>4. \A u \in Threads : \A h \in handles[u] : h.id # id
    <2>1. ASSUME NEW u \in Threads, NEW h \in handles[u], h.id = id PROVE FALSE
      <3>1. h.id.man = m /\ h.id.cnt = sessCnt
        BY <1>2, <2>1
      <3>2. h.id.cnt < sessCnt
        BY <1>1, <3>1 DEF Inductive, CounterAhead
      <3> QED  BY <1>1, <3>1, <3>2
    <2> QED  BY <2>1
  <1>5. \A x \in sessions[m] : x.id # id
    <2>1. \A x \in sessions[m] : x.by \in Threads
      BY <1>1 DEF TypeOK, Entry
    <2> QED  BY <1>1, <1>4, <2>1 DEF Inductive, EntriesHeld
  <1>6. /\ sessions' = IF call[t].lost THEN sessions
                       ELSE [sessions EXCEPT ![m] = @ \cup {e}]
        /\ handles' = [handles EXCEPT ![t] = @ \cup {new}]
        /\ call' = [call EXCEPT ![t] = NoCall]
        /\ UNCHANGED <<resmanCnt, sessCnt, urlOf, making, rm, drawn>>
    <2>1. ~ \E x \in sessions[m] : x.id = id
      BY <1>5
    <2>2. sessions' = IF call[t].lost \/ \E x \in sessions[m] : x.id = id
                      THEN sessions ELSE [sessions EXCEPT ![m] = @ \cup {e}]
      BY Zenon DEF Register
    <2>3. sessions' = IF call[t].lost THEN sessions ELSE [sessions EXCEPT ![m] = @ \cup {e}]
      <3> HIDE DEF id, m, e
      <3> QED  BY <2>1, <2>2, Zenon
    <2> QED  BY <2>3, Zenon DEF Register
  <1>7. new.id = id /\ new.no = opens[t] /\ new.open = ~call[t].lost
        /\ e.id = id /\ e.by = t /\ e.no = opens[t]
    OBVIOUS
  <1>8. id.man = m /\ id.cnt = sessCnt
    BY <1>2
  <1> HIDE DEF id, m, e, new
  <1>9. handles'[t] = handles[t] \cup {new} /\ \A u \in Threads \ {t} : handles'[u] = handles[u]
    BY <1>6 DEF TypeOK
  <1>10. /\ ~(Calling(t))' /\ call'[t].step # "reset"
         /\ \A u \in Threads \ {t} : call'[u] = call[u] /\ (Calling(u))' = Calling(u)
    BY <1>6 DEF TypeOK, NoCall, Calling
  <1>11. \A n \in Managers : sessions[n] \subseteq sessions'[n]
    BY <1>1, <1>6 DEF TypeOK
  <1>12. Numbered' /\ NumbersFresh'
    BY <1>6, <1>10 DEF Inductive, Numbered, NumbersFresh, Fresh
  <1>13. CallsDistinct'
    BY <1>6, <1>10 DEF Inductive, CallsDistinct
  <1>14. CounterAhead'
    <2>1. \A u \in Threads : \A h \in handles'[u] : h.id.cnt <= sessCnt'
      BY <1>1, <1>6, <1>7, <1>8, <1>9 DEF Inductive, CounterAhead
    <2>2. ASSUME NEW u \in Threads, NEW v \in Threads, NEW h \in handles'[v],
                 Calling(u)', h.id.man = call'[u].man
          PROVE  h.id.cnt < sessCnt'
      <3>1. u # t /\ Calling(u) /\ h.id.man = call[u].man
        BY <1>10, <2>2
      <3>2. call[u].man # m
        BY <1>1, <3>1 DEF Inductive, CallsDistinct, m
      <3>3. h \in handles[v]
        BY <1>7, <1>8, <1>9, <3>1, <3>2
      <3> QED  BY <1>6, <3>1, <3>3 DEF Inductive, CounterAhead
    <2> QED  BY <1>6, <1>10, <2>1, <2>2 DEF Inductive, CounterAhead
  <1>15. EntriesHeld'
    <2> SUFFICES ASSUME NEW n \in Managers, NEW x \in sessions'[n]
                 PROVE  \E h \in handles'[x.by] : h.id = x.id /\ h.no = x.no /\ h.open /\ x.id.man = n
      BY DEF EntriesHeld
    <2>1. CASE x \in sessions[n]
      <3>1. x.by \in Threads
        BY <2>1 DEF TypeOK, Entry
      <3> QED  BY <1>9, <2>1, <3>1 DEF Inductive, EntriesHeld
    <2>2. CASE x \notin sessions[n]
      <3>1. ~call[t].lost /\ n = m /\ x = e
        BY <1>1, <1>6, <2>2 DEF TypeOK
      <3> QED  BY <1>7, <1>8, <1>9, <3>1
    <2> QED  BY <2>1, <2>2
  <1>16. OpenRegistered'
    <2> SUFFICES ASSUME NEW u \in Threads, NEW h \in handles'[u], h.open
                 PROVE  /\ urlOf'[h.id.man] # NoUrl
                        /\ [id |-> h.id, by |-> u, no |-> h.no] \in sessions'[h.id.man]
      BY DEF OpenRegistered
    <2>1. CASE h \in handles[u]
      <3>1. h.id.man \in Managers
        BY <2>1, LowManagers DEF TypeOK, Handle, Id
      <3> QED  BY <1>6, <1>11, <2>1, <3>1 DEF Inductive, OpenRegistered
    <2>2. CASE h \notin handles[u]
      <3>1. u = t /\ h = new
        BY <1>9, <2>2
      <3>2. ~call[t].lost
        BY <1>7, <3>1
      <3>3. urlOf[m] # NoUrl
        BY <1>1, <3>2 DEF Inductive, CallsDistinct, m
      <3>4. e \in sessions'[m] /\ e = [id |-> id, by |-> t, no |-> opens[t]]
        BY <1>1, <1>6, <3>2 DEF TypeOK, e
      <3> QED  BY <1>6, <1>7, <1>8, <3>1, <3>3, <3>4
    <2> QED  BY <2>1, <2>2
  <1>17. HandlesDistinct'
    BY <1>4, <1>7, <1>9 DEF Inductive, HandlesDistinct
  <1>18. NumbersOfUrls'
    BY <1>6 DEF Inductive, NumbersOfUrls
  <1> QED  BY <1>12, <1>13, <1>14, <1>15, <1>16, <1>17, <1>18 DEF Inductive

\* A variable no viOpen has written is nobody's id.
LEMMA OpenOnClosedStep ==
    ASSUME TypeOK, Inductive, NEW t \in Threads, OpenOnClosed(t)
    PROVE  Inductive'
  <1> DEFINE new == [id |-> Zero, no |-> 0, open |-> FALSE]
  <1>1. /\ handles' = [handles EXCEPT ![t] = @ \cup {new}]
        /\ UNCHANGED <<resmanCnt, sessCnt, urlOf, sessions, making, rm, call, drawn>>
    BY DEF OpenOnClosed
  <1>2. new.id = Zero /\ new.open = FALSE /\ Zero.man = 0 /\ Zero.cnt = 0
    BY DEF Zero
  <1> HIDE DEF new
  <1>3. handles'[t] = handles[t] \cup {new} /\ \A u \in Threads \ {t} : handles'[u] = handles[u]
    BY <1>1 DEF TypeOK
  <1>4. Numbered' /\ NumbersFresh'
    BY <1>1 DEF Inductive, Numbered, NumbersFresh, Fresh, Calling
  <1>5. CallsDistinct'
    BY <1>1 DEF Inductive, CallsDistinct, Calling
  <1>6. CounterAhead'
    <2>1. \A u \in Threads : \A h \in handles'[u] : h.id.cnt <= sessCnt'
      BY <1>1, <1>2, <1>3 DEF Inductive, CounterAhead, TypeOK
    <2>2. ASSUME NEW u \in Threads, NEW v \in Threads, NEW h \in handles'[v],
                 Calling(u)', h.id.man = call'[u].man
          PROVE  h.id.cnt < sessCnt'
      <3>1. Calling(u) /\ h.id.man = call[u].man
        BY <1>1, <2>2 DEF Calling
      <3>2. 0 < call[u].man
        BY <3>1 DEF Inductive, Numbered
      <3>3. h # new
        BY <1>2, <3>1, <3>2
      <3> QED  BY <1>1, <1>3, <3>1, <3>3 DEF Inductive, CounterAhead
    <2> QED  BY <1>1, <2>1, <2>2 DEF Inductive, CounterAhead
  <1>7. EntriesHeld'
    <2>1. \A n \in Managers : \A e \in sessions[n] : handles[e.by] \subseteq handles'[e.by]
      BY <1>3 DEF TypeOK, Entry
    <2> QED  BY <1>1, <2>1 DEF Inductive, EntriesHeld
  <1>8. OpenRegistered'
    BY <1>1, <1>2, <1>3 DEF Inductive, OpenRegistered
  <1>9. HandlesDistinct'
    BY <1>2, <1>3 DEF Inductive, HandlesDistinct
  <1>10. NumbersOfUrls'
    BY <1>1 DEF Inductive, NumbersOfUrls
  <1> QED  BY <1>4, <1>5, <1>6, <1>7, <1>8, <1>9, <1>10 DEF Inductive

\* viClose takes the entry of its id and no other, and no entry the second time.
LEMMA CloseSessionStep ==
    ASSUME TypeOK, Inductive, NEW t \in Threads, NEW c \in handles[t], CloseSession(t, c)
    PROVE  Inductive'
  <1> DEFINE m == c.id.man
  <1>1. /\ m \in Managers /\ c.id # Zero
        /\ sessions' = [sessions EXCEPT ![m] = @ \ Lookup(c.id)]
        /\ handles' = [handles EXCEPT ![t] = (@ \ {c}) \cup {Closed(c)}]
        /\ UNCHANGED <<resmanCnt, sessCnt, urlOf, making, rm, call, drawn>>
    BY LowManagers DEF CloseSession, TypeOK, Handle, Id
  <1>2. Closed(c).id = c.id /\ Closed(c).no = c.no /\ Closed(c).open = FALSE
    BY DEF Closed
  <1>3. handles'[t] = (handles[t] \ {c}) \cup {Closed(c)}
        /\ \A u \in Threads \ {t} : handles'[u] = handles[u]
    BY <1>1 DEF TypeOK
  <1>4. \A u \in Threads : \A k \in handles'[u] : \E h \in handles[u] : k.id = h.id /\ k.no = h.no
    BY <1>2, <1>3
  \* no other handle has this id
  <1>5. \A u \in Threads : \A h \in handles[u] : h.id = c.id => u = t /\ h = c
    <2> SUFFICES ASSUME NEW u \in Threads, NEW h \in handles[u], h.id = c.id
                 PROVE  u = t /\ h = c
      OBVIOUS
    <2>1. u = t /\ h.no = c.no /\ h.open = c.open
      BY <1>1 DEF Inductive, HandlesDistinct
    <2>2. h \in Handle /\ c \in Handle
      BY DEF TypeOK
    <2> QED  BY <2>1, <2>2 DEF Handle
  <1>6. \A n \in Managers : \A e \in sessions'[n] : e \in sessions[n] /\ ~(n = m /\ e \in Lookup(c.id))
    BY <1>1 DEF TypeOK
  <1> HIDE DEF m
  <1>7. Numbered' /\ NumbersFresh'
    BY <1>1 DEF Inductive, Numbered, NumbersFresh, Fresh, Calling
  <1>8. CallsDistinct'
    BY <1>1 DEF Inductive, CallsDistinct, Calling
  <1>9. CounterAhead'
    <2>1. \A u \in Threads : \A k \in handles'[u] : k.id.cnt <= sessCnt'
      BY <1>1, <1>4 DEF Inductive, CounterAhead
    <2>2. ASSUME NEW u \in Threads, NEW v \in Threads, NEW k \in handles'[v],
                 Calling(u)', k.id.man = call'[u].man
          PROVE  k.id.cnt < sessCnt'
      <3>1. PICK h \in handles[v] : k.id = h.id
        BY <1>4
      <3>2. Calling(u) /\ h.id.man = call[u].man
        BY <1>1, <2>2, <3>1 DEF Calling
      <3> QED  BY <1>1, <3>1, <3>2 DEF Inductive, CounterAhead
    <2> QED  BY <1>1, <2>1, <2>2 DEF Inductive, CounterAhead
  <1>10. EntriesHeld'
    <2> SUFFICES ASSUME NEW n \in Managers, NEW e \in sessions'[n]
                 PROVE  \E k \in handles'[e.by] : k.id = e.id /\ k.no = e.no /\ k.open /\ e.id.man = n
      BY DEF EntriesHeld
    <2>1. e \in sessions[n] /\ e.by \in Threads
      BY <1>6 DEF TypeOK, Entry
    <2>2. PICK h \in handles[e.by] : h.id = e.id /\ h.no = e.no /\ h.open /\ e.id.man = n
      BY <2>1 DEF Inductive, EntriesHeld
    <2>3. e.id # c.id
      <3>1. ASSUME e.id = c.id PROVE FALSE
        <4>1. n = m /\ urlOf[n] # NoUrl
          BY <2>1, <2>2, <3>1 DEF Inductive, OpenRegistered, m
        <4>2. e \in Lookup(c.id)
          BY <2>1, <3>1, <4>1 DEF Lookup, m
        <4> QED  BY <1>6, <4>1, <4>2
      <3> QED  BY <3>1
    <2>4. h # c /\ h \in handles'[e.by]
      BY <1>3, <2>1, <2>2, <2>3
    <2> QED  BY <2>2, <2>4
  <1>11. OpenRegistered'
    <2> SUFFICES ASSUME NEW u \in Threads, NEW h \in handles'[u], h.open
                 PROVE  /\ urlOf'[h.id.man] # NoUrl
                        /\ [id |-> h.id, by |-> u, no |-> h.no] \in sessions'[h.id.man]
      BY DEF OpenRegistered
    <2>1. h \in handles[u] /\ ~(u = t /\ h = c)
      BY <1>2, <1>3
    <2>2. h.id # c.id
      BY <1>5, <2>1
    <2>3. /\ urlOf[h.id.man] # NoUrl /\ h.id.man \in Managers
          /\ [id |-> h.id, by |-> u, no |-> h.no] \in sessions[h.id.man]
      BY <2>1, LowManagers DEF Inductive, OpenRegistered, TypeOK, Handle, Id
    <2>4. [id |-> h.id, by |-> u, no |-> h.no] \notin Lookup(c.id)
      BY <2>2 DEF Lookup
    <2> QED  BY <1>1, <2>3, <2>4 DEF TypeOK
  <1>12. HandlesDistinct'
    <2> SUFFICES ASSUME NEW u \in Threads, NEW v \in Threads, NEW h \in handles'[u],
                        NEW k \in handles'[v], h.id = k.id, h.id # Zero
                 PROVE  u = v /\ h.no = k.no /\ h.open = k.open
      BY DEF HandlesDistinct
    <2>1. CASE h.id = c.id
      <3>1. u = t /\ h = Closed(c) /\ v = t /\ k = Closed(c)
        BY <1>2, <1>3, <1>5, <2>1
      <3> QED  BY <3>1
    <2>2. CASE h.id # c.id
      <3>1. h \in handles[u] /\ k \in handles[v]
        BY <1>2, <1>3, <2>2
      <3> QED  BY <3>1 DEF Inductive, HandlesDistinct
    <2> QED  BY <2>1, <2>2
  <1>13. NumbersOfUrls'
    BY <1>1 DEF Inductive, NumbersOfUrls
  <1> QED  BY <1>7, <1>8, <1>9, <1>10, <1>11, <1>12, <1>13 DEF Inductive

-----------------------------------------------------------------------------
(* The theorems.                                                           *)

\* The strengthening of HandlesDenote and ManagersByUrl that every step keeps.
THEOREM InductiveInvariant == Spec => []IInv
  <1>1. IInv /\ [Next]_vars => IInv'
    <2> SUFFICES ASSUME IInv, [Next]_vars PROVE IInv'
      OBVIOUS
    <2>1. TypeOK' /\ SearchHolds' /\ TwinsRaced' /\ CallsCounted'
      BY TypeStep, SearchHoldsStep, TwinsRacedStep, CallsCountedStep DEF IInv
    <2>2. ASSUME ~reused' PROVE Inductive'
      <3>1. ~reused
        BY <2>2 DEF Next, vars, OpenRM, CountRM, CompareRM, ResetRM, ReadRM, InsertRM, CloseRM, StartOpen, Compare, Reset,
                    Register, OpenOnClosed, CloseSession
      <3>2. TypeOK /\ SearchHolds /\ CallsCounted /\ Inductive
        BY <3>1 DEF IInv
      <3>3. CASE UNCHANGED vars
        BY <3>2, <3>3
        DEF vars, Inductive, Numbered, NumbersFresh, Fresh, CallsDistinct, CounterAhead, EntriesHeld,
            OpenRegistered, HandlesDistinct, NumbersOfUrls, Calling
      <3>4. CASE Next
        <4>1. PICK t \in Threads :
                \/ \E url \in Urls : OpenRM(t, url)
                \/ CountRM(t) \/ CompareRM(t) \/ ResetRM(t) \/ ReadRM(t) \/ InsertRM(t)
                \/ CloseRM(t) \/ StartOpen(t) \/ Compare(t) \/ Reset(t) \/ Register(t)
                \/ OpenOnClosed(t)
                \/ \E h \in handles[t] : CloseSession(t, h)
          BY <3>4 DEF Next
        <4> QED
          BY <2>2, <3>2, <4>1, OpenRMStep, DrawStep, InsertRMStep, CloseRMStep, StartOpenStep, CompareStep,
             RegisterStep, OpenOnClosedStep, CloseSessionStep
      <3> QED  BY <3>3, <3>4
    <2> QED  BY <2>1, <2>2 DEF IInv
  <1> QED  BY InitInvariant, <1>1, PTL DEF Spec

\* Every reachable state is well typed, counters that have gone round included.
THEOREM TypeCorrect == Spec => []TypeOK
  <1>1. IInv => TypeOK
    BY DEF IInv
  <1> QED  BY InductiveInvariant, <1>1, PTL

\* An id leads to its own session while that is open and to none afterwards,
\* whatever the other threads do, until a number is given twice.
THEOREM IdsDenote == Spec => []HandlesDenote
  <1>1. IInv => HandlesDenote
    <2> SUFFICES ASSUME TypeOK, Inductive, NEW t \in Threads, NEW h \in handles[t]
                 PROVE  Lookup(h.id) = IF h.open THEN {[id |-> h.id, by |-> t, no |-> h.no]} ELSE {}
      BY DEF IInv, HandlesDenote
    <2>1. h \in Handle /\ h.id.man \in Managers
      BY LowManagers DEF TypeOK, Handle, Id
    <2>2. ASSUME NEW e \in Lookup(h.id)
          PROVE  h.open /\ e = [id |-> h.id, by |-> t, no |-> h.no]
      <3>1. e \in sessions[h.id.man] /\ e.id = h.id
        BY DEF Lookup
      <3>2. e \in Entry
        BY <2>1, <3>1 DEF TypeOK
      <3>3. PICK k \in handles[e.by] : k.id = e.id /\ k.no = e.no /\ k.open
        BY <2>1, <3>1 DEF Inductive, EntriesHeld
      <3>4. e.by \in Threads
        BY <3>2 DEF Entry
      <3>5. 0 < k.id.man
        BY <2>1, <3>1, <3>3, <3>4 DEF Inductive, OpenRegistered, Numbered
      <3>6. k.id # Zero
        BY <3>5 DEF Zero
      <3>7. e.by = t /\ k.no = h.no /\ k.open = h.open
        <4>1. \A g \in handles[t] : \A f \in handles[e.by] :
                 g.id = f.id /\ g.id # Zero => t = e.by /\ g.no = f.no /\ g.open = f.open
          BY <3>4, Zenon DEF Inductive, HandlesDistinct
        <4>2. h.id = k.id /\ h.id # Zero
          BY <3>1, <3>3, <3>6
        <4>3. t = e.by /\ h.no = k.no /\ h.open = k.open
          BY <3>3, <4>1, <4>2, Zenon
        <4> QED  BY <4>3
      <3> QED  BY <3>1, <3>2, <3>3, <3>7 DEF Entry
    <2>3. CASE h.open
      <3>1. [id |-> h.id, by |-> t, no |-> h.no] \in Lookup(h.id)
        BY <2>3 DEF Inductive, OpenRegistered, Lookup
      <3> QED  BY <2>2, <2>3, <3>1
    <2>4. CASE ~h.open
      BY <2>2, <2>4
    <2> QED  BY <2>3, <2>4
  <1> QED  BY InductiveInvariant, <1>1, PTL

\* A url has a second manager only from calls that overlapped, whatever the
\* counters do; until a number is given twice, it leads to its url or nowhere.
THEOREM UrlsDenote == Spec => []ManagersByUrl
  <1>1. IInv => ManagersByUrl
    BY DEF IInv, TwinsRaced, ManagersByUrl, Inductive, NumbersOfUrls
  <1> QED  BY InductiveInvariant, <1>1, PTL

=============================================================================
