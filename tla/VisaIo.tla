------------------------------- MODULE VisaIo -------------------------------
(* Reading and writing on open sessions: viWrite, viRead, viSetAttribute   *)
(* and viGetAttribute of several applications, the send, recv, set_option  *)
(* and get_option routes of the one server, and the instruments behind it. *)
(*                                                                         *)
(* Every call opens a websocket of its own on its session's route.  The    *)
(* payload of a viWrite goes out when the client sees the websocket open;  *)
(* recv is answered by the server's own on_open.  The server has a single  *)
(* thread and calls the port inside the handler: while a read blocks,      *)
(* nothing else moves.                                                     *)
(*                                                                         *)
(* Sessions are open already (VisaSessions is about that); connected says  *)
(* whether the running server has the connection of a resource.  An        *)
(* instrument answers each message it takes; the bytes of an answer are    *)
(* named by the application, the number of the viWrite it answers, and     *)
(* their place in the answer.                                              *)
(***************************************************************************)
EXTENDS Naturals, Sequences, FiniteSets

CONSTANTS
    Apps,        \* one session each
    Resources,
    SessOf,      \* the resource of an application's session
    Digest,      \* the bytes of the SHA-1 of a resource, here fewer than 20
    Blocking,    \* resources on a TCP or serial port: read() has no timeout
    AtLeast,     \* bytes such a read() waits for: 4 on TCP, 1 on a serial port
    AnswerSize,  \* bytes of an answer of the instrument
    Cap,         \* sizeof(buf_) - 4 of the server, a transfer of a USBTMC port
    Room,        \* bytes of the buffer an application gives to viRead
    Kinds,       \* the calls applications make
    Slots,       \* bound: requests that may be unfinished at one time
    WriteMod,    \* numbers for the writes of an application
    MaxOwed,     \* bound: answers an instrument holds
    Timeouts,    \* TRUE: the 5 s handshake timers may expire
    ServerEnds,  \* TRUE: the server may end and be started again
    Polite       \* TRUE: applications read only when an answer is due

ASSUME IoAssumption ==
    /\ SessOf \in [Apps -> Resources]
    /\ Digest \in [Resources -> Seq(0 .. 255)]
    /\ Blocking \subseteq Resources
    /\ {AtLeast, AnswerSize} \subseteq [Resources -> Nat \ {0}]
    /\ Cap \in Nat \ {0} /\ Room \in [Apps -> Nat]
    /\ Kinds \subseteq {"write", "read", "set", "get"}
    /\ WriteMod \in Nat \ {0} /\ MaxOwed \in Nat \ {0}
    /\ {Timeouts, ServerEnds, Polite} \subseteq BOOLEAN

VARIABLES
    \* the server
    up,
    connected,   \* the resources visa_conns_ has an entry for
    busy,        \* the slots of the recv the thread is blocked in: one or none
    reqs,        \* the websocket requests of all calls
    \* each application
    pc,          \* the call it is in
    conn,        \* the websocket of that call is still open
    warm,        \* an earlier websocket of the Session's WsClient is open
    last,        \* what its last call gave back
    writes,      \* how many viWrites it has made
    \* each instrument
    owed,        \* answers it is working on
    ready,       \* bytes it has to give
    \* history
    taken,       \* how often the instrument took the application's last write
    ungiven      \* the bytes it had ready that no viRead has given back

serverVars == <<up, connected, busy>>
appVars    == <<pc, conn, warm, last, writes>>
devVars    == <<owed, ready>>
history    == <<taken, ungiven>>
vars       == <<serverVars, reqs, appVars, devVars, history>>

Calls  == {"write", "read", "set", "get"}

Answers  == [app: Apps, no: 0 .. WriteMod - 1]
Bytes    == [of: Answers, at: Nat]
Request  == [slot: Slots, app: Apps, kind: Calls, live: BOOLEAN,
             stage: {"sent", "opened", "message", "replied", "heard", "unanswered"},
             ret: {"none", "count", "error"}, data: Seq(Bytes)]
Result   == [call: Calls \cup {"none"}, ret: {"count", "none", "error"}, data: Seq(Bytes)]

NoResult == [call |-> "none", ret |-> "none", data |-> <<>>]

Res(q)    == SessOf[q.app]
FreeSlots == Slots \ {q.slot : q \in reqs}
Exclusive(a) == \A b \in Apps \ {a} : SessOf[b] # SessOf[a]

\* The bytes of an answer of r.
BytesOf(r, answer) == [i \in 1 .. AnswerSize[r] |-> [of |-> answer, at |-> i]]

\* As many bytes are due to a, or will be, as a read() of its port waits for.
Due(a) ==
    LET r == SessOf[a]
    IN Len(owed[r]) * AnswerSize[r] + Len(ready[r]) >= (IF r \in Blocking THEN AtLeast[r] ELSE 1)

Init ==
    /\ up = TRUE /\ connected = Resources /\ busy = {}
    /\ reqs = {}
    /\ pc = [a \in Apps |-> "idle"]
    /\ conn = [a \in Apps |-> FALSE] /\ warm = [a \in Apps |-> FALSE]
    /\ last = [a \in Apps |-> NoResult]
    /\ writes = [a \in Apps |-> 0]
    /\ owed = [r \in Resources |-> <<>>] /\ ready = [r \in Resources |-> <<>>]
    /\ taken = [a \in Apps |-> 0]
    /\ ungiven = [r \in Resources |-> <<>>]

\* sha1_ is printed with "%x": a byte below 16 gives one digit.
Sha1Length(r) ==
    Len(Digest[r]) + Cardinality({i \in DOMAIN Digest[r] : Digest[r][i] > 15})

\* Its routes have the number of digits the expressions ask for, two a byte.
Routable == {r \in Resources : Sha1Length(r) = 2 * Len(Digest[r])}

-----------------------------------------------------------------------------
(* The application side.                                                   *)

\* Session::send, recv, setOption, getOption up to run().
Start(a, kind) ==
    /\ pc[a] = "idle"
    /\ kind = "read" /\ Polite => Due(a)
    /\ pc' = [pc EXCEPT ![a] = kind]
    /\ conn' = [conn EXCEPT ![a] = up]
    /\ FreeSlots # {}
    /\ LET s == CHOOSE s \in FreeSlots : TRUE IN
       reqs' = IF up THEN reqs \cup {[slot |-> s, app |-> a, kind |-> kind, live |-> TRUE,
                                      stage |-> "sent", ret |-> "none", data |-> <<>>]}
                     ELSE reqs
    /\ last' = [last EXCEPT ![a] = NoResult]
    /\ IF kind = "write"
       THEN /\ writes' = [writes EXCEPT ![a] = (@ + 1) % WriteMod]
            /\ taken' = [taken EXCEPT ![a] = 0]
       ELSE UNCHANGED <<writes, taken>>
    /\ UNCHANGED <<serverVars, warm, devVars, ungiven>>

\* Mutant: the request is kept at its old stage as well.
Move_Keeps(q, p) == reqs' = reqs \cup {p}

\* The request q has come to a new stage.
Move(q, p) == reqs' = (reqs \ {q}) \cup {p}

\* on_open: the send route, and no other, sends the payload; a route whose
\* digest is short matches no expression of the client either.
ClientSends(q) ==
    /\ q.live /\ q.stage = "opened" /\ q.kind = "write"
    /\ Res(q) \in Routable
    /\ Move(q, [q EXCEPT !.stage = "message"])
    /\ UNCHANGED <<serverVars, appVars, devVars, history>>

\* A call is over.  What viWrite and viRead return is VI_SUCCESS when the count is
\* positive and otherwise what the stack held; applications are not taken to
\* look at it.
Finish(a, ret, data) ==
    /\ pc' = [pc EXCEPT ![a] = "idle"]
    /\ conn' = [conn EXCEPT ![a] = FALSE]
    /\ last' = [last EXCEPT ![a] = [call |-> pc[a], ret |-> ret, data |-> data]]

\* History: the application has been given the data of q.
Given(q) ==
    ungiven' = [ungiven EXCEPT ![Res(q)] = SubSeq(@, Len(q.data) + 1, Len(@))]

\* Mutant: the client stops when the payload is out, not when it is answered.
OnReply_AtOpen(q) ==
    /\ q.live /\ q.kind \in {"write", "read"}
    /\ q.stage = "replied" \/ (q.kind = "write" /\ q.stage = "message")
    /\ Finish(q.app, q.ret, q.data)
    /\ warm' = [warm EXCEPT ![q.app] = TRUE]
    /\ Move(q, [q EXCEPT !.live = FALSE])
    /\ Given(q)
    /\ UNCHANGED <<serverVars, writes, devVars, taken>>

\* Mutant: a reply that is an error does not stop the loop.
OnReply_OnlyCounts(q) ==
    /\ q.live /\ q.kind \in {"write", "read"} /\ q.stage = "replied" /\ q.ret = "count"
    /\ Finish(q.app, q.ret, q.data)
    /\ warm' = [warm EXCEPT ![q.app] = TRUE]
    /\ reqs' = reqs \ {q}
    /\ Given(q)
    /\ UNCHANGED <<serverVars, writes, devVars, taken>>

\* on_message of the send and recv routes stops the loop.  That of recv copies
\* all that came, whatever the room for it.
OnReply(q) ==
    /\ q.live /\ q.kind \in {"write", "read"} /\ q.stage = "replied"
    /\ Finish(q.app, q.ret, q.data)
    /\ warm' = [warm EXCEPT ![q.app] = TRUE]
    /\ reqs' = reqs \ {q}
    /\ Given(q)
    /\ UNCHANGED <<serverVars, writes, devVars, taken>>

\* It has written behind the buffer of the application: the process may end.
Overrun(q) ==
    /\ q.live /\ q.kind = "read" /\ q.stage = "replied"
    /\ Len(q.data) > Room[q.app]
    /\ pc' = [pc EXCEPT ![q.app] = "dead"]
    /\ conn' = [conn EXCEPT ![q.app] = FALSE]
    /\ warm' = [warm EXCEPT ![q.app] = FALSE]
    /\ reqs' = reqs \ {q}
    /\ Given(q)
    /\ UNCHANGED <<serverVars, last, writes, devVars, taken>>

\* on_message of the get_option route does nothing: the loop goes on, as it
\* does for set_option, whose payload no on_open sends.
OnOptionReply(q) ==
    /\ q.live /\ q.kind = "get" /\ q.stage = "replied"
    /\ Move(q, [q EXCEPT !.stage = "heard"])
    /\ UNCHANGED <<serverVars, appVars, devVars, history>>

\* The client has seen its websocket open and has taken its timer back.
ClientOpen(q) ==
    IF q.kind = "write" THEN q.stage \notin {"sent", "opened"} ELSE q.stage = "heard"

\* The handshake timer of the client expires (GiveUp of WsCall); what the server
\* has still to do stays where it is.
Timeout(q) ==
    /\ Timeouts
    /\ q.live /\ ~ClientOpen(q)
    /\ conn' = [conn EXCEPT ![q.app] = FALSE]
    /\ Move(q, [q EXCEPT !.live = FALSE])
    /\ UNCHANGED <<serverVars, pc, warm, last, writes, devVars, history>>

\* run() has no open websocket left; the actual length is still zero.
RunReturns(a) ==
    /\ pc[a] \in Calls /\ ~conn[a] /\ ~warm[a]
    /\ Finish(a, "none", <<>>)
    /\ UNCHANGED <<serverVars, reqs, warm, writes, devVars, history>>

-----------------------------------------------------------------------------
(* The server side: one thread, idle when busy is empty.                  *)

Ready == up /\ busy = {}

Accept(q) ==
    /\ Ready /\ q.stage = "sent"
    /\ Move(q, [q EXCEPT !.stage = "opened"])
    /\ UNCHANGED <<serverVars, appVars, devVars, history>>

\* The peer is gone before the handshake, or the request has done its part.
Drop(q) ==
    /\ Ready /\ ~q.live /\ q.stage # "message"
    /\ reqs' = reqs \ {q}
    /\ UNCHANGED <<serverVars, appVars, devVars, history>>

\* The handshake timer of the server expires before its own on_open (End of
\* WsCall): the websocket is closed, and the client's loop notices.
ServerTimeout(q) ==
    /\ Timeouts /\ Ready
    /\ q.stage \in {"sent", "opened", "message"}
    /\ reqs' = reqs \ {q}
    /\ conn' = IF q.live THEN [conn EXCEPT ![q.app] = FALSE] ELSE conn
    /\ UNCHANGED <<serverVars, pc, warm, last, writes, devVars, history>>

\* The handler finds the connection of the route.
Found(q) == Res(q) \in Routable /\ Res(q) \in connected

Reply(q, ret, data) ==
    Move(q, [q EXCEPT !.stage = "replied", !.ret = ret, !.data = data])

\* The instrument takes the payload of q and will answer it.  A USBTMC
\* instrument drops what was not read when the next message comes; a stream
\* keeps it, up to about MaxOwed answers.
TakeTimes(q, n) ==
    LET r      == Res(q)
        answer == [app |-> q.app, no |-> writes[q.app]]
    IN
    /\ taken' = [taken EXCEPT ![q.app] = @ + n]
    /\ IF r \in Blocking
       THEN /\ owed' = IF Len(owed[r]) * AnswerSize[r] + Len(ready[r]) < MaxOwed * AnswerSize[r]
                       THEN [owed EXCEPT ![r] = Append(@, answer)] ELSE owed
            /\ UNCHANGED <<ready, ungiven>>
       ELSE /\ owed' = [owed EXCEPT ![r] = <<answer>>]
            /\ ready' = [ready EXCEPT ![r] = <<>>]
            /\ ungiven' = [ungiven EXCEPT ![r] = <<>>]

\* Mutant: every connection of the set is written to, the payload goes twice.
Take_Twice(q) == TakeTimes(q, 2)

Take(q) == TakeTimes(q, 1)

\* on_message, the send route: VisaConnction::send and its value as the reply.
ServerOnSend(q) ==
    /\ Ready /\ q.kind = "write" /\ q.stage = "message"
    /\ Found(q)
    /\ \/ Take(q) /\ Reply(q, "count", <<>>)
       \/ Reply(q, "error", <<>>) /\ UNCHANGED <<devVars, history>>
    /\ UNCHANGED <<serverVars, appVars>>

\* Mutant: a read that does not take all there is leaves nothing behind.
GiveFirst_DropsRest(q, n) ==
    /\ Reply(q, "count", SubSeq(ready[Res(q)], 1, n))
    /\ ready' = [ready EXCEPT ![Res(q)] = <<>>]

\* The first n bytes of what there is.
GiveFirst(q, n) ==
    /\ Reply(q, "count", SubSeq(ready[Res(q)], 1, n))
    /\ ready' = [ready EXCEPT ![Res(q)] = SubSeq(@, n + 1, Len(@))]

\* What full transfers, of Cap bytes each, may leave of the bytes there are.
Rests(there) ==
    {SubSeq(there, n + 1, Len(there)) :
        n \in {m \in 0 .. Len(there) : \E k \in 0 .. m : m = k * Cap}}

\* on_open, the recv route, a USBTMC port.  read() ends with a transfer that is
\* not full: it gives the whole answer, also one longer than the buffer of the
\* server, which is copied behind it and sent all the same (ServerGone, if the
\* server does not survive that).  A transfer that fails, and the one of a
\* second that follows an answer of full ones only, loses those before it.
ServerOnRecv(q) ==
    /\ Ready /\ q.kind = "read" /\ q.stage = "opened"
    /\ Found(q) /\ Res(q) \notin Blocking
    /\ LET there == ready[Res(q)]
       IN \/ <<>> \notin Rests(there) /\ GiveFirst(q, Len(there))
          \/ \E rest \in Rests(there) :
                Reply(q, "error", <<>>) /\ ready' = [ready EXCEPT ![Res(q)] = rest]
    /\ UNCHANGED <<serverVars, appVars, owed, history>>

\* The same on a stream: the thread stays in the port until there are as many
\* bytes as its read() asks for at least.
ServerBlocks(q) ==
    /\ Ready /\ q.kind = "read" /\ q.stage = "opened"
    /\ Found(q) /\ Res(q) \in Blocking
    /\ busy' = {q.slot}
    /\ UNCHANGED <<up, connected, reqs, appVars, devVars, history>>

ServerUnblocks(q) ==
    /\ busy = {q.slot}
    /\ \E n \in AtLeast[Res(q)] .. Len(ready[Res(q)]) : n <= Cap /\ GiveFirst(q, n)
    /\ busy' = {}
    /\ UNCHANGED <<up, connected, appVars, owed, history>>

\* on_open, the get_option route: getOption of every port, 0 or -1.
ServerOnGetOption(q) ==
    /\ Ready /\ q.kind = "get" /\ q.stage = "opened"
    /\ Found(q)
    /\ Reply(q, "error", <<>>)
    /\ UNCHANGED <<serverVars, appVars, devVars, history>>

\* A digest that is not 40 digits long, or one of no connection: no reply.
ServerIgnores(q) ==
    /\ Ready /\ ~Found(q)
    /\ \/ q.kind = "write" /\ q.stage = "message"
       \/ q.kind \in {"read", "get"} /\ q.stage = "opened"
    /\ Move(q, [q EXCEPT !.stage = "unanswered"])
    /\ UNCHANGED <<serverVars, appVars, devVars, history>>

\* An exception of a stream port, or the end of the process for any reason.
ServerGone ==
    /\ ServerEnds /\ up
    /\ up' = FALSE /\ connected' = {} /\ busy' = {} /\ reqs' = {}
    /\ conn' = [a \in Apps |-> FALSE] /\ warm' = [a \in Apps |-> FALSE]
    /\ UNCHANGED <<pc, last, writes, devVars, history>>

\* A new server has no connections until some viOpen makes them.
ServerStart ==
    /\ ~up
    /\ up' = TRUE
    /\ UNCHANGED <<connected, busy, reqs, appVars, devVars, history>>

Reconnect(r) ==
    /\ up /\ r \notin connected
    /\ connected' = connected \cup {r}
    /\ UNCHANGED <<up, busy, reqs, appVars, devVars, history>>

\* The instrument has an answer ready.
Emit(r) ==
    /\ owed[r] # <<>>
    /\ ready' = [ready EXCEPT ![r] = @ \o BytesOf(r, Head(owed[r]))]
    /\ owed' = [owed EXCEPT ![r] = Tail(@)]
    /\ ungiven' = [ungiven EXCEPT ![r] = @ \o BytesOf(r, Head(owed[r]))]
    /\ UNCHANGED <<serverVars, reqs, appVars, taken>>

-----------------------------------------------------------------------------
Serve(q) ==
    \/ Accept(q) \/ ServerOnSend(q) \/ ServerOnRecv(q) \/ ServerBlocks(q)
    \/ ServerUnblocks(q) \/ ServerOnGetOption(q) \/ ServerIgnores(q)

ClientEvent(q) == ClientSends(q) \/ OnReply(q) \/ Overrun(q) \/ OnOptionReply(q)

Next ==
    \/ \E a \in Apps : RunReturns(a) \/ \E kind \in Kinds : Start(a, kind)
    \/ \E q \in reqs : ClientEvent(q) \/ Timeout(q) \/ Serve(q) \/ Drop(q) \/ ServerTimeout(q)
    \/ ServerGone \/ ServerStart
    \/ \E r \in Resources : Reconnect(r) \/ Emit(r)

Spec == Init /\ [][Next]_vars

\* The event loops run, and instruments answer in the end.  asio runs ready
\* handlers first come first served: a blocked thread delays one, but never
\* passes it over for ever.
Fairness ==
    /\ \A s \in Slots : SF_vars(\E q \in reqs : q.slot = s /\ Serve(q))
    /\ \A s \in Slots : WF_vars(\E q \in reqs : q.slot = s /\ ClientEvent(q))
    /\ \A a \in Apps : WF_vars(RunReturns(a))
    /\ \A r \in Resources : WF_vars(Emit(r))

FairSpec == Spec /\ Fairness

-----------------------------------------------------------------------------
(* Properties.                                                             *)

TypeOK ==
    /\ up \in BOOLEAN /\ connected \subseteq Resources /\ busy \subseteq Slots
    /\ reqs \subseteq Request /\ \A q, p \in reqs : q.slot = p.slot => q = p
    /\ pc \in [Apps -> Calls \cup {"idle", "dead"}]
    /\ conn \in [Apps -> BOOLEAN] /\ warm \in [Apps -> BOOLEAN]
    /\ last \in [Apps -> Result]
    /\ writes \in [Apps -> 0 .. WriteMod - 1]
    /\ owed \in [Resources -> Seq(Answers)] /\ ready \in [Resources -> Seq(Bytes)]
    /\ taken \in [Apps -> Nat] /\ ungiven \in [Resources -> Seq(Bytes)]

(* A viWrite that reports a count was taken by its instrument exactly once *)
(* and no write is ever taken twice, also when servers end and handshakes  *)
(* time out.                                                               *)
WriteOnce ==
    \A a \in Apps :
        /\ taken[a] <= 1
        /\ pc[a] = "idle" /\ last[a].call = "write" /\ last[a].ret = "count" => taken[a] = 1

(* On a USBTMC instrument nobody else uses, the data of a viRead answers   *)
(* the application's last viWrite once the instrument has taken that one:  *)
(* a read never overtakes the write, and no older answer comes back.  It   *)
(* is the whole of that answer, or, of one longer than a transfer, what    *)
(* full transfers have left that a failed viRead lost.                     *)
ReadAnswersWrite ==
    \A a \in Apps :
        Exclusive(a) /\ SessOf[a] \notin Blocking /\ pc[a] = "idle"
            /\ last[a].call = "read" /\ last[a].ret = "count" /\ taken[a] = 1 =>
        last[a].data \in Rests(BytesOf(SessOf[a], [app |-> a, no |-> writes[a]])) \ {<<>>}

(* The bytes of a stream nobody else reads come to its viReads in order,   *)
(* none twice and none left out, however answers and the server's buffer   *)
(* cut them, as long as no read is given up and no server ends.            *)
StreamInOrder ==
    ~Timeouts /\ ~ServerEnds =>
        \A a \in Apps : Exclusive(a) /\ SessOf[a] \in Blocking =>
            \/ ungiven[SessOf[a]] = ready[SessOf[a]]
            \/ \E q \in reqs : /\ q.app = a /\ q.kind = "read" /\ q.stage = "replied"
                              /\ ungiven[SessOf[a]] = q.data \o ready[SessOf[a]]

(* The routes of VisaWsServer.hpp are answered: a viRead or viWrite on a   *)
(* session whose connection the server has is not left without a reply.    *)
RoutesAnswered ==
    [][\A q \in reqs : q.kind \in {"read", "write"} /\ q.stage \in {"opened", "message"}
          /\ SessOf[q.app] \in connected =>
          \A p \in reqs' : p.slot = q.slot => p.stage # "unanswered"]_vars

(* Every viWrite and viRead returns, or ends its process, when digests are *)
(* long enough, answers are only read when due, and instruments are not    *)
(* shared.                                                                 *)
IoReturns ==
    \A a \in Apps : [](pc[a] \in {"write", "read"} => <>(pc[a] \in {"idle", "dead"}))
=============================================================================
