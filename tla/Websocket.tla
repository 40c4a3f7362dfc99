------------------------------ MODULE Websocket ------------------------------
(* The life of one websocket of avisa, as websocketpp and its asio         *)
(* transport make it: the connection object of the client in the WsClient  *)
(* of a Session, that of the server in m_server, and the TCP connection    *)
(* between them.  The handlers of VisaWsServer and Session are what avisa  *)
(* plugs in; here they only send, stop the client's loop, or do nothing.   *)
(*                                                                         *)
(* Every opening step of the client (resolve, connect, handshake) and the  *)
(* handshake of the server has a timer of 5 seconds.  cancel() takes back  *)
(* a timer that has not expired; one whose handler is already in the queue *)
(* of the io_service ("due") runs all the same, before anything that is    *)
(* posted later.  Nothing limits the time of an open websocket, and avisa  *)
(* closes none: it ends with a process, with the Session, or by a timer.   *)
(* What was sent before an end or a reset can still be read, as on Linux.  *)
(***************************************************************************)
EXTENDS Naturals, Sequences, SequencesExt

CONSTANTS
    Routes,      \* what the websockets are for, see below
    ProcsEnd     \* TRUE: either process may end, or the Session be destroyed

(* "connect"     the server speaks in on_open: connect, recv, get_option,  *)
(*               availableDevs                                             *)
(* "send"        the client speaks in on_open, the server in on_message    *)
(* "disconnect"  on_open of the client stops its loop, nobody speaks       *)
(* "refused"     a resource string that is no part of an HTTP request line *)
ASSUME RoutesAssumption ==
    /\ Routes \subseteq {"connect", "send", "disconnect", "refused"}
    /\ ProcsEnd \in BOOLEAN

VARIABLES
    route,   \* the route of this websocket
    linked,  \* the TCP connection is established (by the server's kernel)
    state,   \* m_state of each connection object
    at,      \* m_internal_state, or the step of the transport before it
    timer,   \* the timer of that step
    wire,    \* what has come for each side and is not read
    posted,  \* the sides that have a write_frame of a message in the queue
    loop,    \* client.run() is running
    seen     \* history: what the handlers of each side have been told

vars == <<route, linked, state, at, timer, wire, posted, loop, seen>>

Ends    == {"client", "server"}
Peer(e) == IF e = "client" THEN "server" ELSE "client"

Init ==
    /\ route \in Routes
    /\ linked = FALSE
    /\ state  = [client |-> "connecting", server |-> "absent"]
    /\ at     = [client |-> "resolve", server |-> "accept"]
    /\ timer  = [client |-> "armed", server |-> "off"]
    /\ wire   = [e \in Ends |-> <<>>]
    /\ posted = {}
    /\ loop   = TRUE
    /\ seen   = [e \in Ends |-> <<>>]

\* e's thread is in run() and can take the next handler of its queue.
Runs(e) == IF e = "client" THEN loop ELSE TRUE

\* A step of the opening phase of e.
In(e, step) == Runs(e) /\ state[e] = "connecting" /\ at[e] = step

Has(e, item)  == Contains(wire[e], item)
Told(e, what) == Contains(seen[e], what)
Put(e, item)  == [wire EXCEPT ![e] = Append(@, item)]

\* What timer->cancel() leaves of the timer of e.
Cancelled(e) == IF timer[e] = "armed" THEN "off" ELSE timer[e]

\* Mutant: whoever calls it, the handlers and the socket are served again.
Terminate_Twice(e, t) ==
    /\ timer' = [timer EXCEPT ![e] = t]
    /\ state' = [state EXCEPT ![e] = "closed"]
    /\ seen' = [seen EXCEPT ![e] = Append(@, IF state[e] = "connecting" THEN "fail" ELSE "close")]
    /\ wire' = IF linked THEN Put(Peer(e), "eof") ELSE wire
    /\ UNCHANGED <<route, linked, at, posted, loop>>

\* Mutant: the socket is not shut down.
Terminate_KeepsSocket(e, t) ==
    /\ timer' = [timer EXCEPT ![e] = t]
    /\ IF state[e] = "closed" THEN UNCHANGED <<state, seen>>
       ELSE /\ state' = [state EXCEPT ![e] = "closed"]
            /\ seen' = [seen EXCEPT ![e] =
                           Append(@, IF state[e] = "connecting" THEN "fail" ELSE "close")]
    /\ UNCHANGED <<route, linked, at, wire, posted, loop>>

\* connection::terminate: on_fail or on_close, once, and a shutdown of the
\* socket; t is what becomes of the timer.
Terminate(e, t) ==
    /\ timer' = [timer EXCEPT ![e] = t]
    /\ IF state[e] = "closed" THEN UNCHANGED <<state, wire, seen>>
       ELSE /\ state' = [state EXCEPT ![e] = "closed"]
            /\ seen' = [seen EXCEPT ![e] =
                           Append(@, IF state[e] = "connecting" THEN "fail" ELSE "close")]
            /\ wire' = IF linked THEN Put(Peer(e), "eof") ELSE wire
    /\ UNCHANGED <<route, linked, at, posted, loop>>

-----------------------------------------------------------------------------
(* Timers.                                                                 *)

\* Five seconds are over and the handler of the timer is in the queue.
Expire(e) ==
    /\ timer[e] = "armed"
    /\ timer' = [timer EXCEPT ![e] = "due"]
    /\ UNCHANGED <<route, linked, state, at, wire, posted, loop, seen>>

\* handle_open_handshake_timeout, handle_connect_timeout, handle_resolve_timeout
TimerFires(e) == Runs(e) /\ timer[e] = "due" /\ Terminate(e, "off")

-----------------------------------------------------------------------------
(* The client opens.                                                       *)

\* The transport's own timers are looked at again when the result is there: a
\* result that comes late is left to the handler of the timer.
InTime == timer["client"] = "armed"

HandleResolve ==
    /\ In("client", "resolve") /\ InTime
    /\ at' = [at EXCEPT !.client = "connect"]
    /\ timer' = [timer EXCEPT !.client = "armed"]
    /\ UNCHANGED <<route, linked, state, wire, posted, loop, seen>>

\* The kernels have made the TCP connection; the server need not know yet.
Establish ==
    /\ state["client"] = "connecting" /\ at["client"] = "connect" /\ ~linked
    /\ state["server"] = "absent"
    /\ linked' = TRUE
    /\ UNCHANGED <<route, state, at, timer, wire, posted, loop, seen>>

\* No such host, or nobody listens.
ConnectFails ==
    /\ In("client", "resolve") \/ (In("client", "connect") /\ ~linked)
    /\ InTime
    /\ Terminate("client", "off")

\* handle_connect, start, send_http_request: the request goes out.
HandleConnect ==
    /\ In("client", "connect") /\ InTime /\ linked
    /\ at' = [at EXCEPT !.client = "write_request"]
    /\ timer' = [timer EXCEPT !.client = "armed"]
    /\ wire' = Put("server", "request")
    /\ UNCHANGED <<route, linked, state, posted, loop, seen>>

HandleSendRequest ==
    /\ In("client", "write_request")
    /\ at' = [at EXCEPT !.client = "read_response"]
    /\ UNCHANGED <<route, linked, state, timer, wire, posted, loop, seen>>

\* handle_read_http_response of an answer, up to on_open and the bytes behind
\* the answer that came with it.
ClientOpens(more) ==
    /\ In("client", "read_response")
    /\ wire["client"] # <<>> /\ Head(wire["client"]) = "response"
    /\ more <=> Len(wire["client"]) > 1 /\ wire["client"][2] = "data"
    /\ timer' = [timer EXCEPT !.client = Cancelled("client")]
    /\ state' = [state EXCEPT !.client = "open"]
    /\ at' = [at EXCEPT !.client = "frames"]
    /\ \E n \in IF more THEN {1, 2} ELSE {1} :
         /\ wire' = [wire EXCEPT !.client = SubSeq(@, n + 1, Len(@))]
         /\ seen' = [seen EXCEPT !.client = @ \o SubSeq(<<"open", "message">>, 1, n)]
         /\ loop' = (route # "disconnect" /\ n = 1)
    /\ posted' = IF route = "send" THEN posted \cup {"client"} ELSE posted
    /\ UNCHANGED <<route, linked>>

\* The answer is a refusal, or the end of the connection.
ClientRefused ==
    /\ In("client", "read_response")
    /\ wire["client"] # <<>> /\ Head(wire["client"]) \in {"refusal", "eof"}
    /\ Terminate("client", Cancelled("client"))

-----------------------------------------------------------------------------
(* The server opens.                                                       *)

\* Mutant: read_handshake starts no timer.
HandleAccept_NoTimer ==
    /\ linked /\ at["server"] = "accept" /\ state["server"] = "absent"
    /\ state' = [state EXCEPT !.server = "connecting"]
    /\ at' = [at EXCEPT !.server = "read_request"]
    /\ UNCHANGED <<route, linked, timer, wire, posted, loop, seen>>

\* handle_accept, start, read_handshake, and the accept for the next one.
HandleAccept ==
    /\ linked /\ at["server"] = "accept" /\ state["server"] = "absent"
    /\ state' = [state EXCEPT !.server = "connecting"]
    /\ at' = [at EXCEPT !.server = "read_request"]
    /\ timer' = [timer EXCEPT !.server = "armed"]
    /\ UNCHANGED <<route, linked, wire, posted, loop, seen>>

\* handle_read_handshake and write_http_response: the answer goes out before
\* the server is open itself.
HandleReadHandshake ==
    /\ In("server", "read_request")
    /\ wire["server"] # <<>> /\ Head(wire["server"]) = "request"
    /\ at' = [at EXCEPT !.server = "process_request"]
    /\ wire' = [client |-> Append(wire["client"], IF route = "refused" THEN "refusal" ELSE "response"),
                server |-> Tail(wire["server"])]
    /\ UNCHANGED <<route, linked, state, timer, posted, loop, seen>>

HandshakeEof ==
    /\ In("server", "read_request")
    /\ wire["server"] # <<>> /\ Head(wire["server"]) = "eof"
    /\ Terminate("server", Cancelled("server"))

\* Mutant: a connection the timer has closed in the meantime is opened again.
HandleWriteResponse_Closed ==
    /\ state["server"] \in {"connecting", "closed"} /\ at["server"] = "process_request"
    /\ route # "refused"
    /\ timer' = [timer EXCEPT !.server = Cancelled("server")]
    /\ state' = [state EXCEPT !.server = "open"]
    /\ at' = [at EXCEPT !.server = "frames"]
    /\ seen' = [seen EXCEPT !.server = Append(@, "open")]
    /\ posted' \in {posted, IF route = "connect" THEN posted \cup {"server"} ELSE posted}
    /\ UNCHANGED <<route, linked, wire, loop>>

\* handle_write_http_response: open, and on_open of the server runs; it may
\* have something to send.
HandleWriteResponse ==
    /\ In("server", "process_request") /\ route # "refused"
    /\ timer' = [timer EXCEPT !.server = Cancelled("server")]
    /\ state' = [state EXCEPT !.server = "open"]
    /\ at' = [at EXCEPT !.server = "frames"]
    /\ seen' = [seen EXCEPT !.server = Append(@, "open")]
    /\ posted' \in {posted, IF route = "connect" THEN posted \cup {"server"} ELSE posted}
    /\ UNCHANGED <<route, linked, wire, loop>>

\* The refusal is out, or the answer could not be written to a peer that is gone.
WriteResponseFails ==
    /\ In("server", "process_request")
    /\ route = "refused" \/ Has("server", "eof")
    /\ Terminate("server", Cancelled("server"))

-----------------------------------------------------------------------------
(* Both are open.                                                          *)

\* write_frame is behind a timer that is due; on a connection that is shut
\* down it writes nothing.
WriteFrame(e) ==
    /\ Runs(e) /\ e \in posted /\ timer[e] # "due"
    /\ posted' = posted \ {e}
    /\ wire' = IF state[e] = "open" THEN Put(Peer(e), "data") ELSE wire
    /\ UNCHANGED <<route, linked, state, at, timer, loop, seen>>

\* Mutant: the bytes that have been handled are looked at again.
HandleReadFrame_Again(e) ==
    /\ Runs(e) /\ state[e] = "open" /\ timer[e] # "due"
    /\ wire[e] # <<>> /\ Head(wire[e]) = "data"
    /\ seen' = [seen EXCEPT ![e] = Append(@, "message")]
    /\ IF e = "client" THEN loop' = FALSE /\ UNCHANGED posted
       ELSE UNCHANGED loop /\ posted' \in {posted, posted \cup {"server"}}
    /\ UNCHANGED <<route, linked, state, at, timer, wire>>

\* handle_read_frame of a message: on_message stops the client's loop; that of
\* the server may answer.
HandleReadFrame(e) ==
    /\ Runs(e) /\ state[e] = "open" /\ timer[e] # "due"
    /\ wire[e] # <<>> /\ Head(wire[e]) = "data"
    /\ wire' = [wire EXCEPT ![e] = Tail(@)]
    /\ seen' = [seen EXCEPT ![e] = Append(@, "message")]
    /\ IF e = "client" THEN loop' = FALSE /\ UNCHANGED posted
       ELSE UNCHANGED loop /\ posted' \in {posted, posted \cup {"server"}}
    /\ UNCHANGED <<route, linked, state, at, timer>>

\* End of file or a reset.
ReadFrameEof(e) ==
    /\ Runs(e) /\ state[e] = "open" /\ timer[e] # "due"
    /\ wire[e] # <<>> /\ Head(wire[e]) = "eof"
    /\ Terminate(e, timer[e])

-----------------------------------------------------------------------------
(* Processes, and the loop of the client.                                  *)

\* The Session is destroyed or its process ends; the server's process ends.
\* No handler runs any more, the kernel closes the socket.
Gone(e) ==
    /\ ProcsEnd /\ state[e] # "gone"
    /\ state' = [state EXCEPT ![e] = "gone"]
    /\ timer' = [timer EXCEPT ![e] = "off"]
    /\ posted' = posted \ {e}
    /\ wire' = IF linked /\ state[e] # "closed" THEN Put(Peer(e), "eof") ELSE wire
    /\ UNCHANGED <<route, linked, at, loop, seen>>

\* Another call on the same WsClient: reset() and run().
RunAgain ==
    /\ ~loop /\ loop' = TRUE
    /\ UNCHANGED <<route, linked, state, at, timer, wire, posted, seen>>

ClientHandler ==
    \/ TimerFires("client") \/ HandleResolve \/ HandleConnect \/ HandleSendRequest
    \/ \E more \in BOOLEAN : ClientOpens(more)
    \/ ClientRefused \/ WriteFrame("client") \/ HandleReadFrame("client")
    \/ ReadFrameEof("client")

ServerHandler ==
    \/ TimerFires("server") \/ HandleAccept \/ HandleReadHandshake \/ HandshakeEof
    \/ HandleWriteResponse \/ WriteResponseFails \/ WriteFrame("server")
    \/ HandleReadFrame("server") \/ ReadFrameEof("server")

Next ==
    \/ ClientHandler \/ ServerHandler
    \/ Establish \/ ConnectFails \/ RunAgain
    \/ \E e \in Ends : Expire(e) \/ Gone(e)

Spec == Init /\ [][Next]_vars

\* Time passes for a side and its thread takes handlers, that of the client while
\* it is in run().  The other side may be anywhere: the server's thread blocks in
\* ports, a client may be stopped or out of reach.
Fair(e) ==
    /\ WF_vars(Expire(e))
    /\ WF_vars(IF e = "client" THEN ClientHandler ELSE ServerHandler)

-----------------------------------------------------------------------------
(* Properties.                                                             *)

Steps == [client |-> {"resolve", "connect", "write_request", "read_response", "frames"},
          server |-> {"accept", "read_request", "process_request", "frames"}]

TypeOK ==
    /\ route \in Routes /\ linked \in BOOLEAN /\ loop \in BOOLEAN
    /\ posted \subseteq Ends
    /\ \A e \in Ends :
         /\ state[e] \in {"absent", "connecting", "open", "closed", "gone"}
         /\ at[e] \in Steps[e]
         /\ timer[e] \in {"off", "armed", "due"}
         /\ wire[e] \in Seq({"request", "response", "refusal", "data", "eof"})
         /\ Len(wire[e]) <= 3
         /\ seen[e] \in Seq({"open", "message", "close", "fail"})

(* What either side is told (on_open, on_message, on_close, on_fail): one  *)
(* open before any message, nothing behind the close, a fail alone.        *)
HandlersInOrder ==
    \A e \in Ends :
        seen[e] \in {<<>>, <<"fail">>, <<"open">>, <<"open", "message">>,
                    <<"open", "close">>, <<"open", "message", "close">>}

\* The server's handler of the route has run.
Handled == Told("server", IF route = "send" THEN "message" ELSE "open")

\* How far the server's side of the call has come.
Stage ==
    IF Has("client", "data") \/ Told("client", "message") THEN "replied"
    ELSE IF state["server"] \in {"closed", "gone"} THEN "ended"
    ELSE IF Handled THEN "served"
    ELSE IF Has("server", "data") THEN "message"
    ELSE IF at["server"] \in {"process_request", "frames"} /\ route # "refused" THEN "opened"
    ELSE "sent"

\* What the call of the application has come to.
Outcome ==
    IF Told("client", "message") THEN "answered"
    ELSE IF route = "disconnect" /\ Told("client", "open") THEN "left"
    ELSE CASE state["client"] = "gone"   -> "gone"
           [] state["client"] = "closed" -> "failed"
           [] OTHER                      -> "waiting"

Call == INSTANCE WsCall WITH stage <- Stage, outcome <- Outcome

(* The websocket gives a call what WsCall says, and VisaSessions and       *)
(* VisaIo rely on: the server's handler runs at most once and only before  *)
(* the end, a payload that is out is not given up by a timer, a viClose    *)
(* that has seen the answer may still be dropped by the server.            *)
ImplementsCall == Call!Spec

(* No call is in its opening phase for ever, whatever the server does: the *)
(* three timers of the client see to that.  Nor is a connection of the     *)
(* server, whatever the client does, as long as its thread comes back from *)
(* the ports.                                                              *)
HandshakesEnd ==
    \A e \in Ends : Fair(e) => (state[e] = "connecting" ~> state[e] # "connecting")

(* When the server's side is over, the client's run() notices: a call that *)
(* waits for an answer that will not come returns (RunReturns).            *)
EndIsNoticed ==
    Fair("client") =>
        (state["server"] \in {"closed", "gone"} /\ linked
            ~> state["client"] \in {"closed", "gone"} \/ ~loop)
=============================================================================
