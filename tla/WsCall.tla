------------------------------- MODULE WsCall -------------------------------
(* What one call of an application may rely on from the websocket it opens *)
(* for itself: the contract between the session and I/O protocols          *)
(* (VisaSessions, VisaIo) and the library below them (Websocket).          *)
(*                                                                         *)
(* The request is on its way ("sent"); the server answers the handshake    *)
(* ("opened") and runs its handler, once ("served"), at once or when a     *)
(* payload of the client has come ("message"); it may have an answer to    *)
(* give ("replied").  Either side may give up on the way.                  *)
(***************************************************************************)

VARIABLES
    route,    \* "connect", "send", "disconnect" or "refused": see Websocket
    stage,    \* how far the server's side has come
    outcome   \* "waiting", or what the call of the application came to

vars == <<route, stage, outcome>>

Waiting == outcome = "waiting"

Init ==
    /\ route \in {"connect", "send", "disconnect", "refused"}
    /\ stage = "sent" /\ outcome = "waiting"

\* The server answers the handshake; a request it cannot read it refuses.
Answer ==
    /\ stage = "sent" /\ route # "refused"
    /\ stage' = "opened"
    /\ UNCHANGED outcome

\* The client sees the answer: viWrite sends its payload, once ...
Speak ==
    /\ route = "send" /\ stage = "opened" /\ Waiting
    /\ stage' = "message"
    /\ UNCHANGED outcome

\* ... and viClose does not wait for anything else.
Leave ==
    /\ route = "disconnect" /\ stage # "sent" /\ Waiting
    /\ outcome' = "left"
    /\ UNCHANGED stage

\* The server's own handler runs.
Serve ==
    /\ stage = IF route = "send" THEN "message" ELSE "opened"
    /\ stage' = "served"
    /\ UNCHANGED outcome

Reply ==
    /\ route # "disconnect" /\ stage = "served"
    /\ stage' = "replied"
    /\ UNCHANGED outcome

Finish ==
    /\ stage = "replied" /\ Waiting
    /\ outcome' = "answered"
    /\ UNCHANGED stage

\* The client's time is up.  Not so once its payload is out: then its timer has
\* been disarmed, and only the end of the server's side ends its waiting.
GiveUp ==
    /\ Waiting
    /\ route = "send" => stage \in {"sent", "opened", "ended"}
    /\ outcome' = "failed"
    /\ UNCHANGED stage

\* The Session or the process of the application has gone.
Vanish ==
    /\ outcome \in {"waiting", "failed"}
    /\ outcome' = "gone"
    /\ UNCHANGED stage

\* The server's side is over before its handler has run, or before the answer
\* was out: its time was up, its process has ended, or the client has gone.
End ==
    /\ stage \in {"sent", "opened", "message", "served"}
    /\ stage' = "ended"
    /\ UNCHANGED outcome

Next ==
    /\ Answer \/ Speak \/ Leave \/ Serve \/ Reply \/ Finish \/ GiveUp \/ Vanish \/ End
    /\ UNCHANGED route

Spec == Init /\ [][Next]_vars
=============================================================================
