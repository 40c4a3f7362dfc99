----------------------------- MODULE MCWebsocket -----------------------------
(* One websocket of any route.                                             *)
EXTENDS Websocket
=============================================================================
