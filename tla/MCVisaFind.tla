----------------------------- MODULE MCVisaFind -----------------------------
(* A small instance of VisaFind.  Of the USB devices, x and y differ in     *)
(* their serial numbers, s has none and x may fail to give its own: both    *)
(* may be listed under that of y.  The server may not open r.  c is a       *)
(* serial port of the board.  UsbURL has room for two names.                *)
EXTENDS VisaFind

CONSTANTS x, y, s, r, l, c, scope

MCUsb == {x, y, s, r}
MCModel == [d \in MCUsb |-> scope]
MCSerial == [d \in MCUsb |-> CASE d = x -> <<"1", "7">>
                               [] d = y -> <<"2", "7">>
                               [] d = s -> <<>>
                               [] d = r -> <<"3", "7">>]
\* The only USBTMC interface of s has the number 1 and the first place.
MCInterfaces == [d \in MCUsb |-> CASE d = y -> <<0, 1>> [] d = s -> <<1>> [] OTHER -> <<0>>]
MCPlaces     == [d \in MCUsb |-> IF d = y THEN {0, 1} ELSE {0}]
MCTty == [d \in {c} |-> <<"ttyO", 1>>]
MCDriver == [d \in {c} |-> "other"]
MCPatterns == {
    [wellFormed |-> TRUE, finders |-> {"lan", "usb"}, names |-> {"lan", "usb"}],  \* (TCPIP|USB).*
    [wellFormed |-> TRUE, finders |-> Buses, names |-> {}],                       \* the empty one
    [wellFormed |-> FALSE, finders |-> {}, names |-> {}]}                         \* ?*INSTR
MCJunk == {<<"2">>}
=============================================================================
