------------------------------ MODULE MCVisaIo ------------------------------
(* Small instances of VisaIo: applications with a USBTMC and a TCP session *)
(* of their own.                                                           *)
EXTENDS VisaIo

CONSTANTS a1, a2, usb1, tcp1

MCSessOf == [a \in Apps |-> IF a = a1 THEN usb1 ELSE tcp1]
\* Digests of two bytes: with two digits each, and with a byte below 16.
MCDigest      == [r \in Resources |-> <<169, 16>>]
MCShortDigest == [r \in Resources |-> <<169, 15>>]
\* A read() of the TCP port waits for two bytes, and an answer on TCP and the
\* buffer of the server have three; an answer on USB has one transfer and one byte.
MCAtLeast    == [r \in Resources |-> 2]
MCAnswerSize == [r \in Resources |-> IF r = tcp1 THEN 3 ELSE Cap + 1]
\* The buffer of a2 is as long as the server's, that of a1 is shorter.
MCRoom       == [a \in Apps |-> IF a = a2 THEN 3 ELSE 1]
=============================================================================
