--------------------------- MODULE WebsocketProofs ---------------------------
(* Proofs about Websocket: what its handlers are told, what is on the wire, *)
(* and that a websocket implements WsCall, for any set of routes.           *)
EXTENDS Websocket, SequenceTheorems, TLAPS

-----------------------------------------------------------------------------
(* The inductive invariant.                                                *)

\* What the handlers of a side have been told, by its step and its state.
Tellings(step, st) ==
    IF step = "frames"
    THEN CASE st = "open"   -> {<<"open">>, <<"open", "message">>}
           [] st = "closed" -> {<<"open", "close">>, <<"open", "message", "close">>}
           [] st = "gone"   -> {<<"open">>, <<"open", "message">>,
                                <<"open", "close">>, <<"open", "message", "close">>}
           [] OTHER         -> {}
    ELSE CASE st = "closed" -> {<<"fail">>}
           [] st = "gone"   -> {<<>>, <<"fail">>}
           [] st = "open"   -> {}
           [] OTHER         -> {<<>>}

\* The request, or the answer to it, comes first; a message and the end follow.
Behind(first) ==
    {<<first>>, <<first, "data">>, <<first, "eof">>, <<first, "data", "eof">>}
Rest == {<<>>, <<"data">>, <<"eof">>, <<"data", "eof">>}

Unanswered == at["server"] \in {"accept", "read_request"}

ServerWire ==
    IF at["client"] \in {"resolve", "connect"} THEN {<<>>, <<"eof">>}
    ELSE IF Unanswered THEN {<<"request">>, <<"request", "eof">>}
    ELSE IF at["client"] = "frames" THEN Rest ELSE {<<>>, <<"eof">>}

ClientWire ==
    IF at["client"] = "frames" THEN Rest
    ELSE IF Unanswered THEN {<<>>, <<"eof">>}
    ELSE IF route = "refused" THEN {<<"refusal">>, <<"refusal", "eof">>}
    ELSE Behind("response")

\* The steps of the two sides fit together and to the states.
StepsFit ==
    /\ state["server"] \in {"connecting", "open", "closed"} => linked
    /\ state["server"] = "absent" => at["server"] = "accept"
    /\ state["server"] = "connecting" => at["server"] \in {"read_request", "process_request"}
    /\ state["client"] # "absent"
    /\ at["server"] # "accept" \/ at["client"] \notin {"resolve", "connect"} => linked
    /\ at["server"] = "accept" => state["server"] \in {"absent", "gone"}
    /\ linked => at["client"] # "resolve"
    /\ ~Unanswered => at["client"] \notin {"resolve", "connect"}
    /\ at["client"] = "frames" => ~Unanswered
    /\ route = "refused" => at["client"] # "frames" /\ at["server"] # "frames"

\* Each side is told what it may be, and the wires hold what was sent and not read.
WiresFit ==
    /\ \A e \in Ends : seen[e] \in Tellings(at[e], state[e])
    /\ wire["server"] \in ServerWire /\ wire["client"] \in ClientWire
    /\ \A e \in Ends : Has(e, "eof") <=> linked /\ state[Peer(e)] \in {"closed", "gone"}

\* A message is written once, at the time the route has one.
MessagesFit ==
    /\ "client" \in posted => route = "send" /\ at["client"] = "frames"
    /\ Has("server", "data") \/ Told("server", "message") =>
           route = "send" /\ at["client"] = "frames" /\ "client" \notin posted
    /\ ~(Has("server", "data") /\ Told("server", "message"))
    /\ "server" \in posted => route \in {"connect", "send"} /\ Handled
    /\ Has("client", "data") \/ Told("client", "message") =>
           route \in {"connect", "send"} /\ Handled /\ "server" \notin posted
    /\ ~(Has("client", "data") /\ Told("client", "message"))

\* No timer is left to a side that is not there, and that of the client is over
\* before its payload is out.
TimersFit ==
    /\ \A e \in Ends : state[e] \in {"absent", "gone"} => timer[e] = "off"
    /\ at["client"] = "frames" =>
           /\ timer["client"] # "armed"
           /\ timer["client"] = "due" /\ route = "send" => "client" \in posted

Items == {"request", "response", "refusal", "data", "eof"}
Words == {"open", "message", "close", "fail"}

\* The types, without the bound on the wire that follows from the rest.
Types ==
    /\ route \in Routes /\ linked \in BOOLEAN /\ loop \in BOOLEAN
    /\ posted \subseteq Ends
    /\ state \in [Ends -> {"absent", "connecting", "open", "closed", "gone"}]
    /\ at \in [Ends -> Steps["client"] \cup Steps["server"]]
    /\ \A e \in Ends : at[e] \in Steps[e]
    /\ timer \in [Ends -> {"off", "armed", "due"}]
    /\ wire \in [Ends -> Seq(Items)]
    /\ seen \in [Ends -> Seq(Words)]

Inv == Types /\ StepsFit /\ WiresFit /\ MessagesFit /\ TimersFit

-----------------------------------------------------------------------------
(* Short sequences.                                                        *)

LEMMA AppendShort ==
    ASSUME NEW a, NEW b, NEW x
    PROVE  /\ Append(<<>>, x) = <<x>>
           /\ Append(<<a>>, x) = <<a, x>>
           /\ Append(<<a, b>>, x) = <<a, b, x>>
  <1> DEFINE S == {a, b, x}
  <1>1. Append(<<>>, x) = <<x>>
    OBVIOUS
  <1>2. Append(<<a>>, x) = <<a, x>>
    <2>1. <<a>> \in Seq(S) /\ <<a, x>> \in Seq(S) /\ x \in S
      OBVIOUS
    <2>2. Len(<<a, x>>) = 2 /\ <<a, x>>[1] = a /\ <<a, x>>[2] = x /\ Len(<<a>>) = 1 /\ <<a>>[1] = a
      OBVIOUS
    <2> HIDE DEF S
    <2>3. /\ Append(<<a>>, x) \in Seq(S) /\ Len(Append(<<a>>, x)) = 2
          /\ Append(<<a>>, x)[1] = a /\ Append(<<a>>, x)[2] = x
      BY <2>1, <2>2, AppendProperties
    <2>4. \A i \in 1 .. 2 : Append(<<a>>, x)[i] = <<a, x>>[i]
      BY <2>2, <2>3
    <2> QED  BY <2>1, <2>2, <2>3, <2>4, SeqEqual
  <1>3. Append(<<a, b>>, x) = <<a, b, x>>
    <2>1. <<a, b>> \in Seq(S) /\ <<a, b, x>> \in Seq(S) /\ x \in S
      OBVIOUS
    <2>2. /\ Len(<<a, b, x>>) = 3 /\ Len(<<a, b>>) = 2
          /\ <<a, b, x>>[1] = a /\ <<a, b, x>>[2] = b /\ <<a, b, x>>[3] = x
          /\ <<a, b>>[1] = a /\ <<a, b>>[2] = b
      OBVIOUS
    <2> HIDE DEF S
    <2>3. /\ Append(<<a, b>>, x) \in Seq(S) /\ Len(Append(<<a, b>>, x)) = 3
          /\ Append(<<a, b>>, x)[1] = a /\ Append(<<a, b>>, x)[2] = b /\ Append(<<a, b>>, x)[3] = x
      BY <2>1, <2>2, AppendProperties
    <2>4. \A i \in 1 .. 3 : Append(<<a, b>>, x)[i] = <<a, b, x>>[i]
      BY <2>2, <2>3
    <2> QED  BY <2>1, <2>2, <2>3, <2>4, SeqEqual
  <1> QED  BY <1>1, <1>2, <1>3

LEMMA HeadTailShort ==
    /\ \A a : Head(<<a>>) = a /\ Tail(<<a>>) = <<>>
    /\ \A a, b : Head(<<a, b>>) = a /\ Tail(<<a, b>>) = <<b>>
    /\ \A a, b, c : Head(<<a, b, c>>) = a /\ Tail(<<a, b, c>>) = <<b, c>>
  OBVIOUS

LEMMA ContainsShort ==
    ASSUME NEW x
    PROVE  /\ ~Contains(<<>>, x)
           /\ \A a : Contains(<<a>>, x) <=> x = a
           /\ \A a, b : Contains(<<a, b>>, x) <=> x \in {a, b}
           /\ \A a, b, c : Contains(<<a, b, c>>, x) <=> x \in {a, b, c}
  <1>1. ~Contains(<<>>, x)
    BY DEF Contains
  <1>2. ASSUME NEW a
        PROVE  Contains(<<a>>, x) <=> x = a
    <2>1. Len(<<a>>) = 1 /\ <<a>>[1] = a
      OBVIOUS
    <2> QED  BY <2>1 DEF Contains
  <1>3. ASSUME NEW a, NEW b
        PROVE  Contains(<<a, b>>, x) <=> x \in {a, b}
    <2>1. Len(<<a, b>>) = 2 /\ <<a, b>>[1] = a /\ <<a, b>>[2] = b
      OBVIOUS
    <2>2. 1 .. 2 = {1, 2}
      OBVIOUS
    <2> QED  BY <2>1, <2>2 DEF Contains
  <1>4. ASSUME NEW a, NEW b, NEW c
        PROVE  Contains(<<a, b, c>>, x) <=> x \in {a, b, c}
    <2>1. Len(<<a, b, c>>) = 3 /\ <<a, b, c>>[1] = a /\ <<a, b, c>>[2] = b /\ <<a, b, c>>[3] = c
      OBVIOUS
    <2>2. 1 .. 3 = {1, 2, 3}
      OBVIOUS
    <2> QED  BY <2>1, <2>2 DEF Contains
  <1> QED  BY <1>1, <1>2, <1>3, <1>4

LEMMA AppendContains ==
    ASSUME NEW S, NEW s \in Seq(S), NEW x \in S
    PROVE  /\ Append(s, x) \in Seq(S) /\ Contains(Append(s, x), x)
           /\ \A y : y # x => (Contains(Append(s, x), y) <=> Contains(s, y))
  <1>1. /\ Len(Append(s, x)) = Len(s) + 1 /\ Len(s) \in Nat
        /\ \A i \in 1 .. Len(s) : Append(s, x)[i] = s[i]
        /\ Append(s, x)[Len(s) + 1] = x
    OBVIOUS
  <1>2. 1 .. Len(s) + 1 = (1 .. Len(s)) \cup {Len(s) + 1}
    BY <1>1
  <1> QED  BY <1>1, <1>2 DEF Contains

LEMMA SubSeqShort ==
    ASSUME NEW a, NEW b
    PROVE  /\ SubSeq(<<a>>, 2, 1) = <<>> /\ SubSeq(<<a, b>>, 3, 2) = <<>>
           /\ SubSeq(<<a, b>>, 2, 2) = <<b>>
  <1>1. SubSeq(<<a>>, 2, 1) = <<>> /\ SubSeq(<<a, b>>, 3, 2) = <<>>
    OBVIOUS
  <1>2. SubSeq(<<a, b>>, 2, 2) = <<b>>
    <2>1. <<a, b>> \in Seq({a, b}) /\ <<a, b>> # <<>> /\ Len(<<a, b>>) = 2 /\ Tail(<<a, b>>) = <<b>>
      OBVIOUS
    <2> QED  BY <2>1, TailIsSubSeq
  <1> QED  BY <1>1, <1>2

LEMMA SubSeqOfThree ==
    ASSUME NEW a, NEW b, NEW c
    PROVE  SubSeq(<<a, b, c>>, 2, 3) = <<b, c>> /\ SubSeq(<<a, b, c>>, 3, 3) = <<c>>
  <1> DEFINE S == {a, b, c}
  <1>1. SubSeq(<<a, b, c>>, 2, 3) = <<b, c>>
    <2>1. /\ <<a, b, c>> \in Seq(S) /\ <<a, b, c>> # <<>>
          /\ Len(<<a, b, c>>) = 3 /\ Tail(<<a, b, c>>) = <<b, c>>
      OBVIOUS
    <2> QED  BY <2>1, TailIsSubSeq
  <1>2. SubSeq(<<a, b, c>>, 3, 3) = <<c>>
    <2> DEFINE w == <<a, b, c>>
    <2>1. Len(w) = 3 /\ w[3] = c /\ <<c>> \in Seq(S) /\ Len(<<c>>) = 1 /\ <<c>>[1] = c /\ c \in S
      OBVIOUS
    <2> HIDE DEF w, S
    <2>2. \A i \in 3 .. 3 : w[i] \in S
      BY <2>1
    <2>3. /\ SubSeq(w, 3, 3) \in Seq(S) /\ Len(SubSeq(w, 3, 3)) = 1
          /\ \A i \in 1 .. 1 : SubSeq(w, 3, 3)[i] = <<c>>[i]
      BY <2>1, <2>2, SubSeqProperties
    <2>4. SubSeq(w, 3, 3) = <<c>>
      BY <2>1, <2>3, SeqEqual
    <2> QED  BY <2>4 DEF w
  <1> QED  BY <1>1, <1>2

\* Where the end can be put, and a message before it.
LEMMA PutInRest ==
    ASSUME NEW w \in Rest, ~Contains(w, "eof")
    PROVE  /\ Append(w, "eof") \in Rest
           /\ w = <<>> => Append(w, "eof") = <<"eof">>
           /\ ~Contains(w, "data") => Append(w, "data") \in Rest
  <1>1. CASE w = <<>>
    BY <1>1, AppendShort DEF Rest
  <1>2. CASE w = <<"data">>
    <2>1. Append(w, "eof") = <<"data", "eof">>
      BY <1>2, AppendShort
    <2> QED  BY <1>2, <2>1, ContainsShort DEF Rest
  <1>3. CASE w = <<"eof">> \/ w = <<"data", "eof">>
    BY <1>3, ContainsShort
  <1> QED  BY <1>1, <1>2, <1>3 DEF Rest

LEMMA PutBehind ==
    ASSUME NEW first, NEW w \in Behind(first), ~Contains(w, "eof")
    PROVE  /\ Append(w, "eof") \in Behind(first)
           /\ w = <<first>> => Append(w, "eof") = <<first, "eof">>
           /\ ~Contains(w, "data") => Append(w, "data") \in Behind(first)
  <1>1. CASE w = <<first>>
    <2>1. Append(w, "eof") = <<first, "eof">> /\ Append(w, "data") = <<first, "data">>
      BY <1>1, AppendShort
    <2> QED  BY <2>1 DEF Behind
  <1>2. CASE w = <<first, "data">>
    <2>1. Append(w, "eof") = <<first, "data", "eof">>
      BY <1>2, AppendShort, Zenon
    <2>2. Contains(w, "data") /\ w # <<first>>
      BY <1>2, ContainsShort
    <2> QED  BY <2>1, <2>2 DEF Behind
  <1>3. CASE w = <<first, "eof">>
    BY <1>3, ContainsShort
  <1>4. CASE w = <<first, "data", "eof">>
    BY <1>4, ContainsShort
  <1> QED  BY <1>1, <1>2, <1>3, <1>4 DEF Behind

LEMMA NoEof ==
    ASSUME NEW w, ~Contains(w, "eof"), w = <<>> \/ w = <<"eof">>
    PROVE  w = <<>>
  BY ContainsShort

\* A record of the two sides is a function on them.
LEMMA BothEnds ==
    ASSUME NEW S, NEW a \in S, NEW b \in S
    PROVE  [client |-> a, server |-> b] \in [Ends -> S]
  <1> DEFINE r == [client |-> a, server |-> b]
  <1>1. DOMAIN r = {"client", "server"} /\ r["client"] = a /\ r["server"] = b
    OBVIOUS
  <1>2. r = [e \in Ends |-> IF e = "client" THEN a ELSE b]
    BY DEF Ends
  <1> HIDE DEF r
  <1>3. r \in [Ends -> S]
    BY <1>2
  <1> QED  BY <1>3 DEF r

\* Taking a message away.
LEMMA ReadData ==
    ASSUME NEW w \in Rest, w # <<>>, Head(w) = "data"
    PROVE  /\ Tail(w) \in Rest /\ Contains(w, "data") /\ ~Contains(Tail(w), "data")
           /\ Contains(Tail(w), "eof") <=> Contains(w, "eof")
  <1>1. w = <<"data">> \/ w = <<"data", "eof">>
    BY HeadTailShort DEF Rest
  <1>2. CASE w = <<"data">>
    BY <1>2, HeadTailShort, ContainsShort DEF Rest
  <1>3. CASE w = <<"data", "eof">>
    BY <1>3, HeadTailShort, ContainsShort DEF Rest
  <1> QED  BY <1>1, <1>2, <1>3

\* Nothing stands behind the end.
LEMMA ReadEof ==
    ASSUME NEW w, w # <<>>, Head(w) = "eof",
           w \in Rest \cup Behind("response") \cup Behind("request") \cup Behind("refusal")
    PROVE  w = <<"eof">> /\ Contains(w, "eof") /\ ~Contains(w, "data")
  <1>1. w = <<"eof">>
    BY HeadTailShort DEF Rest, Behind
  <1> QED  BY <1>1, ContainsShort

\* Taking the request, or the answer, away, and maybe the message behind it.
LEMMA ReadFirst ==
    ASSUME NEW first, first \notin {"data", "eof"}, NEW w \in Behind(first)
    PROVE  /\ w # <<>> /\ Head(w) = first /\ Tail(w) \in Rest
           /\ SubSeq(w, 2, Len(w)) = Tail(w)
           /\ \A x \in {"data", "eof"} : Contains(Tail(w), x) <=> Contains(w, x)
           /\ Len(w) > 1 /\ w[2] = "data" =>
                 /\ SubSeq(w, 3, Len(w)) \in {<<>>, <<"eof">>}
                 /\ Contains(w, "data") /\ ~Contains(SubSeq(w, 3, Len(w)), "data")
                 /\ Contains(SubSeq(w, 3, Len(w)), "eof") <=> Contains(w, "eof")
  <1>1. CASE w = <<first>>
    <2>1. SubSeq(w, 2, 1) = <<>>
      BY <1>1, SubSeqShort, Zenon
    <2>2. Len(w) = 1 /\ Head(w) = first /\ Tail(w) = <<>> /\ w # <<>>
      BY <1>1
    <2>3. ~Contains(w, "data") /\ ~Contains(w, "eof")
      BY <1>1, ContainsShort
    <2>4. ~Contains(<<>>, "data") /\ ~Contains(<<>>, "eof")
      BY ContainsShort
    <2>5. SubSeq(w, 2, Len(w)) = Tail(w) /\ Tail(w) \in Rest /\ ~(Len(w) > 1)
      BY <2>1, <2>2 DEF Rest
    <2>6. \A x \in {"data", "eof"} : Contains(Tail(w), x) <=> Contains(w, x)
      BY <2>2, <2>3, <2>4
    <2> QED  BY <2>2, <2>5, <2>6
  <1>2. CASE w = <<first, "data">>
    <2>1. SubSeq(w, 2, 2) = <<"data">> /\ SubSeq(w, 3, 2) = <<>>
      BY <1>2, SubSeqShort, Zenon
    <2>2. Len(w) = 2 /\ Head(w) = first /\ Tail(w) = <<"data">> /\ w # <<>>
      BY <1>2
    <2>3. Contains(w, "data") /\ ~Contains(w, "eof")
      BY <1>2, ContainsShort
    <2>4. ~Contains(<<>>, "data") /\ ~Contains(<<>>, "eof")
          /\ Contains(<<"data">>, "data") /\ ~Contains(<<"data">>, "eof")
      BY ContainsShort
    <2> QED  BY <2>1, <2>2, <2>3, <2>4 DEF Rest
  <1>3. CASE w = <<first, "eof">>
    <2>1. SubSeq(w, 2, 2) = <<"eof">>
      BY <1>3, SubSeqShort, Zenon
    <2>2. Len(w) = 2 /\ w[2] = "eof" /\ Head(w) = first /\ Tail(w) = <<"eof">> /\ w # <<>>
      BY <1>3
    <2>3. ~Contains(w, "data") /\ Contains(w, "eof")
      BY <1>3, ContainsShort
    <2>4. ~Contains(<<"eof">>, "data") /\ Contains(<<"eof">>, "eof")
      BY ContainsShort
    <2> QED  BY <2>1, <2>2, <2>3, <2>4 DEF Rest
  <1>4. CASE w = <<first, "data", "eof">>
    <2>1. SubSeq(w, 2, 3) = <<"data", "eof">> /\ SubSeq(w, 3, 3) = <<"eof">>
      BY <1>4, SubSeqOfThree, Zenon
    <2>2. Len(w) = 3 /\ Head(w) = first /\ Tail(w) = <<"data", "eof">> /\ w # <<>>
      BY <1>4
    <2>3. Contains(w, "data") /\ Contains(w, "eof")
      BY <1>4, ContainsShort
    <2>4. /\ ~Contains(<<"eof">>, "data") /\ Contains(<<"eof">>, "eof")
          /\ Contains(<<"data", "eof">>, "data") /\ Contains(<<"data", "eof">>, "eof")
      BY ContainsShort
    <2> QED  BY <2>1, <2>2, <2>3, <2>4 DEF Rest
  <1> QED  BY <1>1, <1>2, <1>3, <1>4 DEF Behind

-----------------------------------------------------------------------------
(* The invariant is kept.                                                  *)

\* The end of either side fits behind whatever is on the way.
LEMMA EofFits ==
    ASSUME Inv, linked
    PROVE  /\ ~Has("server", "eof") => Append(wire["server"], "eof") \in ServerWire
           /\ ~Has("client", "eof") => Append(wire["client"], "eof") \in ClientWire
  <1>1. ASSUME NEW w, w = <<>> \/ w = <<"eof">>, ~Contains(w, "eof")
        PROVE  Append(w, "eof") = <<"eof">>
    <2>1. w = <<>>
      BY <1>1, ContainsShort
    <2> QED  BY <2>1, AppendShort
  <1>2. ASSUME NEW first, NEW w, w = <<first>> \/ w = <<first, "eof">>, ~Contains(w, "eof")
        PROVE  Append(w, "eof") = <<first, "eof">>
    <2>1. Contains(<<first, "eof">>, "eof")
      BY ContainsShort
    <2>2. w = <<first>>
      BY <1>2, <2>1
    <2> QED  BY <2>2, AppendShort
  <1>3. ASSUME ~Has("server", "eof")
        PROVE  Append(wire["server"], "eof") \in ServerWire
    <2>1. wire["server"] \in ServerWire /\ ~Contains(wire["server"], "eof")
      BY <1>3 DEF Inv, WiresFit, Has
    <2> QED  BY <1>1, <1>2, <2>1, PutInRest DEF ServerWire
  <1>4. ASSUME ~Has("client", "eof")
        PROVE  Append(wire["client"], "eof") \in ClientWire
    <2>1. wire["client"] \in ClientWire /\ ~Contains(wire["client"], "eof")
      BY <1>4 DEF Inv, WiresFit, Has
    <2> QED  BY <1>1, <1>2, <2>1, PutInRest, PutBehind DEF ClientWire
  <1> QED  BY <1>3, <1>4

\* What an end does to the wire of the other side.
LEMMA EofKeeps ==
    ASSUME Inv, NEW e \in Ends, state[e] \notin {"closed", "gone"},
           wire' = IF linked THEN Put(Peer(e), "eof") ELSE wire,
           UNCHANGED <<at, route, linked>>,
           state' = [state EXCEPT ![e] = "closed"] \/ state' = [state EXCEPT ![e] = "gone"]
    PROVE  /\ wire' \in [Ends -> Seq(Items)]
           /\ wire'["server"] \in ServerWire' /\ wire'["client"] \in ClientWire'
           /\ \A x \in Ends : /\ Has(x, "data")' <=> Has(x, "data")
                              /\ Has(x, "eof")' <=> linked /\ state'[Peer(x)] \in {"closed", "gone"}
  <1>1. Peer(e) \in Ends /\ Peer(e) # e
    BY DEF Peer, Ends
  <1>2. wire \in [Ends -> Seq(Items)] /\ wire["server"] \in ServerWire /\ wire["client"] \in ClientWire
        /\ \A x \in Ends : Has(x, "eof") <=> linked /\ state[Peer(x)] \in {"closed", "gone"}
    BY DEF Inv, Types, WiresFit
  <1>3. ServerWire' = ServerWire /\ ClientWire' = ClientWire
    BY DEF ServerWire, ClientWire, Unanswered
  <1>4. \A x \in Ends : Peer(Peer(x)) = x /\ Peer(x) \in Ends
    BY DEF Peer, Ends
  <1>5. /\ state'[e] \in {"closed", "gone"}
        /\ \A x \in Ends : x # e => state'[x] = state[x]
    BY DEF Inv, Types
  <1>6. CASE ~linked
    BY <1>2, <1>3, <1>6 DEF Has
  <1>7. CASE linked
    <2>1. wire' = [wire EXCEPT ![Peer(e)] = Append(@, "eof")]
      BY <1>7 DEF Put
    <2>2. ~Has(Peer(e), "eof")
      BY <1>1, <1>2, <1>4
    <2>3. /\ wire'[Peer(e)] = Append(wire[Peer(e)], "eof") /\ wire[Peer(e)] \in Seq(Items)
          /\ \A x \in Ends : x # Peer(e) => wire'[x] = wire[x]
          /\ "eof" \in Items /\ "data" \in Items
      BY <1>1, <1>2, <2>1 DEF Items
    <2>4. /\ Append(wire[Peer(e)], "eof") \in Seq(Items)
          /\ Contains(Append(wire[Peer(e)], "eof"), "eof")
          /\ Contains(Append(wire[Peer(e)], "eof"), "data") <=> Contains(wire[Peer(e)], "data")
      <3> DEFINE w == wire[Peer(e)]
      <3> HIDE DEF w
      <3>1. w \in Seq(Items) /\ "eof" \in Items /\ "data" # "eof"
        BY <2>3 DEF w
      <3>2. /\ Append(w, "eof") \in Seq(Items) /\ Contains(Append(w, "eof"), "eof")
            /\ Contains(Append(w, "eof"), "data") <=> Contains(w, "data")
        BY <3>1, AppendContains
      <3> QED  BY <3>2 DEF w
    <2>5. wire'["server"] \in ServerWire' /\ wire'["client"] \in ClientWire'
      BY <1>1, <1>2, <1>3, <1>7, <2>2, <2>3, EofFits DEF Ends
    <2>6. wire' \in [Ends -> Seq(Items)]
      BY <1>1, <1>2, <2>1, <2>4
    <2>7. \A x \in Ends : Has(x, "data")' <=> Has(x, "data")
      BY <2>3, <2>4 DEF Has
    <2>8. \A x \in Ends : Has(x, "eof")' <=> linked /\ state'[Peer(x)] \in {"closed", "gone"}
      <3> TAKE x \in Ends
      <3>1. CASE x = Peer(e)
        BY <1>4, <1>5, <1>7, <2>3, <2>4, <3>1 DEF Has
      <3>2. CASE x # Peer(e)
        BY <1>2, <1>4, <1>5, <2>3, <3>2 DEF Has
      <3> QED  BY <3>1, <3>2
    <2> QED  BY <2>5, <2>6, <2>7, <2>8
  <1> QED  BY <1>6, <1>7

LEMMA TellingsShape ==
    ASSUME NEW step, NEW st, NEW s \in Tellings(step, st)
    PROVE  /\ s \in {<<>>, <<"fail">>, <<"open">>, <<"open", "message">>,
                     <<"open", "close">>, <<"open", "message", "close">>}
           /\ Contains(s, "open") <=> step = "frames"
           /\ Contains(s, "message") =>
                 step = "frames" /\ s \in {<<"open", "message">>, <<"open", "message", "close">>}
  <1>1. CASE step = "frames"
    <2>1. s \in {<<"open">>, <<"open", "message">>,
                 <<"open", "close">>, <<"open", "message", "close">>}
      BY <1>1 DEF Tellings
    <2>2. CASE s = <<"open">>
      BY <1>1, <2>2, ContainsShort
    <2>3. CASE s = <<"open", "message">>
      BY <1>1, <2>3, ContainsShort
    <2>4. CASE s = <<"open", "close">>
      BY <1>1, <2>4, ContainsShort
    <2>5. CASE s = <<"open", "message", "close">>
      BY <1>1, <2>5, ContainsShort
    <2> QED  BY <2>1, <2>2, <2>3, <2>4, <2>5
  <1>2. CASE step # "frames"
    <2>1. s = <<>> \/ s = <<"fail">>
      BY <1>2 DEF Tellings
    <2>2. CASE s = <<>>
      BY <1>2, <2>2, ContainsShort
    <2>3. CASE s = <<"fail">>
      BY <1>2, <2>3, ContainsShort
    <2> QED  BY <2>1, <2>2, <2>3
  <1> QED  BY <1>1, <1>2

\* The last word.
LEMMA TellEnd ==
    ASSUME NEW step, NEW st \in {"connecting", "open"}, NEW s \in Tellings(step, st),
           NEW word, word = IF st = "connecting" THEN "fail" ELSE "close"
    PROVE  /\ Append(s, word) \in Tellings(step, "closed")
           /\ \A x \in {"open", "message"} : Contains(Append(s, word), x) <=> Contains(s, x)
           /\ Append(s, word) \in Seq(Words)
  <1>1. CASE st = "connecting"
    <2>1. s = <<>> /\ word = "fail" /\ step # "frames"
      BY <1>1 DEF Tellings
    <2>2. Append(s, word) = <<"fail">>
      BY <2>1, AppendShort
    <2>3. \A x \in {"open", "message"} : ~Contains(s, x) /\ ~Contains(<<"fail">>, x)
      BY <2>1, ContainsShort
    <2> QED  BY <2>1, <2>2, <2>3 DEF Tellings, Words
  <1>2. CASE st = "open"
    <2>1. word = "close" /\ step = "frames" /\ (s = <<"open">> \/ s = <<"open", "message">>)
      BY <1>2 DEF Tellings
    <2>2. CASE s = <<"open">>
      <3>1. Append(s, word) = <<"open", "close">>
        BY <2>1, <2>2, AppendShort, Zenon
      <3>2. /\ Contains(s, "open") /\ ~Contains(s, "message")
            /\ Contains(Append(s, word), "open") /\ ~Contains(Append(s, word), "message")
        <4>1. Contains(s, "open") /\ ~Contains(s, "message")
          BY <2>2, ContainsShort
        <4>2. Contains(<<"open", "close">>, "open") /\ ~Contains(<<"open", "close">>, "message")
          BY ContainsShort
        <4> QED  BY <3>1, <4>1, <4>2, Zenon
      <3>3. <<"open", "close">> \in Seq(Words) /\ <<"open", "close">> \in Tellings(step, "closed")
        BY <2>1 DEF Tellings, Words
      <3> QED  BY <2>2, <3>1, <3>2, <3>3, Zenon
    <2>3. CASE s = <<"open", "message">>
      <3> DEFINE all == <<"open", "message", "close">>
      <3>1. Append(s, word) = all
        <4>1. Append(<<"open", "message">>, "close") = <<"open", "message", "close">>
          BY AppendShort
        <4> QED  BY <2>1, <2>3, <4>1, Zenon
      <3>2. /\ Contains(s, "open") /\ Contains(s, "message")
            /\ Contains(all, "open") /\ Contains(all, "message")
        BY <2>3, ContainsShort
      <3>3. all \in Seq(Words) /\ all \in Tellings(step, "closed")
        BY <2>1 DEF Tellings, Words
      <3> HIDE DEF all
      <3> QED  BY <3>1, <3>2, <3>3
    <2> QED  BY <2>1, <2>2, <2>3
  <1> QED  BY <1>1, <1>2

\* The first words.
LEMMA TellOpen ==
    ASSUME NEW step, NEW s \in Tellings(step, "connecting")
    PROVE  /\ s = <<>> /\ <<"open">> \in Tellings("frames", "open")
           /\ <<"open", "message">> \in Tellings("frames", "open")
           /\ Contains(<<"open">>, "open") /\ ~Contains(<<"open">>, "message")
           /\ Contains(<<"open", "message">>, "open") /\ Contains(<<"open", "message">>, "message")
           /\ <<"open">> \in Seq(Words) /\ <<"open", "message">> \in Seq(Words)
  <1>1. s = <<>> /\ <<"open">> \in Tellings("frames", "open")
        /\ <<"open", "message">> \in Tellings("frames", "open")
        /\ <<"open">> \in Seq(Words) /\ <<"open", "message">> \in Seq(Words)
    BY DEF Tellings, Words
  <1> QED  BY <1>1, ContainsShort

LEMMA TellMessage ==
    ASSUME NEW step, NEW s \in Tellings(step, "open"), ~Contains(s, "message")
    PROVE  step = "frames" /\ s = <<"open">> /\ Append(s, "message") = <<"open", "message">>
  <1>1. step = "frames" /\ (s = <<"open">> \/ s = <<"open", "message">>)
    BY DEF Tellings
  <1>2. Contains(<<"open", "message">>, "message")
    BY ContainsShort
  <1>3. s = <<"open">>
    BY <1>1, <1>2
  <1> QED  BY <1>1, <1>3, AppendShort, Zenon

LEMMA TerminateInv ==
    ASSUME Inv, NEW e \in Ends, NEW t \in {"off", timer[e]}, Terminate(e, t),
           state[e] \in {"connecting", "open", "closed"}
    PROVE  /\ Inv'
           /\ \A x \in Ends : /\ Has(x, "data")' <=> Has(x, "data")
                              /\ Told(x, "open")' <=> Told(x, "open")
                              /\ Told(x, "message")' <=> Told(x, "message")
  <1>1. timer' = [timer EXCEPT ![e] = t] /\ UNCHANGED <<route, linked, at, posted, loop>>
    BY DEF Terminate
  <1>2. /\ timer' \in [Ends -> {"off", "armed", "due"}]
        /\ \A x \in Ends : timer'[x] = timer[x] \/ timer'[x] = "off"
    BY <1>1 DEF Inv, Types
  <1>3. CASE state[e] = "closed"
    <2>1. UNCHANGED <<state, wire, seen>>
      BY <1>3 DEF Terminate
    <2>2. Types' /\ StepsFit' /\ WiresFit' /\ MessagesFit'
      BY <1>1, <1>2, <2>1 DEF Inv, Types, StepsFit, WiresFit, MessagesFit, ServerWire, ClientWire,
                              Unanswered, Handled, Has, Told
    <2>3. TimersFit'
      BY <1>1, <1>2, <2>1 DEF Inv, TimersFit, Ends
    <2> QED  BY <2>1, <2>2, <2>3 DEF Inv, Has, Told
  <1>4. CASE state[e] # "closed"
    <2>1. /\ state' = [state EXCEPT ![e] = "closed"]
          /\ seen' = [seen EXCEPT ![e] =
                         Append(@, IF state[e] = "connecting" THEN "fail" ELSE "close")]
          /\ wire' = IF linked THEN Put(Peer(e), "eof") ELSE wire
      BY <1>4 DEF Terminate
    <2>2. /\ wire' \in [Ends -> Seq(Items)]
          /\ wire'["server"] \in ServerWire' /\ wire'["client"] \in ClientWire'
          /\ \A x \in Ends : /\ Has(x, "data")' <=> Has(x, "data")
                             /\ Has(x, "eof")' <=> linked /\ state'[Peer(x)] \in {"closed", "gone"}
      BY <1>1, <1>4, <2>1, EofKeeps
    <2>3. /\ state'[e] = "closed" /\ \A x \in Ends : x # e => state'[x] = state[x]
          /\ state' \in [Ends -> {"absent", "connecting", "open", "closed", "gone"}]
      BY <2>1 DEF Inv, Types
    <2>4. /\ seen'[e] \in Tellings(at[e], "closed") /\ seen'[e] \in Seq(Words)
          /\ \A x \in {"open", "message"} : Contains(seen'[e], x) <=> Contains(seen[e], x)
          /\ \A x \in Ends : x # e => seen'[x] = seen[x]
      <3>1. seen[e] \in Tellings(at[e], state[e]) /\ state[e] \in {"connecting", "open"}
        BY <1>4 DEF Inv, WiresFit
      <3> DEFINE word == IF state[e] = "connecting" THEN "fail" ELSE "close"
      <3>2. seen'[e] = Append(seen[e], word) /\ \A x \in Ends : x # e => seen'[x] = seen[x]
        BY <2>1 DEF Inv, Types
      <3> QED  BY <3>1, <3>2, TellEnd
    <2>5. /\ seen' \in [Ends -> Seq(Words)]
          /\ \A x \in Ends : seen'[x] \in Tellings(at'[x], state'[x])
          /\ \A x \in Ends : (Told(x, "open")' <=> Told(x, "open"))
                             /\ (Told(x, "message")' <=> Told(x, "message"))
      BY <1>1, <2>1, <2>3, <2>4 DEF Inv, Types, WiresFit, Told
    <2>6. Types'
      BY <1>1, <1>2, <2>2, <2>3, <2>5 DEF Inv, Types
    <2>7. StepsFit'
      BY <1>1, <1>4, <2>3 DEF Inv, StepsFit, Unanswered, Ends
    <2>8. WiresFit'
      BY <1>1, <2>2, <2>5 DEF WiresFit
    <2>9. MessagesFit'
      BY <1>1, <2>2, <2>5 DEF Inv, MessagesFit, Handled, Ends
    <2>10. TimersFit'
      BY <1>1, <1>2, <2>3 DEF Inv, TimersFit, Ends
    <2> QED  BY <2>2, <2>5, <2>6, <2>7, <2>8, <2>9, <2>10 DEF Inv
  <1> QED  BY <1>3, <1>4

\* What only timers, the TCP connection and the loop take part in leaves the rest alone.
LEMMA SameFits ==
    ASSUME Inv, UNCHANGED <<route, linked, state, at, wire, posted, seen>>
    PROVE  StepsFit' /\ WiresFit' /\ MessagesFit'
  <1>1. /\ route' = route /\ linked' = linked /\ state' = state /\ at' = at
        /\ wire' = wire /\ posted' = posted /\ seen' = seen
    OBVIOUS
  <1>2. StepsFit'
    BY <1>1 DEF Inv, StepsFit, Unanswered
  <1>3. ServerWire' = ServerWire /\ ClientWire' = ClientWire
    BY <1>1 DEF ServerWire, ClientWire, Unanswered
  <1>4. \A e \in Ends : \A x : /\ Has(e, x)' <=> Has(e, x)
                               /\ Told(e, x)' <=> Told(e, x)
    BY <1>1 DEF Has, Told
  <1>5. \A e \in Ends : seen'[e] \in Tellings(at'[e], state'[e])
    BY <1>1 DEF Inv, WiresFit
  <1>6. WiresFit'
    BY <1>1, <1>3, <1>4, <1>5 DEF Inv, WiresFit
  <1>7. MessagesFit'
    BY <1>1, <1>4 DEF Inv, MessagesFit, Handled, Ends
  <1> QED  BY <1>2, <1>6, <1>7

LEMMA InitInv == Init => Inv
  <1> SUFFICES ASSUME Init PROVE Inv
    OBVIOUS
  <1> USE DEF Init
  <1>1. Types /\ StepsFit /\ TimersFit
    <2>1. wire \in [Ends -> Seq(Items)] /\ seen \in [Ends -> Seq(Words)]
      OBVIOUS
    <2>2. /\ state \in [Ends -> {"absent", "connecting", "open", "closed", "gone"}]
          /\ timer \in [Ends -> {"off", "armed", "due"}]
      BY DEF Ends
    <2>3. at \in [Ends -> Steps["client"] \cup Steps["server"]] /\ \A e \in Ends : at[e] \in Steps[e]
      BY DEF Ends, Steps
    <2>4. Types
      BY <2>1, <2>2, <2>3 DEF Types
    <2>5. StepsFit
      BY DEF StepsFit, Unanswered
    <2>6. TimersFit
      BY DEF TimersFit, Ends
    <2> QED  BY <2>4, <2>5, <2>6
  <1>2. \A e \in Ends : wire[e] = <<>> /\ seen[e] = <<>>
    OBVIOUS
  <1>3. \A e \in Ends, x \in Items \cup Words : ~Has(e, x) /\ ~Told(e, x)
    <2>1. \A x : ~Contains(<<>>, x)
      BY ContainsShort
    <2> QED  BY <1>2, <2>1 DEF Has, Told
  <1>4. WiresFit
    BY <1>2, <1>3 DEF WiresFit, Tellings, ServerWire, ClientWire, Unanswered, Ends, Items
  <1>5. MessagesFit
    BY <1>3 DEF MessagesFit, Ends, Items, Words
  <1> QED  BY <1>1, <1>4, <1>5 DEF Inv

\* Steps that no side has sent or been told anything by.
LEMMA QuietInv ==
    ASSUME Inv, UNCHANGED <<wire, seen, posted, route>>,
           \/ \E e \in Ends : Expire(e)
           \/ HandleResolve \/ Establish \/ HandleSendRequest \/ HandleAccept \/ RunAgain
    PROVE  Inv'
  <1> USE DEF Inv, Types
  <1>1. \A e \in Ends : \A x : /\ Has(e, x)' <=> Has(e, x)
                               /\ Told(e, x)' <=> Told(e, x)
    BY DEF Has, Told
  <1>2. CASE \E e \in Ends : Expire(e)
    <2> PICK e \in Ends : Expire(e)
      BY <1>2
    <2>1. /\ timer[e] = "armed" /\ timer' = [timer EXCEPT ![e] = "due"]
          /\ UNCHANGED <<route, linked, state, at, wire, posted, loop, seen>>
      BY DEF Expire
    <2>2. StepsFit' /\ WiresFit' /\ MessagesFit'
      BY <2>1, SameFits
    <2>3. TimersFit'
      BY <2>1 DEF TimersFit, Ends
    <2>4. Types'
      BY <2>1 DEF Types
    <2> QED  BY <2>2, <2>3, <2>4
  <1>3. CASE HandleResolve
    BY <1>1, <1>3 DEF HandleResolve, In, InTime, StepsFit, WiresFit, MessagesFit, TimersFit,
                      ServerWire, ClientWire, Unanswered, Handled, Ends, Steps, Tellings
  <1>4. CASE Establish
    <2>1. StepsFit' /\ TimersFit' /\ MessagesFit'
      BY <1>1, <1>4 DEF Establish, StepsFit, MessagesFit, TimersFit, Unanswered, Handled, Ends
    <2>2. \A e \in Ends : ~Has(e, "eof") /\ state[Peer(e)] \notin {"closed", "gone"}
      BY <1>4 DEF Establish, WiresFit, Ends, Peer
    <2>3. WiresFit'
      BY <1>1, <1>4, <2>2 DEF Establish, WiresFit, ServerWire, ClientWire, Unanswered
    <2> QED  BY <1>4, <2>1, <2>3 DEF Establish
  <1>5. CASE HandleSendRequest
    BY <1>1, <1>5 DEF HandleSendRequest, In, StepsFit, WiresFit, MessagesFit, TimersFit,
                      ServerWire, ClientWire, Unanswered, Handled, Ends, Steps, Tellings
  <1>6. CASE HandleAccept
    <2>1. /\ linked /\ at["server"] = "accept" /\ state["server"] = "absent"
          /\ state' = [state EXCEPT !["server"] = "connecting"]
          /\ at' = [at EXCEPT !["server"] = "read_request"]
          /\ timer' = [timer EXCEPT !["server"] = "armed"]
          /\ UNCHANGED <<route, linked, wire, posted, loop, seen>>
      BY <1>6 DEF HandleAccept
    <2>7. Types'
      BY <2>1 DEF Ends, Steps
    <2>8. /\ state'["client"] = state["client"] /\ state'["server"] = "connecting"
          /\ at'["client"] = at["client"] /\ at'["server"] = "read_request"
          /\ timer'["client"] = timer["client"]
      BY <2>1 DEF Ends
    <2>9. StepsFit'
      BY <2>1, <2>8 DEF StepsFit, Unanswered
    <2>10. TimersFit'
      BY <2>1, <2>8 DEF TimersFit, Ends
    <2>11. MessagesFit'
      BY <1>1, <2>1, <2>8 DEF MessagesFit, Handled, Ends
    <2>2. Unanswered' /\ Unanswered
      BY <2>1, <2>8 DEF Unanswered
    <2>3. \A e \in Ends : seen'[e] \in Tellings(at'[e], state'[e])
      <3>1. seen'["client"] \in Tellings(at'["client"], state'["client"])
        BY <2>1, <2>8 DEF WiresFit, Ends
      <3>2. seen'["server"] \in Tellings(at'["server"], state'["server"])
        <4>1. seen["server"] \in Tellings("accept", "absent") /\ seen' = seen
          BY <2>1 DEF WiresFit, Ends
        <4>2. Tellings("accept", "absent") = Tellings("read_request", "connecting")
          BY DEF Tellings
        <4> QED  BY <2>8, <4>1, <4>2
      <3> QED  BY <3>1, <3>2 DEF Ends
    <2>4. \A e \in Ends : state'[Peer(e)] \in {"closed", "gone"} <=> state[Peer(e)] \in {"closed", "gone"}
      BY <2>1, <2>8 DEF Peer, Ends
    <2>5. ServerWire' = ServerWire /\ ClientWire' = ClientWire
      BY <2>1, <2>2, <2>8 DEF ServerWire, ClientWire
    <2>6. WiresFit'
      BY <1>1, <1>6, <2>3, <2>4, <2>5 DEF HandleAccept, WiresFit
    <2> QED  BY <2>6, <2>7, <2>9, <2>10, <2>11
  <1>7. CASE RunAgain
    <2>1. loop' = TRUE /\ UNCHANGED <<route, linked, state, at, timer, wire, posted, seen>>
      BY <1>7 DEF RunAgain
    <2>2. StepsFit' /\ WiresFit' /\ MessagesFit'
      BY <2>1, SameFits
    <2>3. Types' /\ TimersFit'
      BY <2>1 DEF TimersFit
    <2> QED  BY <2>2, <2>3
  <1> QED  BY <1>2, <1>3, <1>4, <1>5, <1>6, <1>7

\* Who calls terminate, and when: never a side that is not there, and not the
\* client with its payload out while an answer may still come.
Terminates ==
    \/ \E e \in Ends : TimerFires(e) \/ ReadFrameEof(e)
    \/ ConnectFails \/ ClientRefused \/ HandshakeEof \/ WriteResponseFails

PayloadOut == state["client"] = "open" /\ route = "send" /\ "client" \notin posted

LEMMA WhoTerminates ==
    ASSUME Inv, Terminates
    PROVE  \E e \in Ends : \E t \in {"off", timer[e]} :
               /\ Terminate(e, t) /\ state[e] \in {"connecting", "open", "closed"}
               /\ e = "client" /\ PayloadOut => Has("client", "eof") /\ ~Has("client", "data")
  <1>1. ASSUME NEW e \in Ends, TimerFires(e)
        PROVE  /\ Terminate(e, "off") /\ state[e] \in {"connecting", "open", "closed"}
               /\ e = "client" => ~PayloadOut
    <2>1. Terminate(e, "off") /\ timer[e] = "due"
      BY <1>1 DEF TimerFires
    <2>2. state[e] \in {"connecting", "open", "closed"}
      BY <2>1 DEF Inv, Types, TimersFit
    <2>3. ASSUME e = "client", PayloadOut
          PROVE  FALSE
      <3>1. at["client"] = "frames"
        BY <2>3 DEF Inv, WiresFit, Tellings, PayloadOut, Ends
      <3> QED  BY <2>1, <2>3, <3>1 DEF Inv, TimersFit, PayloadOut
    <2> QED  BY <2>1, <2>2, <2>3
  <1>2. ASSUME NEW e \in Ends, ReadFrameEof(e)
        PROVE  /\ Terminate(e, timer[e]) /\ state[e] = "open"
               /\ Has(e, "eof") /\ ~Has(e, "data")
    <2>1. Terminate(e, timer[e]) /\ state[e] = "open" /\ wire[e] # <<>> /\ Head(wire[e]) = "eof"
      BY <1>2 DEF ReadFrameEof
    <2>2. wire[e] \in Rest \cup Behind("response") \cup Behind("request") \cup Behind("refusal")
      <3>1. wire["server"] \in ServerWire /\ wire["client"] \in ClientWire
        BY DEF Inv, WiresFit
      <3> QED  BY <3>1 DEF ServerWire, ClientWire, Rest, Behind, Ends
    <2>3. Contains(wire[e], "eof") /\ ~Contains(wire[e], "data")
      BY <2>1, <2>2, ReadEof
    <2> QED  BY <2>1, <2>3 DEF Has
  <1>3. ASSUME ConnectFails
        PROVE  Terminate("client", "off") /\ state["client"] = "connecting"
    BY <1>3 DEF ConnectFails, In
  <1>4. ASSUME ClientRefused
        PROVE  Terminate("client", Cancelled("client")) /\ state["client"] = "connecting"
    BY <1>4 DEF ClientRefused, In
  <1>5. ASSUME HandshakeEof \/ WriteResponseFails
        PROVE  Terminate("server", Cancelled("server")) /\ state["server"] = "connecting"
    BY <1>5 DEF HandshakeEof, WriteResponseFails, In
  <1>6. \A e \in Ends : Cancelled(e) \in {"off", timer[e]}
    BY DEF Cancelled
  <1>7. CASE \E e \in Ends : TimerFires(e)
    BY <1>1, <1>7
  <1>8. CASE \E e \in Ends : ReadFrameEof(e)
    <2> PICK e \in Ends : ReadFrameEof(e)
      BY <1>8
    <2>1. /\ Terminate(e, timer[e]) /\ state[e] = "open"
          /\ Has(e, "eof") /\ ~Has(e, "data")
      BY <1>2
    <2>2. timer[e] \in {"off", timer[e]}
      OBVIOUS
    <2> QED  BY <2>1, <2>2
  <1>9. CASE ConnectFails \/ ClientRefused
    <2>1. "client" \in Ends /\ ~PayloadOut
      BY <1>3, <1>4, <1>9 DEF Ends, PayloadOut
    <2> QED  BY <1>3, <1>4, <1>6, <1>9, <2>1
  <1>10. CASE HandshakeEof \/ WriteResponseFails
    <2>1. "server" \in Ends
      BY DEF Ends
    <2> QED  BY <1>5, <1>6, <1>10, <2>1
  <1> QED  BY <1>7, <1>8, <1>9, <1>10 DEF Terminates

LEMMA TerminatesInv == ASSUME Inv, Terminates PROVE Inv'
  BY WhoTerminates, TerminateInv

LEMMA ConnectInv ==
    ASSUME Inv, HandleConnect
    PROVE  Inv' /\ \A e \in Ends : Has(e, "data")' <=> Has(e, "data")
  <1>1. /\ linked /\ at["client"] = "connect" /\ state["client"] = "connecting"
        /\ at' = [at EXCEPT !["client"] = "write_request"]
        /\ timer' = [timer EXCEPT !["client"] = "armed"]
        /\ wire' = [wire EXCEPT !["server"] = Append(@, "request")]
        /\ UNCHANGED <<route, linked, state, posted, loop, seen>>
    BY DEF HandleConnect, In, Put
  <1>2. /\ at'["client"] = "write_request" /\ at'["server"] = at["server"]
        /\ timer'["client"] = "armed" /\ timer'["server"] = timer["server"]
        /\ wire'["client"] = wire["client"] /\ wire'["server"] = Append(wire["server"], "request")
    BY <1>1 DEF Inv, Types, Ends
  <1>3. Unanswered /\ Unanswered'
    BY <1>1, <1>2 DEF Inv, StepsFit, Unanswered
  <1>4. wire["server"] = <<>> /\ wire'["server"] = <<"request">>
    <2>1. ~Contains(wire["server"], "eof") /\ (wire["server"] = <<>> \/ wire["server"] = <<"eof">>)
      BY <1>1 DEF Inv, WiresFit, ServerWire, Has, Peer, Ends
    <2>2. wire["server"] = <<>>
      BY <2>1, NoEof
    <2>3. Append(<<>>, "request") = <<"request">>
      BY AppendShort
    <2> QED  BY <1>2, <2>2, <2>3, Zenon
  <1>5. Types'
    <2>1. wire' \in [Ends -> Seq(Items)]
      <3>1. Append(wire["server"], "request") \in Seq(Items)
        BY <1>2, <1>4 DEF Items
      <3> QED  BY <1>1, <3>1 DEF Inv, Types
    <2> QED  BY <1>1, <2>1 DEF Inv, Types, Ends, Steps
  <1>6. StepsFit'
    BY <1>1, <1>2, <1>3 DEF Inv, StepsFit, Unanswered
  <1>7. /\ \A x \in {"data", "eof"} : ~Has("server", x) /\ ~Has("server", x)'
        /\ \A x : Has("client", x)' <=> Has("client", x)
        /\ \A e \in Ends : \A x : Told(e, x)' <=> Told(e, x)
    <2>1. \A x \in {"data", "eof"} : ~Contains(<<>>, x) /\ ~Contains(<<"request">>, x)
      BY ContainsShort
    <2> QED  BY <1>1, <1>2, <1>4, <2>1 DEF Has, Told
  <1>8. WiresFit'
    <2>1. \A e \in Ends : seen'[e] \in Tellings(at'[e], state'[e])
      <3>1. Tellings("write_request", "connecting") = Tellings("connect", "connecting")
        BY DEF Tellings
      <3> QED  BY <1>1, <1>2, <3>1 DEF Inv, WiresFit, Ends
    <2>2. wire'["server"] \in ServerWire' /\ wire'["client"] \in ClientWire'
      BY <1>1, <1>2, <1>3, <1>4 DEF Inv, WiresFit, ServerWire, ClientWire
    <2>3. \A e \in Ends : Has(e, "eof")' <=> linked' /\ state'[Peer(e)] \in {"closed", "gone"}
      BY <1>1, <1>7 DEF Inv, WiresFit, Peer, Ends
    <2> QED  BY <2>1, <2>2, <2>3 DEF WiresFit
  <1>9. MessagesFit'
    BY <1>1, <1>2, <1>7 DEF Inv, MessagesFit, Handled, Ends
  <1>10. TimersFit'
    BY <1>1, <1>2 DEF Inv, TimersFit, Ends
  <1> QED  BY <1>5, <1>6, <1>7, <1>8, <1>9, <1>10 DEF Inv, Ends

LEMMA TellGone ==
    ASSUME NEW step, NEW st \in {"absent", "connecting", "open", "closed", "gone"},
           NEW s \in Tellings(step, st)
    PROVE  s \in Tellings(step, "gone")
  <1>1. CASE step = "frames"
    BY <1>1 DEF Tellings
  <1>2. CASE step # "frames"
    BY <1>2 DEF Tellings
  <1> QED  BY <1>1, <1>2

LEMMA GoneInv ==
    ASSUME Inv, NEW e \in Ends, Gone(e)
    PROVE  /\ Inv'
           /\ \A x \in Ends : Has(x, "data")' <=> Has(x, "data")
  <1>1. /\ state[e] # "gone" /\ state' = [state EXCEPT ![e] = "gone"]
        /\ timer' = [timer EXCEPT ![e] = "off"] /\ posted' = posted \ {e}
        /\ wire' = IF linked /\ state[e] # "closed" THEN Put(Peer(e), "eof") ELSE wire
        /\ route' = route /\ linked' = linked /\ at' = at /\ loop' = loop /\ seen' = seen
    BY DEF Gone
  <1>2. /\ state'[e] = "gone" /\ \A x \in Ends : x # e => state'[x] = state[x]
        /\ timer'[e] = "off" /\ \A x \in Ends : x # e => timer'[x] = timer[x]
    BY <1>1 DEF Inv, Types
  <1>3. /\ wire' \in [Ends -> Seq(Items)]
        /\ wire'["server"] \in ServerWire' /\ wire'["client"] \in ClientWire'
        /\ \A x \in Ends : /\ Has(x, "data")' <=> Has(x, "data")
                           /\ Has(x, "eof")' <=> linked /\ state'[Peer(x)] \in {"closed", "gone"}
    <2>1. CASE state[e] # "closed"
      <3>1. wire' = IF linked THEN Put(Peer(e), "eof") ELSE wire
        BY <1>1, <2>1
      <3> QED  BY <1>1, <2>1, <3>1, EofKeeps
    <2>2. CASE state[e] = "closed"
      <3>1. wire' = wire
        BY <1>1, <2>2
      <3>2. ServerWire' = ServerWire /\ ClientWire' = ClientWire
        BY <1>1 DEF ServerWire, ClientWire, Unanswered
      <3>3. \A x \in Ends : state'[x] \in {"closed", "gone"} <=> state[x] \in {"closed", "gone"}
        BY <1>2, <2>2
      <3>4. \A x \in Ends : Peer(x) \in Ends
        BY DEF Peer, Ends
      <3>5. \A x \in Ends : Has(x, "eof")' <=> linked /\ state'[Peer(x)] \in {"closed", "gone"}
        BY <3>1, <3>3, <3>4 DEF Inv, WiresFit, Has
      <3> QED  BY <3>1, <3>2, <3>5 DEF Inv, Types, WiresFit, Has
    <2> QED  BY <2>1, <2>2
  <1>4. \A x \in Ends : \A y : Told(x, y)' <=> Told(x, y)
    BY <1>1 DEF Told
  <1>5. Types'
    BY <1>1, <1>3 DEF Inv, Types
  <1>6. StepsFit'
    BY <1>1, <1>2 DEF Inv, StepsFit, Unanswered, Ends
  <1>7. WiresFit'
    <2>1. \A x \in Ends : seen[x] \in Tellings(at[x], state[x]) /\ state[x] \in
              {"absent", "connecting", "open", "closed", "gone"}
      BY DEF Inv, Types, WiresFit
    <2>2. \A x \in Ends : seen'[x] \in Tellings(at'[x], state'[x])
      BY <1>1, <1>2, <2>1, TellGone
    <2> QED  BY <1>1, <1>3, <2>2 DEF WiresFit
  <1>8. MessagesFit'
    BY <1>1, <1>3, <1>4 DEF Inv, MessagesFit, Handled, Ends
  <1>9. TimersFit'
    BY <1>1, <1>2 DEF Inv, TimersFit, Ends
  <1> QED  BY <1>3, <1>5, <1>6, <1>7, <1>8, <1>9 DEF Inv

LEMMA ReadHandshakeInv ==
    ASSUME Inv, HandleReadHandshake
    PROVE  /\ Inv' /\ wire["client"] = <<>>
           /\ \A e \in Ends : ~Has(e, "data") /\ ~Has(e, "data")'
  <1> DEFINE answer == IF route = "refused" THEN "refusal" ELSE "response"
  <1>1. /\ state["server"] = "connecting" /\ at["server"] = "read_request"
        /\ wire["server"] # <<>> /\ Head(wire["server"]) = "request"
        /\ at' = [at EXCEPT !["server"] = "process_request"]
        /\ wire' = [client |-> Append(wire["client"], answer), server |-> Tail(wire["server"])]
        /\ UNCHANGED <<route, linked, state, timer, posted, loop, seen>>
    BY DEF HandleReadHandshake, In
  <1>2. /\ at'["client"] = at["client"] /\ at'["server"] = "process_request"
        /\ wire'["client"] = Append(wire["client"], answer)
        /\ wire'["server"] = Tail(wire["server"])
        /\ Unanswered /\ ~Unanswered'
    BY <1>1 DEF Inv, Types, Ends, Unanswered
  <1>3. /\ at["client"] \notin {"resolve", "connect", "frames"}
        /\ wire["server"] = <<"request">> \/ wire["server"] = <<"request", "eof">>
    <2>1. wire["server"] # <<"eof">>
      BY <1>1, HeadTailShort
    <2> QED  BY <1>1, <1>2, <2>1 DEF Inv, WiresFit, StepsFit, ServerWire
  <1>4. /\ wire'["server"] = <<>> \/ wire'["server"] = <<"eof">>
        /\ \A x \in {"data", "eof"} : Has("server", x)' <=> Has("server", x)
        /\ ~Has("server", "data")
    <2>1. wire["server"] \in Behind("request") /\ "request" \notin {"data", "eof"}
      BY <1>3 DEF Behind
    <2>2. \A x \in {"data", "eof"} : Contains(Tail(wire["server"]), x) <=> Contains(wire["server"], x)
      BY <2>1, ReadFirst
    <2>3. ~Contains(<<"request">>, "data") /\ ~Contains(<<"request", "eof">>, "data")
      BY ContainsShort
    <2>4. wire'["server"] = <<>> \/ wire'["server"] = <<"eof">>
      BY <1>2, <1>3, HeadTailShort
    <2> QED  BY <1>2, <1>3, <2>2, <2>3, <2>4 DEF Has
  <1>5. /\ wire["client"] = <<>> /\ wire'["client"] = <<answer>>
    <2>1. ~Contains(wire["client"], "eof") /\ (wire["client"] = <<>> \/ wire["client"] = <<"eof">>)
      BY <1>1, <1>2, <1>3 DEF Inv, WiresFit, ClientWire, Has, Peer, Ends
    <2>2. wire["client"] = <<>>
      BY <2>1, NoEof
    <2>3. Append(<<>>, answer) = <<answer>>
      BY AppendShort
    <2> HIDE DEF answer
    <2> QED  BY <1>2, <2>2, <2>3, Zenon
  <1>6. \A x \in {"data", "eof"} : ~Has("client", x) /\ ~Has("client", x)'
    <2>1. \A x \in {"data", "eof"} : ~Contains(<<>>, x) /\ ~Contains(<<answer>>, x)
      BY ContainsShort
    <2> HIDE DEF answer
    <2> QED  BY <1>5, <2>1 DEF Has
  <1>7. \A e \in Ends : \A x : Told(e, x)' <=> Told(e, x)
    BY <1>1 DEF Told
  <1>8. Types'
    <2>1. <<answer>> \in Seq(Items) /\ Tail(wire["server"]) \in Seq(Items)
      <3>1. <<>> \in Seq(Items) /\ <<"eof">> \in Seq(Items)
        BY DEF Items
      <3>2. <<answer>> \in Seq(Items)
        BY DEF Items
      <3> QED  BY <1>2, <1>4, <3>1, <3>2, Zenon
    <2>2. wire' \in [Ends -> Seq(Items)]
      <3> HIDE DEF answer
      <3>1. Append(wire["client"], answer) \in Seq(Items)
        BY <1>2, <1>5, <2>1, Zenon
      <3> QED  BY <1>1, <2>1, <3>1, BothEnds
    <2>3. at' \in [Ends -> Steps["client"] \cup Steps["server"]] /\ \A e \in Ends : at'[e] \in Steps[e]
      BY <1>1 DEF Inv, Types, Ends, Steps
    <2> QED  BY <1>1, <2>2, <2>3 DEF Inv, Types
  <1>9. StepsFit'
    BY <1>1, <1>2, <1>3 DEF Inv, StepsFit, Unanswered
  <1>10. WiresFit'
    <2>1. \A e \in Ends : seen'[e] \in Tellings(at'[e], state'[e])
      <3>1. Tellings("process_request", "connecting") = Tellings("read_request", "connecting")
        BY DEF Tellings
      <3> QED  BY <1>1, <1>2, <3>1 DEF Inv, WiresFit, Ends
    <2>2. wire'["server"] \in ServerWire'
      BY <1>2, <1>3, <1>4 DEF ServerWire
    <2>3. wire'["client"] \in ClientWire'
      BY <1>1, <1>2, <1>3, <1>5 DEF ClientWire, Behind
    <2>4. \A e \in Ends : Has(e, "eof")' <=> linked' /\ state'[Peer(e)] \in {"closed", "gone"}
      BY <1>1, <1>4, <1>6 DEF Inv, WiresFit, Peer, Ends
    <2> QED  BY <2>1, <2>2, <2>3, <2>4 DEF WiresFit
  <1>11. MessagesFit'
    BY <1>1, <1>2, <1>4, <1>6, <1>7 DEF Inv, MessagesFit, Handled, Ends
  <1>12. TimersFit'
    BY <1>1, <1>2 DEF Inv, TimersFit, Ends
  <1> QED  BY <1>4, <1>5, <1>6, <1>8, <1>9, <1>10, <1>11, <1>12 DEF Inv, Ends

LEMMA WriteResponseInv ==
    ASSUME Inv, HandleWriteResponse
    PROVE  /\ Inv' /\ seen["server"] = <<>>
           /\ Told("server", "open")' /\ ~Told("server", "message")'
           /\ ~Has("client", "data") /\ ~Told("client", "message")
  <1>1. /\ state["server"] = "connecting" /\ at["server"] = "process_request" /\ route # "refused"
        /\ timer' = [timer EXCEPT !["server"] = Cancelled("server")]
        /\ state' = [state EXCEPT !["server"] = "open"]
        /\ at' = [at EXCEPT !["server"] = "frames"]
        /\ seen' = [seen EXCEPT !["server"] = Append(@, "open")]
        /\ posted' \in {posted, IF route = "connect" THEN posted \cup {"server"} ELSE posted}
        /\ UNCHANGED <<route, linked, wire, loop>>
    BY DEF HandleWriteResponse, In
  <1>2. /\ at'["client"] = at["client"] /\ at'["server"] = "frames"
        /\ state'["client"] = state["client"] /\ state'["server"] = "open"
        /\ seen'["client"] = seen["client"] /\ seen'["server"] = Append(seen["server"], "open")
        /\ timer'["client"] = timer["client"] /\ timer'["server"] \in {"off", "armed", "due"}
        /\ ~Unanswered /\ ~Unanswered'
    BY <1>1 DEF Inv, Types, Ends, Unanswered, Cancelled
  <1>3. seen["server"] = <<>> /\ seen'["server"] = <<"open">>
    <2>1. seen["server"] \in Tellings("process_request", "connecting")
      BY <1>1 DEF Inv, WiresFit, Ends
    <2>2. seen["server"] = <<>>
      BY <2>1, TellOpen
    <2>3. Append(<<>>, "open") = <<"open">>
      BY AppendShort
    <2> QED  BY <1>2, <2>2, <2>3, Zenon
  <1>4. /\ \A x : ~Told("server", x)
        /\ Told("server", "open")' /\ ~Told("server", "message")'
        /\ \A x : Told("client", x)' <=> Told("client", x)
        /\ \A e \in Ends : \A x : Has(e, x)' <=> Has(e, x)
    <2>1. /\ \A x : ~Contains(<<>>, x)
          /\ Contains(<<"open">>, "open") /\ ~Contains(<<"open">>, "message")
      BY ContainsShort
    <2> QED  BY <1>1, <1>2, <1>3, <2>1 DEF Told, Has
  <1>5. ~Handled
    BY <1>4 DEF Handled
  <1>6. "server" \notin posted /\ ~Has("client", "data") /\ ~Told("client", "message")
    BY <1>5 DEF Inv, MessagesFit
  <1>7. Types'
    <2>1. seen' \in [Ends -> Seq(Words)]
      <3>1. <<"open">> \in Seq(Words)
        BY DEF Words
      <3>2. Append(seen["server"], "open") \in Seq(Words)
        BY <1>2, <1>3, <3>1, Zenon
      <3> QED  BY <1>1, <3>2 DEF Inv, Types
    <2>2. at' \in [Ends -> Steps["client"] \cup Steps["server"]] /\ \A e \in Ends : at'[e] \in Steps[e]
      BY <1>1 DEF Inv, Types, Ends, Steps
    <2>3. timer' \in [Ends -> {"off", "armed", "due"}] /\ posted' \subseteq Ends
      BY <1>1 DEF Inv, Types, Ends, Cancelled
    <2>4. state' \in [Ends -> {"absent", "connecting", "open", "closed", "gone"}]
      BY <1>1 DEF Inv, Types
    <2> QED  BY <1>1, <2>1, <2>2, <2>3, <2>4 DEF Inv, Types
  <1>8. StepsFit'
    BY <1>1, <1>2 DEF Inv, StepsFit, Unanswered
  <1>9. WiresFit'
    <2>1. \A e \in Ends : seen'[e] \in Tellings(at'[e], state'[e])
      <3>1. <<"open">> \in Tellings("frames", "open")
        BY DEF Tellings
      <3>2. seen'["server"] \in Tellings(at'["server"], state'["server"])
        BY <1>2, <1>3, <3>1
      <3>3. seen'["client"] \in Tellings(at'["client"], state'["client"])
        BY <1>2 DEF Inv, WiresFit, Ends
      <3> QED  BY <3>2, <3>3 DEF Ends
    <2>2. ServerWire' = ServerWire /\ ClientWire' = ClientWire
      BY <1>1, <1>2 DEF ServerWire, ClientWire
    <2>3. \A e \in Ends : Has(e, "eof")' <=> linked' /\ state'[Peer(e)] \in {"closed", "gone"}
      BY <1>1, <1>2, <1>4 DEF Inv, WiresFit, Peer, Ends
    <2> QED  BY <1>1, <2>1, <2>2, <2>3 DEF Inv, WiresFit
  <1>10. MessagesFit'
    BY <1>1, <1>2, <1>4, <1>6 DEF Inv, MessagesFit, Handled, Ends
  <1>11. TimersFit'
    BY <1>1, <1>2 DEF Inv, TimersFit, Ends
  <1> QED  BY <1>3, <1>4, <1>6, <1>7, <1>8, <1>9, <1>10, <1>11 DEF Inv

LEMMA WriteFrameInv ==
    ASSUME Inv, NEW e \in Ends, WriteFrame(e)
    PROVE  /\ Inv' /\ ~Has(Peer(e), "data") /\ ~Told(Peer(e), "message")
           /\ e = "client" => route = "send"
           /\ e = "server" => route \in {"connect", "send"} /\ Handled
           /\ Has(e, "data")' <=> Has(e, "data")
           /\ Has(Peer(e), "data")' <=> state[e] = "open"
  <1> DEFINE p == Peer(e)
  <1>1. /\ e \in posted /\ timer[e] # "due" /\ posted' = posted \ {e}
        /\ wire' = IF state[e] = "open" THEN [wire EXCEPT ![p] = Append(@, "data")] ELSE wire
        /\ route' = route /\ linked' = linked /\ state' = state /\ at' = at /\ timer' = timer
        /\ loop' = loop /\ seen' = seen
    BY DEF WriteFrame, Put
  <1>2. p \in Ends /\ p # e /\ Peer(p) = e
    BY DEF Peer, Ends
  <1>3. /\ e = "client" => route = "send" /\ at["client"] = "frames"
        /\ e = "server" => route \in {"connect", "send"} /\ Handled
        /\ ~Has(p, "data") /\ ~Told(p, "message")
    BY <1>1 DEF Inv, MessagesFit, Peer, Ends
  <1>4. \A x : Has(e, x)' <=> Has(e, x)
    BY <1>1, <1>2 DEF Inv, Types, Has
  <1>5. \A x \in Ends : \A y : Told(x, y)' <=> Told(x, y)
    BY <1>1 DEF Told
  <1>6. ServerWire' = ServerWire /\ ClientWire' = ClientWire
    BY <1>1 DEF ServerWire, ClientWire, Unanswered
  <1>7. CASE state[e] # "open"
    <2>1. wire' = wire
      BY <1>1, <1>7
    <2>2. \A x \in Ends : \A y : Has(x, y)' <=> Has(x, y)
      BY <2>1 DEF Has
    <2>3. Types'
      BY <1>1, <2>1 DEF Inv, Types
    <2>4. StepsFit'
      BY <1>1 DEF Inv, StepsFit, Unanswered
    <2>5. WiresFit'
      BY <1>1, <1>6, <2>1, <2>2 DEF Inv, WiresFit
    <2>6. MessagesFit'
      BY <1>1, <1>5, <2>2 DEF Inv, MessagesFit, Handled, Ends
    <2>7. TimersFit'
      BY <1>1 DEF Inv, TimersFit, Ends
    <2> QED  BY <1>2, <1>3, <1>7, <2>2, <2>3, <2>4, <2>5, <2>6, <2>7 DEF Inv
  <1>8. CASE state[e] = "open"
    <2>1. /\ wire' = [wire EXCEPT ![p] = Append(@, "data")]
          /\ wire'[e] = wire[e] /\ wire'[p] = Append(wire[p], "data") /\ wire[p] \in Seq(Items)
      BY <1>1, <1>2, <1>8 DEF Inv, Types
    <2>2. /\ Append(wire[p], "data") \in Seq(Items)
          /\ Contains(Append(wire[p], "data"), "data")
          /\ Contains(Append(wire[p], "data"), "eof") <=> Contains(wire[p], "eof")
      <3> DEFINE w == wire[p]
      <3>1. w \in Seq(Items) /\ "data" \in Items /\ "data" # "eof"
        BY <2>1 DEF Items
      <3> HIDE DEF w
      <3>2. /\ Append(w, "data") \in Seq(Items) /\ Contains(Append(w, "data"), "data")
            /\ Contains(Append(w, "data"), "eof") <=> Contains(w, "eof")
        BY <3>1, AppendContains
      <3> QED  BY <3>2 DEF w
    <2>3. ~Has(p, "eof")
      BY <1>2, <1>8 DEF Inv, WiresFit
    <2>4. Has(p, "data")' /\ (Has(p, "eof")' <=> Has(p, "eof"))
      BY <2>1, <2>2 DEF Has
    <2>5. wire'["server"] \in ServerWire' /\ wire'["client"] \in ClientWire'
      <3>1. wire["server"] \in ServerWire /\ wire["client"] \in ClientWire
        BY DEF Inv, WiresFit
      <3>2. ~Contains(wire[p], "data") /\ ~Contains(wire[p], "eof")
        BY <1>3, <2>3 DEF Has
      <3>3. CASE e = "client"
        <4>1. p = "server" /\ ServerWire = Rest
          BY <1>3, <3>3 DEF Inv, StepsFit, ServerWire, Peer
        <4>2. Append(wire["server"], "data") \in Rest
          BY <3>1, <3>2, <4>1, PutInRest
        <4> QED  BY <1>6, <2>1, <3>1, <3>3, <4>1, <4>2
      <3>4. CASE e = "server"
        <4>1. at["server"] = "frames"
          BY <1>8, <3>4 DEF Inv, WiresFit, Tellings, Ends
        <4>2. p = "client" /\ (ClientWire = Rest \/ ClientWire = Behind("response"))
          BY <1>3, <3>4, <4>1 DEF ClientWire, Unanswered, Peer
        <4>3. Append(wire["client"], "data") \in ClientWire
          BY <3>1, <3>2, <4>2, PutInRest, PutBehind
        <4> QED  BY <1>6, <2>1, <3>1, <3>4, <4>2, <4>3
      <3> QED  BY <3>3, <3>4 DEF Ends
    <2>6. Types'
      <3>1. wire' \in [Ends -> Seq(Items)]
        BY <2>1, <2>2 DEF Inv, Types
      <3> QED  BY <1>1, <3>1 DEF Inv, Types
    <2>7. StepsFit'
      BY <1>1 DEF Inv, StepsFit, Unanswered
    <2>8. WiresFit'
      <3>1. \A x \in Ends : Has(x, "eof")' <=> Has(x, "eof")
        BY <1>4, <2>4 DEF Ends, Peer
      <3> QED  BY <1>1, <2>5, <3>1 DEF Inv, WiresFit
    <2>9. MessagesFit'
      BY <1>1, <1>3, <1>4, <1>5 DEF Inv, MessagesFit, Handled, Ends, Peer
    <2>10. TimersFit'
      BY <1>1 DEF Inv, TimersFit, Ends
    <2> QED  BY <1>3, <1>4, <1>8, <2>4, <2>6, <2>7, <2>8, <2>9, <2>10 DEF Inv
  <1> QED  BY <1>7, <1>8

LEMMA ReadFrameInv ==
    ASSUME Inv, NEW e \in Ends, HandleReadFrame(e)
    PROVE  /\ Inv' /\ Has(e, "data") /\ ~Has(e, "data")' /\ ~Told(e, "message") /\ Told(e, "message")'
           /\ Told(e, "open")' <=> Told(e, "open")
           /\ \A x : (Has(Peer(e), x)' <=> Has(Peer(e), x)) /\ (Told(Peer(e), x)' <=> Told(Peer(e), x))
           /\ e = "server" => route = "send"
  <1> DEFINE p == Peer(e)
  <1>1. /\ state[e] = "open" /\ timer[e] # "due" /\ wire[e] # <<>> /\ Head(wire[e]) = "data"
        /\ wire' = [wire EXCEPT ![e] = Tail(@)]
        /\ seen' = [seen EXCEPT ![e] = Append(@, "message")]
        /\ posted' \in {posted, IF e = "server" THEN posted \cup {"server"} ELSE posted}
        /\ loop' \in BOOLEAN
        /\ route' = route /\ linked' = linked /\ state' = state /\ at' = at /\ timer' = timer
    <2>1. CASE e = "client"
      BY <2>1 DEF HandleReadFrame
    <2>2. CASE e = "server"
      <3>1. loop' = loop /\ posted' \in {posted, posted \cup {"server"}}
        BY <2>2 DEF HandleReadFrame
      <3> QED  BY <2>2, <3>1 DEF HandleReadFrame, Inv, Types
    <2> QED  BY <2>1, <2>2 DEF Ends
  <1>2. /\ p \in Ends /\ p # e
        /\ wire'[e] = Tail(wire[e]) /\ seen'[e] = Append(seen[e], "message")
        /\ wire'[p] = wire[p] /\ seen'[p] = seen[p]
    BY <1>1 DEF Inv, Types, Ends, Peer
  <1>3. at[e] = "frames"
    BY <1>1 DEF Inv, WiresFit, Tellings
  <1>4. wire[e] \in Rest /\ (e = "server" => ServerWire = Rest) /\ (e = "client" => ClientWire = Rest)
    <2>1. wire["server"] \in ServerWire /\ wire["client"] \in ClientWire
      BY DEF Inv, WiresFit
    <2>2. CASE e = "client"
      BY <1>3, <2>1, <2>2 DEF ClientWire
    <2>3. CASE e = "server"
      <3>1. ~Unanswered /\ at["client"] \notin {"resolve", "connect"}
        BY <1>3, <2>3 DEF Inv, StepsFit, Unanswered
      <3>2. wire[e] # <<"eof">>
        BY <1>1, HeadTailShort
      <3> QED  BY <1>1, <2>1, <2>3, <3>1, <3>2 DEF ServerWire
    <2> QED  BY <2>2, <2>3 DEF Ends
  <1>5. /\ Tail(wire[e]) \in Rest /\ Has(e, "data") /\ ~Has(e, "data")'
        /\ Has(e, "eof")' <=> Has(e, "eof")
    BY <1>1, <1>2, <1>4, ReadData DEF Has
  <1>6. ~Told(e, "message") /\ (e = "server" => route = "send") /\ (e = "client" => "server" \notin posted)
    BY <1>5 DEF Inv, MessagesFit, Ends
  <1>7. seen[e] = <<"open">> /\ seen'[e] = <<"open", "message">>
    <2>1. seen[e] \in Tellings(at[e], "open") /\ ~Contains(seen[e], "message")
      BY <1>1, <1>6 DEF Inv, WiresFit, Told
    <2>2. seen[e] = <<"open">> /\ Append(seen[e], "message") = <<"open", "message">>
      BY <2>1, TellMessage
    <2> QED  BY <1>2, <2>2, Zenon
  <1>8. /\ Told(e, "message")' /\ (Told(e, "open")' <=> Told(e, "open"))
        /\ \A x : (Has(p, x)' <=> Has(p, x)) /\ (Told(p, x)' <=> Told(p, x))
    <2>1. /\ Contains(<<"open">>, "open") /\ Contains(<<"open", "message">>, "open")
          /\ Contains(<<"open", "message">>, "message")
      BY ContainsShort
    <2> QED  BY <1>2, <1>7, <2>1 DEF Has, Told
  <1>9. Types'
    <2>1. Tail(wire[e]) \in Seq(Items) /\ Append(seen[e], "message") \in Seq(Words)
      <3>1. Rest \subseteq Seq(Items)
        BY DEF Rest, Items
      <3>2. <<"open", "message">> \in Seq(Words)
        BY DEF Words
      <3>3. Append(seen[e], "message") \in Seq(Words)
        BY <1>2, <1>7, <3>2, Zenon
      <3> QED  BY <1>5, <3>1, <3>3
    <2>2. wire' \in [Ends -> Seq(Items)] /\ seen' \in [Ends -> Seq(Words)]
      BY <1>1, <2>1 DEF Inv, Types
    <2>3. posted' \subseteq Ends
      BY <1>1 DEF Inv, Types, Ends
    <2> QED  BY <1>1, <2>2, <2>3 DEF Inv, Types
  <1>10. StepsFit'
    BY <1>1 DEF Inv, StepsFit, Unanswered
  <1>11. WiresFit'
    <2>1. \A x \in Ends : seen'[x] \in Tellings(at'[x], state'[x])
      <3>1. <<"open", "message">> \in Tellings("frames", "open")
        BY DEF Tellings
      <3>2. seen'[e] \in Tellings(at'[e], state'[e])
        BY <1>1, <1>3, <1>7, <3>1
      <3>3. seen'[p] \in Tellings(at'[p], state'[p])
        BY <1>1, <1>2 DEF Inv, WiresFit
      <3> QED  BY <3>2, <3>3 DEF Ends, Peer
    <2>2. ServerWire' = ServerWire /\ ClientWire' = ClientWire
      BY <1>1 DEF ServerWire, ClientWire, Unanswered
    <2>3. wire'["server"] \in ServerWire' /\ wire'["client"] \in ClientWire'
      BY <1>2, <1>4, <1>5, <2>2 DEF Inv, WiresFit, Ends, Peer
    <2>4. \A x \in Ends : Has(x, "eof")' <=> Has(x, "eof")
      BY <1>5, <1>8 DEF Ends, Peer
    <2> QED  BY <1>1, <2>1, <2>3, <2>4 DEF Inv, WiresFit
  <1>12. MessagesFit'
    <2>1. CASE e = "client"
      <3>1. p = "server" /\ posted' = posted
        BY <1>1, <2>1 DEF Peer
      <3> QED  BY <1>1, <1>5, <1>6, <1>8, <2>1, <3>1 DEF Inv, MessagesFit, Handled
    <2>2. CASE e = "server"
      <3>1. /\ p = "client" /\ ~Handled /\ Handled' /\ route = "send"
            /\ "client" \in posted' <=> "client" \in posted
        BY <1>1, <1>6, <1>8, <2>2 DEF Peer, Handled
      <3>2. ~Has("client", "data")' /\ ~Told("client", "message")'
        BY <1>8, <3>1 DEF Inv, MessagesFit
      <3>3. at["client"] = "frames" /\ "client" \notin posted
        BY <1>5, <2>2 DEF Inv, MessagesFit
      <3> QED  BY <1>1, <1>5, <1>8, <2>2, <3>1, <3>2, <3>3 DEF MessagesFit
    <2> QED  BY <2>1, <2>2 DEF Ends
  <1>13. TimersFit'
    BY <1>1 DEF Inv, TimersFit, Ends
  <1> QED  BY <1>5, <1>6, <1>8, <1>9, <1>10, <1>11, <1>12, <1>13 DEF Inv

\* What is told at once by an answer, and by an answer with a message behind it.
LEMMA TellOpening ==
    /\ <<>> \o SubSeq(<<"open", "message">>, 1, 1) = <<"open">>
    /\ <<>> \o SubSeq(<<"open", "message">>, 1, 2) = <<"open", "message">>
  <1> DEFINE s == <<"open", "message">>
  <1>1. /\ s \in Seq(Words) /\ Len(s) = 2 /\ s[1] = "open"
        /\ <<"open">> \in Seq(Words) /\ Len(<<"open">>) = 1 /\ <<"open">>[1] = "open"
        /\ "open" \in Words
    BY DEF Words
  <1> HIDE DEF s
  <1>2. SubSeq(s, 1, 2) = s
    BY <1>1, SubSeqFull
  <1>3. SubSeq(s, 1, 1) = <<"open">>
    <2>1. /\ SubSeq(s, 1, 1) \in Seq(Words) /\ Len(SubSeq(s, 1, 1)) = 1
          /\ \A i \in 1 .. 1 : SubSeq(s, 1, 1)[i] = s[i]
      <3>1. \A i \in 1 .. 1 : s[i] \in Words
        BY <1>1
      <3> QED  BY <3>1, SubSeqProperties
    <2>2. \A i \in 1 .. Len(SubSeq(s, 1, 1)) : SubSeq(s, 1, 1)[i] = <<"open">>[i]
      BY <1>1, <2>1
    <2> QED  BY <1>1, <2>1, <2>2, SeqEqual
  <1>4. <<>> \o s = s /\ <<>> \o <<"open">> = <<"open">>
    BY <1>1, ConcatEmptySeq
  <1>5. <<>> \o SubSeq(s, 1, 1) = <<"open">> /\ <<>> \o SubSeq(s, 1, 2) = s
    BY <1>2, <1>3, <1>4
  <1> QED  BY <1>5 DEF s

LEMMA OpensInv ==
    ASSUME Inv, NEW more \in BOOLEAN, ClientOpens(more)
    PROVE  /\ Inv' /\ ~Unanswered /\ route # "refused"
           /\ \A x : ~Told("client", x)
           /\ Told("client", "open")'
           /\ \/ /\ loop' = (route # "disconnect")
                 /\ Has("client", "data")' <=> Has("client", "data")
                 /\ ~Told("client", "message")'
              \/ /\ Has("client", "data") /\ ~Has("client", "data")'
                 /\ Told("client", "message")'
  <1>1. /\ state["client"] = "connecting" /\ at["client"] = "read_response"
        /\ wire["client"] # <<>> /\ Head(wire["client"]) = "response"
        /\ more => Len(wire["client"]) > 1 /\ wire["client"][2] = "data"
        /\ timer' = [timer EXCEPT !["client"] = Cancelled("client")]
        /\ state' = [state EXCEPT !["client"] = "open"]
        /\ at' = [at EXCEPT !["client"] = "frames"]
        /\ posted' = IF route = "send" THEN posted \cup {"client"} ELSE posted
        /\ route' = route /\ linked' = linked
    BY DEF ClientOpens, In
  <1>2. PICK n \in IF more THEN {1, 2} ELSE {1} :
          /\ wire' = [wire EXCEPT !["client"] = SubSeq(@, n + 1, Len(@))]
          /\ seen' = [seen EXCEPT !["client"] = @ \o SubSeq(<<"open", "message">>, 1, n)]
          /\ loop' = (route # "disconnect" /\ n = 1)
    BY DEF ClientOpens
  <1> DEFINE w == SubSeq(wire["client"], n + 1, Len(wire["client"]))
             s == seen["client"] \o SubSeq(<<"open", "message">>, 1, n)
  <1>3. /\ at'["client"] = "frames" /\ at'["server"] = at["server"]
        /\ state'["client"] = "open" /\ state'["server"] = state["server"]
        /\ timer'["client"] \in {"off", "due"} /\ timer'["server"] = timer["server"]
        /\ wire'["client"] = w /\ wire'["server"] = wire["server"]
        /\ seen'["client"] = s /\ seen'["server"] = seen["server"]
    BY <1>1, <1>2 DEF Inv, Types, Ends, Cancelled
  <1>4. ~Unanswered /\ route # "refused" /\ wire["client"] \in Behind("response")
    <2>1. wire["client"] # <<>> /\ wire["client"] # <<"eof">> /\ wire["client"] # <<"refusal">>
          /\ wire["client"] # <<"refusal", "eof">>
      BY <1>1, HeadTailShort
    <2> QED  BY <1>1, <2>1 DEF Inv, WiresFit, ClientWire
  <1>5. seen["client"] = <<>>
    BY <1>1, TellOpen DEF Inv, WiresFit, Ends
  <1>6. \A x : ~Told("client", x)
    <2>1. \A x : ~Contains(<<>>, x)
      BY ContainsShort
    <2> QED  BY <1>5, <2>1 DEF Told
  <1>7. /\ w \in Rest /\ (Contains(w, "eof") <=> Has("client", "eof"))
        /\ s \in Seq(Words) /\ s \in Tellings("frames", "open") /\ Contains(s, "open")
        /\ \/ n = 1 /\ (Contains(w, "data") <=> Has("client", "data")) /\ ~Contains(s, "message")
           \/ Has("client", "data") /\ ~Contains(w, "data") /\ Contains(s, "message")
    <2>1. /\ <<"open">> \in Tellings("frames", "open")
          /\ <<"open", "message">> \in Tellings("frames", "open")
          /\ Contains(<<"open">>, "open") /\ ~Contains(<<"open">>, "message")
          /\ Contains(<<"open", "message">>, "open") /\ Contains(<<"open", "message">>, "message")
          /\ <<"open">> \in Seq(Words) /\ <<"open", "message">> \in Seq(Words)
      <3>1. <<>> \in Tellings("read_response", "connecting")
        BY DEF Tellings
      <3> QED  BY <3>1, TellOpen
    <2>2. "response" \notin {"data", "eof"}
      OBVIOUS
    <2>3. CASE n = 1
      <3>1. w = SubSeq(wire["client"], 2, Len(wire["client"]))
        BY <2>3
      <3>2. w \in Rest /\ \A x \in {"data", "eof"} : Contains(w, x) <=> Contains(wire["client"], x)
        <4>1. /\ SubSeq(wire["client"], 2, Len(wire["client"])) = Tail(wire["client"])
              /\ Tail(wire["client"]) \in Rest
              /\ \A x \in {"data", "eof"} : Contains(Tail(wire["client"]), x) <=> Contains(wire["client"], x)
          BY <1>4, <2>2, ReadFirst
        <4>2. w = Tail(wire["client"])
          BY <3>1, <4>1, Zenon
        <4> HIDE DEF w
        <4> QED  BY <4>1, <4>2
      <3>3. s = <<"open">>
        <4>1. <<>> \o SubSeq(<<"open", "message">>, 1, 1) = <<"open">>
          BY TellOpening
        <4> QED  BY <1>5, <2>3, <4>1, Zenon
      <3> HIDE DEF w, s
      <3> QED  BY <2>1, <2>3, <3>2, <3>3 DEF Has
    <2>4. CASE n = 2
      <3>1. more
        BY <1>2, <2>4
      <3>2. w = SubSeq(wire["client"], 3, Len(wire["client"]))
        BY <2>4
      <3>3. /\ w \in {<<>>, <<"eof">>} /\ Contains(wire["client"], "data") /\ ~Contains(w, "data")
            /\ Contains(w, "eof") <=> Contains(wire["client"], "eof")
        <4>1. /\ SubSeq(wire["client"], 3, Len(wire["client"])) \in {<<>>, <<"eof">>}
              /\ Contains(wire["client"], "data")
              /\ ~Contains(SubSeq(wire["client"], 3, Len(wire["client"])), "data")
              /\ Contains(SubSeq(wire["client"], 3, Len(wire["client"])), "eof")
                    <=> Contains(wire["client"], "eof")
          BY <1>1, <1>4, <2>2, <3>1, ReadFirst
        <4> DEFINE rest == SubSeq(wire["client"], 3, Len(wire["client"]))
        <4>2. w = rest
          BY <3>2, Zenon
        <4> HIDE DEF w
        <4> QED  BY <4>1, <4>2, Zenon
      <3>4. s = <<"open", "message">>
        <4>1. <<>> \o SubSeq(<<"open", "message">>, 1, 2) = <<"open", "message">>
          BY TellOpening
        <4> QED  BY <1>5, <2>4, <4>1, Zenon
      <3> HIDE DEF w, s
      <3>5. w \in Rest
        BY <3>3 DEF Rest
      <3> QED  BY <2>1, <2>4, <3>3, <3>4, <3>5 DEF Has
    <2> QED  BY <1>2, <2>3, <2>4
  <1> HIDE DEF w, s
  <1>8. /\ Told("client", "open")' /\ (Has("client", "eof")' <=> Has("client", "eof"))
        /\ \A x : (Has("server", x)' <=> Has("server", x)) /\ (Told("server", x)' <=> Told("server", x))
        /\ \/ /\ n = 1 /\ ~Told("client", "message")'
              /\ Has("client", "data")' <=> Has("client", "data")
           \/ Has("client", "data") /\ ~Has("client", "data")' /\ Told("client", "message")'
    BY <1>3, <1>7 DEF Has, Told
  <1>9. Types'
    <2>1. Rest \subseteq Seq(Items)
      BY DEF Rest, Items
    <2>2. wire' \in [Ends -> Seq(Items)]
      BY <1>2, <1>7, <2>1 DEF Inv, Types, w
    <2>3. seen' \in [Ends -> Seq(Words)]
      BY <1>2, <1>7 DEF Inv, Types, s
    <2>4. /\ timer' \in [Ends -> {"off", "armed", "due"}]
          /\ state' \in [Ends -> {"absent", "connecting", "open", "closed", "gone"}]
      BY <1>1 DEF Inv, Types, Ends, Cancelled
    <2>5. at' \in [Ends -> Steps["client"] \cup Steps["server"]] /\ \A e \in Ends : at'[e] \in Steps[e]
      BY <1>1 DEF Inv, Types, Ends, Steps
    <2>6. posted' \subseteq Ends /\ loop' \in BOOLEAN
      BY <1>1, <1>2 DEF Inv, Types, Ends
    <2> QED  BY <1>1, <2>2, <2>3, <2>4, <2>5, <2>6 DEF Inv, Types
  <1>10. StepsFit'
    BY <1>1, <1>3, <1>4 DEF Inv, StepsFit, Unanswered
  <1>11. WiresFit'
    <2>1. \A e \in Ends : seen'[e] \in Tellings(at'[e], state'[e])
      BY <1>3, <1>7 DEF Inv, WiresFit, Ends
    <2>2. wire'["server"] \in ServerWire' /\ wire'["client"] \in ClientWire'
      BY <1>1, <1>3, <1>4, <1>7 DEF Inv, WiresFit, ServerWire, ClientWire, Unanswered, Rest
    <2>3. \A e \in Ends : Has(e, "eof")' <=> linked' /\ state'[Peer(e)] \in {"closed", "gone"}
      BY <1>1, <1>3, <1>8 DEF Inv, WiresFit, Peer, Ends
    <2> QED  BY <2>1, <2>2, <2>3 DEF WiresFit
  <1>12. MessagesFit'
    <2>1. ~Has("server", "data") /\ ~Told("server", "message")
      BY <1>1 DEF Inv, MessagesFit
    <2>2. "server" \in posted' <=> "server" \in posted
      BY <1>1
    <2> QED  BY <1>1, <1>3, <1>6, <1>8, <2>1, <2>2 DEF Inv, MessagesFit, Handled
  <1>13. TimersFit'
    BY <1>1, <1>3 DEF Inv, TimersFit, Ends
  <1> QED  BY <1>2, <1>4, <1>6, <1>8, <1>9, <1>10, <1>11, <1>12, <1>13 DEF Inv

-----------------------------------------------------------------------------
(* What holds in every state.                                              *)

\* Every step, by what the invariant needs to know of it.
LEMMA NextSteps ==
    ASSUME Next
    PROVE  \/ Terminates
           \/ HandleResolve \/ Establish \/ HandleSendRequest \/ HandleAccept \/ RunAgain
           \/ HandleConnect \/ HandleReadHandshake \/ HandleWriteResponse
           \/ \E more \in BOOLEAN : ClientOpens(more)
           \/ \E e \in Ends : Expire(e) \/ Gone(e) \/ WriteFrame(e) \/ HandleReadFrame(e)
  BY DEF Next, ClientHandler, ServerHandler, Terminates, Ends

LEMMA NextInv == Inv /\ [Next]_vars => Inv'
  <1> SUFFICES ASSUME Inv, [Next]_vars PROVE Inv'
    OBVIOUS
  <1>1. CASE UNCHANGED vars
    <2>1. /\ route' = route /\ linked' = linked /\ state' = state /\ at' = at /\ timer' = timer
          /\ wire' = wire /\ posted' = posted /\ loop' = loop /\ seen' = seen
      BY <1>1 DEF vars
    <2>2. StepsFit' /\ WiresFit' /\ MessagesFit'
      BY <2>1, SameFits
    <2>3. Types' /\ TimersFit'
      BY <2>1 DEF Inv, Types, TimersFit
    <2> QED  BY <2>2, <2>3 DEF Inv
  <1>2. CASE Terminates
    BY <1>2, TerminatesInv
  <1>3. CASE \/ HandleResolve \/ Establish \/ HandleSendRequest \/ HandleAccept \/ RunAgain
             \/ \E e \in Ends : Expire(e)
    <2>1. UNCHANGED <<wire, seen, posted, route>>
      BY <1>3 DEF HandleResolve, Establish, HandleSendRequest, HandleAccept, RunAgain, Expire
    <2> QED  BY <1>3, <2>1, QuietInv
  <1>4. CASE HandleConnect \/ HandleReadHandshake \/ HandleWriteResponse
    BY <1>4, ConnectInv, ReadHandshakeInv, WriteResponseInv
  <1>5. CASE \E more \in BOOLEAN : ClientOpens(more)
    BY <1>5, OpensInv
  <1>6. CASE \E e \in Ends : Gone(e) \/ WriteFrame(e) \/ HandleReadFrame(e)
    BY <1>6, GoneInv, WriteFrameInv, ReadFrameInv
  <1> QED  BY <1>1, <1>2, <1>3, <1>4, <1>5, <1>6, NextSteps

\* The invariant holds of every run of Websocket.
THEOREM WebsocketInvariant == Spec => []Inv
  <1>1. Init => Inv
    BY InitInv
  <1>2. Inv /\ [Next]_vars => Inv'
    BY NextInv
  <1> QED  BY <1>1, <1>2, PTL DEF Spec

\* At most three things are on the way to a side.
LEMMA WiresShort ==
    ASSUME Inv
    PROVE  \A e \in Ends : Len(wire[e]) <= 3
  <1>1. ASSUME NEW first, NEW w \in Rest \cup Behind(first)
        PROVE  Len(w) <= 3
    <2>1. CASE w = <<>>
      BY <2>1
    <2>2. CASE \E a : w = <<a>>
      BY <2>2
    <2>3. CASE \E a, b : w = <<a, b>>
      BY <2>3
    <2>4. CASE w = <<first, "data", "eof">>
      BY <2>4
    <2> QED  BY <1>1, <2>1, <2>2, <2>3, <2>4, Zenon DEF Rest, Behind
  <1>2. \A e \in Ends : \E first : wire[e] \in Rest \cup Behind(first)
    <2>1. wire["server"] \in Rest \cup Behind("request")
      BY DEF Inv, WiresFit, ServerWire, Rest, Behind
    <2>2. wire["client"] \in Rest \cup Behind("refusal") \/ wire["client"] \in Rest \cup Behind("response")
      BY DEF Inv, WiresFit, ClientWire, Rest, Behind
    <2> QED  BY <2>1, <2>2 DEF Ends
  <1> QED  BY <1>1, <1>2

\* Every variable has its type, and never are more than three things on the way
\* to a side of the connection.
THEOREM TypeCorrect == Spec => []TypeOK
  <1>1. Inv => TypeOK
    BY WiresShort DEF Inv, Types, TypeOK, Items, Words, Ends
  <1> QED  BY <1>1, WebsocketInvariant, PTL

\* Whatever timers expire and whichever process ends, a handler of VisaWsServer
\* or Session is told of one open before any message, of at most one message,
\* and of nothing behind the close.
THEOREM HandlersAreInOrder == Spec => []HandlersInOrder
  <1>1. Inv => HandlersInOrder
    <2> SUFFICES ASSUME Inv, NEW e \in Ends
                 PROVE  seen[e] \in {<<>>, <<"fail">>, <<"open">>, <<"open", "message">>,
                                    <<"open", "close">>, <<"open", "message", "close">>}
      BY DEF HandlersInOrder
    <2>1. seen[e] \in Tellings(at[e], state[e])
      BY DEF Inv, WiresFit
    <2>2. CASE at[e] = "frames"
      BY <2>1, <2>2 DEF Tellings
    <2>3. CASE at[e] # "frames"
      BY <2>1, <2>3 DEF Tellings
    <2> QED  BY <2>2, <2>3
  <1> QED  BY <1>1, WebsocketInvariant, PTL

-----------------------------------------------------------------------------
(* A websocket gives a call what WsCall says.  Each step of Websocket is a *)
(* step of the call, or one the call does not see.                         *)

LEMMA CallStutters ==
    ASSUME route' = route, Stage' = Stage, Outcome' = Outcome
    PROVE  [Call!Next]_(Call!vars)
  BY DEF Call!vars

\* What the stage, and the outcome, of a call depend on.
LEMMA SameStage ==
    ASSUME route' = route,
           at'["server"] \in {"process_request", "frames"} <=> at["server"] \in {"process_request", "frames"},
           state'["server"] \in {"closed", "gone"} <=> state["server"] \in {"closed", "gone"},
           Handled' <=> Handled,
           Has("client", "data")' <=> Has("client", "data"),
           Has("server", "data")' <=> Has("server", "data"),
           Told("client", "message")' <=> Told("client", "message")
    PROVE  Stage' = Stage
  BY DEF Stage

LEMMA SameOutcome ==
    ASSUME route' = route,
           state'["client"] = state["client"],
           Told("client", "message")' <=> Told("client", "message"),
           Told("client", "open")' <=> Told("client", "open")
    PROVE  Outcome' = Outcome
  BY DEF Outcome

\* The server's handler has run only if it was told so.
LEMMA HandledTold ==
    ASSUME Inv
    PROVE  /\ Handled => at["server"] = "frames"
           /\ route = "send" => (Handled <=> Told("server", "message"))
           /\ Told("client", "message") => Handled
           /\ Has("client", "data") => Handled
  <1>1. Told("server", "open") \/ Told("server", "message") => at["server"] = "frames"
    <2>1. /\ seen["server"] \in Tellings(at["server"], state["server"])
          /\ state["server"] \in {"absent", "connecting", "open", "closed", "gone"}
      BY DEF Inv, Types, WiresFit, Ends
    <2> QED  BY <2>1, TellingsShape DEF Told
  <1> QED  BY <1>1 DEF Handled, Inv, MessagesFit

\* The steps nobody is told anything by.
LEMMA QuietCall ==
    ASSUME Inv,
           \/ \E e \in Ends : Expire(e)
           \/ HandleResolve \/ Establish \/ HandleSendRequest \/ HandleAccept \/ RunAgain
           \/ HandleConnect
    PROVE  [Call!Next]_(Call!vars)
  <1>1. /\ route' = route /\ seen' = seen
        /\ state'["client"] = state["client"]
        /\ state'["server"] \in {"closed", "gone"} <=> state["server"] \in {"closed", "gone"}
        /\ at'["server"] \in {"process_request", "frames"} <=> at["server"] \in {"process_request", "frames"}
    <2>1. CASE HandleAccept
      BY <2>1 DEF HandleAccept, Inv, Types, Ends
    <2>2. CASE HandleConnect \/ HandleResolve \/ HandleSendRequest
      BY <2>2 DEF HandleConnect, HandleResolve, HandleSendRequest, Inv, Types, Ends
    <2>3. CASE Establish \/ RunAgain \/ \E e \in Ends : Expire(e)
      BY <2>3 DEF Establish, RunAgain, Expire
    <2> QED  BY <2>1, <2>2, <2>3
  <1>2. \A e \in Ends : Has(e, "data")' <=> Has(e, "data")
    <2>1. CASE HandleConnect
      BY <2>1, ConnectInv
    <2>2. CASE ~HandleConnect
      <3>1. wire' = wire
        BY <2>2 DEF HandleResolve, Establish, HandleSendRequest, HandleAccept, RunAgain, Expire
      <3> QED  BY <3>1 DEF Has
    <2> QED  BY <2>1, <2>2
  <1>3. \A e \in Ends : \A x : Told(e, x)' <=> Told(e, x)
    BY <1>1 DEF Told
  <1>4. Handled' <=> Handled
    BY <1>1, <1>3 DEF Handled, Ends
  <1>5. Stage' = Stage
    BY <1>1, <1>2, <1>3, <1>4, SameStage DEF Ends
  <1>6. Outcome' = Outcome
    BY <1>1, <1>3, SameOutcome DEF Ends
  <1> QED  BY <1>1, <1>5, <1>6, CallStutters

\* The answer to the handshake is out.
LEMMA ReadHandshakeCall ==
    ASSUME Inv, HandleReadHandshake
    PROVE  [Call!Next]_(Call!vars)
  <1>1. /\ state["server"] = "connecting" /\ at["server"] = "read_request"
        /\ at' = [at EXCEPT !["server"] = "process_request"]
        /\ route' = route /\ state' = state /\ seen' = seen
    BY DEF HandleReadHandshake, In
  <1>2. at'["server"] = "process_request"
    BY <1>1 DEF Inv, Types, Ends
  <1>3. \A e \in Ends : \A x : Told(e, x)' <=> Told(e, x)
    BY <1>1 DEF Told
  <1>4. Outcome' = Outcome
    BY <1>1, <1>3, SameOutcome DEF Ends
  <1>5. /\ ~Handled /\ ~Told("client", "message")
        /\ ~Handled' /\ ~Told("client", "message")'
    BY <1>1, <1>3, HandledTold DEF Handled, Ends
  <1>6. Stage = "sent" /\ Stage' = IF route = "refused" THEN "sent" ELSE "opened"
    <2>1. \A e \in Ends : ~Has(e, "data") /\ ~Has(e, "data")'
      BY ReadHandshakeInv
    <2> QED  BY <1>1, <1>2, <1>5, <2>1 DEF Stage, Ends
  <1>7. CASE route = "refused"
    BY <1>1, <1>4, <1>6, <1>7, CallStutters
  <1>8. CASE route # "refused"
    <2>1. Call!Answer
      BY <1>4, <1>6, <1>8 DEF Call!Answer
    <2> QED  BY <1>1, <2>1 DEF Call!Next
  <1> QED  BY <1>7, <1>8

\* The server is open: its handler runs, unless it waits for a payload.
LEMMA WriteResponseCall ==
    ASSUME Inv, HandleWriteResponse
    PROVE  [Call!Next]_(Call!vars)
  <1>1. /\ state["server"] = "connecting" /\ at["server"] = "process_request" /\ route # "refused"
        /\ state' = [state EXCEPT !["server"] = "open"]
        /\ at' = [at EXCEPT !["server"] = "frames"]
        /\ seen' = [seen EXCEPT !["server"] = Append(@, "open")]
        /\ route' = route /\ wire' = wire
    BY DEF HandleWriteResponse, In
  <1>2. /\ at'["server"] = "frames" /\ state'["server"] = "open" /\ state'["client"] = state["client"]
        /\ seen'["client"] = seen["client"]
    BY <1>1 DEF Inv, Types, Ends
  <1>3. /\ \A x : Told("client", x)' <=> Told("client", x)
        /\ \A e \in Ends : \A x : Has(e, x)' <=> Has(e, x)
    BY <1>1, <1>2 DEF Told, Has
  <1>4. /\ Told("server", "open")' /\ ~Told("server", "message")'
        /\ ~Has("client", "data") /\ ~Told("client", "message") /\ ~Handled
    BY <1>1, WriteResponseInv, HandledTold
  <1>5. Outcome' = Outcome
    BY <1>1, <1>2, <1>3, SameOutcome
  <1>6. CASE route = "send"
    <2>1. ~Handled'
      BY <1>1, <1>4, <1>6 DEF Handled
    <2>2. Stage' = Stage
      BY <1>1, <1>2, <1>3, <1>4, <2>1, SameStage DEF Ends
    <2> QED  BY <1>1, <1>5, <2>2, CallStutters
  <1>7. CASE route # "send"
    <2>1. Handled' /\ ~Has("server", "data")
      BY <1>1, <1>4, <1>7 DEF Handled, Inv, MessagesFit
    <2>2. Stage = "opened" /\ Stage' = "served"
      BY <1>1, <1>2, <1>3, <1>4, <2>1 DEF Stage, Ends
    <2>3. Call!Serve
      BY <1>5, <1>7, <2>2 DEF Call!Serve
    <2> QED  BY <1>1, <2>3 DEF Call!Next
  <1> QED  BY <1>6, <1>7

\* The client sees the answer: viClose leaves, a message that came with it
\* finishes the call, any other waits on.
LEMMA OpensCall ==
    ASSUME Inv, NEW more \in BOOLEAN, ClientOpens(more)
    PROVE  [Call!Next]_(Call!vars)
  <1>1. /\ state["client"] = "connecting" /\ state' = [state EXCEPT !["client"] = "open"]
        /\ at' = [at EXCEPT !["client"] = "frames"] /\ route' = route
    BY DEF ClientOpens, In
  <1>2. /\ at'["server"] = at["server"] /\ state'["server"] = state["server"]
        /\ state'["client"] = "open"
        /\ wire'["server"] = wire["server"] /\ seen'["server"] = seen["server"]
    <2>1. /\ wire'["server"] = wire["server"] /\ seen'["server"] = seen["server"]
      BY DEF ClientOpens, Inv, Types, Ends
    <2> QED  BY <1>1, <2>1 DEF Inv, Types, Ends
  <1>3. \A x : /\ Has("server", x)' <=> Has("server", x)
               /\ Told("server", x)' <=> Told("server", x)
    BY <1>2 DEF Has, Told
  <1>4. Handled' <=> Handled
    BY <1>1, <1>3 DEF Handled
  <1>5. /\ ~Unanswered /\ route # "refused" /\ Told("client", "open")'
        /\ \A x : ~Told("client", x)
        /\ \/ /\ Has("client", "data")' <=> Has("client", "data")
              /\ ~Told("client", "message")'
           \/ /\ Has("client", "data") /\ ~Has("client", "data")'
              /\ Told("client", "message")'
    BY OpensInv
  <1>6. Outcome = "waiting"
    BY <1>1, <1>5 DEF Outcome
  <1>7. Stage' = Stage /\ Stage # "sent"
    <2>1. at["server"] \in {"process_request", "frames"}
      BY <1>5 DEF Inv, Types, Unanswered, Steps, Ends
    <2> QED  BY <1>1, <1>2, <1>3, <1>4, <1>5, <2>1 DEF Stage
  <1>8. CASE Told("client", "message")'
    <2>1. Stage = "replied" /\ Outcome' = "answered"
      BY <1>5, <1>8 DEF Stage, Outcome
    <2>2. Call!Finish
      BY <1>6, <1>7, <2>1 DEF Call!Finish, Call!Waiting
    <2> QED  BY <1>1, <2>2 DEF Call!Next
  <1>9. CASE ~Told("client", "message")' /\ route = "disconnect"
    <2>1. Outcome' = "left"
      BY <1>1, <1>5, <1>9 DEF Outcome
    <2>2. Call!Leave
      BY <1>6, <1>7, <1>9, <2>1 DEF Call!Leave, Call!Waiting
    <2> QED  BY <1>1, <2>2 DEF Call!Next
  <1>10. CASE ~Told("client", "message")' /\ route # "disconnect"
    <2>1. Outcome' = "waiting"
      BY <1>1, <1>2, <1>10 DEF Outcome
    <2> QED  BY <1>1, <1>6, <1>7, <2>1, CallStutters
  <1> QED  BY <1>8, <1>9, <1>10

\* A message goes out: the payload of the client, or the server's answer.
LEMMA WriteFrameCall ==
    ASSUME Inv, NEW e \in Ends, WriteFrame(e)
    PROVE  [Call!Next]_(Call!vars)
  <1>1. /\ route' = route /\ state' = state /\ at' = at /\ seen' = seen
    BY DEF WriteFrame
  <1>2. \A x \in Ends : \A y : Told(x, y)' <=> Told(x, y)
    BY <1>1 DEF Told
  <1>3. /\ ~Has(Peer(e), "data") /\ ~Told(Peer(e), "message")
        /\ e = "client" => route = "send"
        /\ e = "server" => route \in {"connect", "send"} /\ Handled
        /\ Has(e, "data")' <=> Has(e, "data")
        /\ Has(Peer(e), "data")' <=> state[e] = "open"
    BY WriteFrameInv
  <1>4. Outcome' = Outcome
    BY <1>1, <1>2, SameOutcome DEF Ends
  <1>5. Handled' <=> Handled
    BY <1>1, <1>2 DEF Handled, Ends
  <1>6. CASE state[e] # "open"
    <2>1. \A x \in Ends : Has(x, "data")' <=> Has(x, "data")
      BY <1>3, <1>6 DEF Peer, Ends
    <2>2. Stage' = Stage
      BY <1>1, <1>2, <1>5, <2>1, SameStage DEF Ends
    <2> QED  BY <1>1, <1>4, <2>2, CallStutters
  <1>7. CASE e = "client" /\ state[e] = "open"
    <2>1. /\ Peer(e) = "server" /\ route = "send" /\ ~Handled
          /\ ~Has("client", "data") /\ ~Told("client", "message")
      BY <1>3, <1>7, HandledTold DEF Peer
    <2>2. /\ ~Has("server", "data") /\ Has("server", "data")'
          /\ ~Has("client", "data")' /\ ~Told("client", "message")' /\ ~Handled'
      BY <1>2, <1>3, <1>5, <1>7, <2>1 DEF Ends
    <2>3. CASE state["server"] \in {"closed", "gone"}
      <3>1. Stage = "ended" /\ Stage' = "ended"
        BY <1>1, <2>1, <2>2, <2>3 DEF Stage
      <3> QED  BY <1>1, <1>4, <3>1, CallStutters
    <2>4. CASE state["server"] \notin {"closed", "gone"}
      <3>1. at["server"] \in {"process_request", "frames"}
        <4>1. at["client"] = "frames"
          BY <1>7 DEF Inv, WiresFit, Tellings, Ends
        <4> QED  BY <4>1 DEF Inv, Types, StepsFit, Unanswered, Steps, Ends
      <3>2. Stage = "opened" /\ Stage' = "message"
        BY <1>1, <2>1, <2>2, <2>4, <3>1 DEF Stage
      <3>3. Outcome = "waiting"
        BY <1>7, <2>1 DEF Outcome
      <3>4. Call!Speak
        BY <1>4, <2>1, <3>2, <3>3 DEF Call!Speak, Call!Waiting
      <3> QED  BY <1>1, <3>4 DEF Call!Next
    <2> QED  BY <2>3, <2>4
  <1>8. CASE e = "server" /\ state[e] = "open"
    <2>1. /\ Peer(e) = "client" /\ route \in {"connect", "send"} /\ Handled
          /\ ~Has("client", "data") /\ ~Told("client", "message") /\ Has("client", "data")'
      BY <1>3, <1>8 DEF Peer
    <2>2. Stage = "served" /\ Stage' = "replied"
      BY <1>8, <2>1 DEF Stage
    <2>3. Call!Reply
      BY <1>4, <2>1, <2>2 DEF Call!Reply
    <2> QED  BY <1>1, <2>3 DEF Call!Next
  <1> QED  BY <1>6, <1>7, <1>8 DEF Ends

\* A message is read: the client has its answer, the server runs its handler.
LEMMA ReadFrameCall ==
    ASSUME Inv, NEW e \in Ends, HandleReadFrame(e)
    PROVE  [Call!Next]_(Call!vars)
  <1>1. /\ state[e] = "open" /\ route' = route /\ state' = state /\ at' = at
    BY DEF HandleReadFrame
  <1>2. /\ Has(e, "data") /\ ~Has(e, "data")' /\ ~Told(e, "message") /\ Told(e, "message")'
        /\ Told(e, "open")' <=> Told(e, "open")
        /\ \A x : (Has(Peer(e), x)' <=> Has(Peer(e), x)) /\ (Told(Peer(e), x)' <=> Told(Peer(e), x))
        /\ e = "server" => route = "send"
    BY ReadFrameInv
  <1>3. CASE e = "client"
    <2>1. /\ Stage = "replied" /\ Stage' = "replied"
      BY <1>2, <1>3 DEF Stage
    <2>2. Outcome = "waiting" /\ Outcome' = "answered"
      <3>1. route # "disconnect"
        BY <1>2, <1>3 DEF Inv, MessagesFit
      <3> QED  BY <1>1, <1>2, <1>3, <3>1 DEF Outcome
    <2>3. Call!Finish
      BY <2>1, <2>2 DEF Call!Finish, Call!Waiting
    <2> QED  BY <1>1, <2>3 DEF Call!Next
  <1>4. CASE e = "server"
    <2>1. /\ Peer(e) = "client" /\ route = "send" /\ ~Handled
          /\ ~Has("client", "data") /\ ~Told("client", "message")
      BY <1>2, <1>4, HandledTold DEF Peer
    <2>2. /\ Handled' /\ ~Has("client", "data")' /\ ~Told("client", "message")'
      BY <1>1, <1>2, <1>4, <2>1 DEF Handled
    <2>3. Stage = "message" /\ Stage' = "served"
      BY <1>1, <1>2, <1>4, <2>1, <2>2 DEF Stage
    <2>4. Outcome' = Outcome
      BY <1>1, <1>2, <1>4, <2>1, SameOutcome
    <2>5. Call!Serve
      BY <2>1, <2>3, <2>4 DEF Call!Serve
    <2> QED  BY <1>1, <2>5 DEF Call!Next
  <1> QED  BY <1>3, <1>4 DEF Ends

\* A step after which the server's side is over ends the call, unless the answer
\* is out or the call has ended before.
LEMMA ServerEnds ==
    ASSUME Inv, route' = route, at' = at,
           state'["client"] = state["client"], state'["server"] \in {"closed", "gone"},
           \A x \in Ends : /\ Has(x, "data")' <=> Has(x, "data")
                           /\ Told(x, "open")' <=> Told(x, "open")
                           /\ Told(x, "message")' <=> Told(x, "message")
    PROVE  [Call!Next]_(Call!vars)
  <1>1. Outcome' = Outcome
    BY SameOutcome DEF Ends
  <1>2. /\ Has("client", "data")' <=> Has("client", "data")
        /\ Told("client", "message")' <=> Told("client", "message")
    BY DEF Ends
  <1>3. CASE Has("client", "data") \/ Told("client", "message")
    <2>1. Stage' = Stage
      BY <1>2, <1>3 DEF Stage
    <2> QED  BY <1>1, <2>1, CallStutters
  <1>4. CASE ~Has("client", "data") /\ ~Told("client", "message")
    <2>1. Stage' = "ended" /\ Stage \in {"sent", "opened", "message", "served", "ended"}
      BY <1>2, <1>4 DEF Stage
    <2>2. CASE Stage = "ended"
      BY <1>1, <2>1, <2>2, CallStutters
    <2>3. CASE Stage # "ended"
      <3>1. Call!End
        BY <1>1, <2>1, <2>3 DEF Call!End
      <3> QED  BY <3>1 DEF Call!Next
    <2> QED  BY <2>2, <2>3
  <1> QED  BY <1>3, <1>4

\* What a step that ends the client's side leaves of the stage.
LEMMA ClientEndsStage ==
    ASSUME Inv, route' = route, at' = at, state'["server"] = state["server"],
           \A x \in Ends : /\ Has(x, "data")' <=> Has(x, "data")
                           /\ Told(x, "open")' <=> Told(x, "open")
                           /\ Told(x, "message")' <=> Told(x, "message")
    PROVE  Stage' = Stage
  <1>1. Handled' <=> Handled
    BY DEF Handled, Ends
  <1> QED  BY <1>1, SameStage DEF Ends

\* A client that is ended before it has sent its payload, or because the server's
\* side is over, has got no further than that.
LEMMA EarlyStage ==
    ASSUME Inv, route = "send", ~Told("client", "message"),
           state["client"] \in {"connecting", "open"},
           PayloadOut => Has("client", "eof") /\ ~Has("client", "data")
    PROVE  Stage \in {"sent", "opened", "ended"}
  <1>1. CASE PayloadOut
    <2>1. state["server"] \in {"closed", "gone"}
      BY <1>1 DEF Inv, WiresFit, Ends, Peer
    <2> QED  BY <1>1, <2>1 DEF Stage
  <1>2. CASE ~PayloadOut
    <2>1. state["client"] = "connecting" => at["client"] # "frames"
      BY DEF Inv, WiresFit, Tellings, Ends
    <2>2. ~Has("server", "data") /\ ~Told("server", "message")
      BY <1>2, <2>1 DEF PayloadOut, Inv, MessagesFit
    <2>3. ~Handled /\ ~Has("client", "data")
      BY <2>2, HandledTold
    <2> QED  BY <2>2, <2>3 DEF Stage
  <1> QED  BY <1>1, <1>2

LEMMA TerminatesCall ==
    ASSUME Inv, Terminates
    PROVE  [Call!Next]_(Call!vars)
  <1>1. PICK e \in Ends : \E t \in {"off", timer[e]} :
            /\ Terminate(e, t) /\ state[e] \in {"connecting", "open", "closed"}
            /\ e = "client" /\ PayloadOut => Has("client", "eof") /\ ~Has("client", "data")
    BY WhoTerminates
  <1>2. PICK t \in {"off", timer[e]} :
            /\ Terminate(e, t) /\ state[e] \in {"connecting", "open", "closed"}
            /\ e = "client" /\ PayloadOut => Has("client", "eof") /\ ~Has("client", "data")
    BY <1>1
  <1>3. \A x \in Ends : /\ Has(x, "data")' <=> Has(x, "data")
                        /\ Told(x, "open")' <=> Told(x, "open")
                        /\ Told(x, "message")' <=> Told(x, "message")
    BY <1>2, TerminateInv
  <1>4. /\ route' = route /\ at' = at /\ state'[e] = "closed"
        /\ \A x \in Ends : x # e => state'[x] = state[x]
    <2>1. route' = route /\ at' = at
      BY <1>2 DEF Terminate
    <2>2. state' = [state EXCEPT ![e] = "closed"] \/ (state' = state /\ state[e] = "closed")
      BY <1>2 DEF Terminate
    <2> QED  BY <2>1, <2>2 DEF Inv, Types
  <1>5. CASE e = "server"
    BY <1>3, <1>4, <1>5, ServerEnds DEF Ends
  <1>6. CASE e = "client"
    <2>1. Stage' = Stage
      BY <1>3, <1>4, <1>6, ClientEndsStage DEF Ends
    <2>2. /\ Told("client", "open")' <=> Told("client", "open")
          /\ Told("client", "message")' <=> Told("client", "message")
          /\ state'["client"] = "closed" /\ state["client"] \in {"connecting", "open", "closed"}
      BY <1>2, <1>3, <1>4, <1>6 DEF Ends
    <2>3. CASE Outcome # "waiting"
      <3>1. Outcome' = Outcome
        BY <1>4, <2>2, <2>3 DEF Outcome
      <3> QED  BY <1>4, <2>1, <3>1, CallStutters
    <2>4. CASE Outcome = "waiting"
      <3>1. /\ Outcome' = "failed" /\ ~Told("client", "message")
            /\ state["client"] \in {"connecting", "open"}
        BY <1>4, <2>2, <2>4 DEF Outcome
      <3>2. route = "send" => Stage \in {"sent", "opened", "ended"}
        BY <1>2, <1>6, <3>1, EarlyStage
      <3>3. Call!GiveUp
        BY <2>1, <2>4, <3>1, <3>2 DEF Call!GiveUp, Call!Waiting
      <3> QED  BY <1>4, <3>3 DEF Call!Next
    <2> QED  BY <2>3, <2>4
  <1> QED  BY <1>5, <1>6 DEF Ends

LEMMA GoneCall ==
    ASSUME Inv, NEW e \in Ends, Gone(e)
    PROVE  [Call!Next]_(Call!vars)
  <1>1. /\ state[e] # "gone" /\ state' = [state EXCEPT ![e] = "gone"]
        /\ route' = route /\ at' = at /\ seen' = seen
    BY DEF Gone
  <1>2. state'[e] = "gone" /\ \A x \in Ends : x # e => state'[x] = state[x]
    BY <1>1 DEF Inv, Types
  <1>3. \A x \in Ends : /\ Has(x, "data")' <=> Has(x, "data")
                        /\ Told(x, "open")' <=> Told(x, "open")
                        /\ Told(x, "message")' <=> Told(x, "message")
    BY <1>1, GoneInv DEF Told
  <1>4. CASE e = "server"
    BY <1>1, <1>2, <1>3, <1>4, ServerEnds DEF Ends
  <1>5. CASE e = "client"
    <2>1. Stage' = Stage
      BY <1>1, <1>2, <1>3, <1>5, ClientEndsStage DEF Ends
    <2>2. /\ Told("client", "open")' <=> Told("client", "open")
          /\ Told("client", "message")' <=> Told("client", "message")
          /\ state'["client"] = "gone" /\ state["client"] # "gone"
      BY <1>1, <1>2, <1>3, <1>5 DEF Ends
    <2>3. CASE Outcome \notin {"waiting", "failed"}
      <3>1. Outcome' = Outcome
        BY <1>1, <2>2, <2>3 DEF Outcome
      <3> QED  BY <1>1, <2>1, <3>1, CallStutters
    <2>4. CASE Outcome \in {"waiting", "failed"}
      <3>1. Outcome' = "gone"
        BY <1>1, <2>2, <2>4 DEF Outcome
      <3>2. Call!Vanish
        BY <2>1, <2>4, <3>1 DEF Call!Vanish
      <3> QED  BY <1>1, <3>2 DEF Call!Next
    <2> QED  BY <2>3, <2>4
  <1> QED  BY <1>4, <1>5 DEF Ends

\* A websocket of avisa, with its timers, its handshake and both its ends,
\* implements the call that VisaSessions and VisaIo are written with: whatever
\* happens, a step of the one is a step of the other or one it does not see.
THEOREM WebsocketIsACall == Spec => ImplementsCall
  <1>1. Init => Call!Init
    <2> SUFFICES ASSUME Init PROVE Call!Init
      OBVIOUS
    <2>1. \A e \in Ends : \A x : ~Has(e, x) /\ ~Told(e, x)
      <3>1. \A x : ~Contains(<<>>, x)
        BY ContainsShort
      <3> QED  BY <3>1 DEF Init, Has, Told
    <2>2. Stage = "sent" /\ Outcome = "waiting"
      BY <2>1 DEF Init, Stage, Outcome, Handled, Ends
    <2> QED  BY <2>2, RoutesAssumption DEF Init, Call!Init
  <1>2. Inv /\ [Next]_vars => [Call!Next]_(Call!vars)
    <2> SUFFICES ASSUME Inv, [Next]_vars PROVE [Call!Next]_(Call!vars)
      OBVIOUS
    <2>1. CASE UNCHANGED vars
      <3>1. /\ route' = route /\ state' = state /\ at' = at /\ wire' = wire /\ seen' = seen
        BY <2>1 DEF vars
      <3>2. Stage' = Stage /\ Outcome' = Outcome
        BY <3>1 DEF Stage, Outcome, Handled, Has, Told
      <3> QED  BY <3>1, <3>2, CallStutters
    <2>2. CASE Next
      BY <2>2, NextSteps, TerminatesCall, QuietCall, ReadHandshakeCall, WriteResponseCall,
         OpensCall, GoneCall, WriteFrameCall, ReadFrameCall
    <2> QED  BY <2>1, <2>2
  <1> QED  BY <1>1, <1>2, WebsocketInvariant, PTL DEF Spec, ImplementsCall, Call!Spec

=============================================================================
