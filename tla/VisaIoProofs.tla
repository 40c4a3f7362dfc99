---------------------------- MODULE VisaIoProofs ----------------------------
(* Proofs about VisaIo, for any number of applications, instruments,       *)
(* requests and writes, with or without time-outs and ends of the server.  *)
EXTENDS VisaIo, SequenceTheorems, TLAPS

-----------------------------------------------------------------------------
(* The inductive invariant.                                                *)

\* A request its application waits for is that of the call it is in, has an
\* open websocket, and is the only one.
LiveWaits ==
    /\ \A q \in reqs : q.live => pc[q.app] = q.kind /\ conn[q.app]
    /\ \A p, q \in reqs : p.live /\ q.live /\ p.app = q.app => p = q

\* A viWrite whose payload is out is waited for.
WritesLive ==
    \A q \in reqs : q.kind = "write" /\ q.stage \notin {"sent", "opened"} => q.live

\* The server is in a read() of a stream for a request that is there.
BusyReads ==
    /\ busy \subseteq {q.slot : q \in reqs}
    /\ \A q \in reqs : q.slot \in busy =>
          q.kind = "read" /\ q.stage = "opened" /\ Res(q) \in Blocking

\* An application inside a call, or dead, has no result of it.
NoResultYet == \A a \in Apps : pc[a] # "idle" => last[a] = NoResult

\* What a request says of its message's being taken.
MessageTaken ==
    \A q \in reqs : q.live /\ q.kind = "write" =>
        /\ q.stage \in {"sent", "opened", "message"} => taken[q.app] = 0
        /\ q.stage = "replied" /\ q.ret = "count" => taken[q.app] = 1

Current(a) == [app |-> a, no |-> writes[a]]

NothingHeld(r) == owed[r] = <<>> /\ ready[r] = <<>>

Holds(r, answer) ==
    \/ owed[r] = <<answer>> /\ ready[r] = <<>>
    \/ owed[r] = <<>> /\ ready[r] \in Rests(BytesOf(r, answer))

\* A USBTMC instrument has one answer at most, or the rest of one ...
OneAnswer ==
    \A r \in Resources \ Blocking : NothingHeld(r) \/ \E answer \in Answers : Holds(r, answer)

\* ... and on an instrument of its own an application finds that to its last
\* message once this one has been taken, there or on its way.
HoldsCurrent ==
    \A a \in Apps : Exclusive(a) /\ SessOf[a] \notin Blocking /\ taken[a] = 1 =>
        /\ NothingHeld(SessOf[a]) \/ Holds(SessOf[a], Current(a))
        /\ \A q \in reqs : q.app = a /\ q.live /\ q.kind = "read"
               /\ q.stage = "replied" /\ q.ret = "count" =>
               q.data \in Rests(BytesOf(SessOf[a], Current(a))) \ {<<>>}

\* Only reads bring anything.
ReadsBring == \A q \in reqs : q.kind # "read" => q.data = <<>>

\* With no time-outs and no end of the server every request is waited for ...
AllLive == ~Timeouts /\ ~ServerEnds => \A q \in reqs : q.live

\* ... and what a stream's own application has not been given is what the
\* answer on its way to it brings, and what is there behind that.
Answering(a) == {q \in reqs : q.app = a /\ q.kind = "read" /\ q.stage = "replied"}

StreamHeld ==
    ~Timeouts /\ ~ServerEnds =>
        \A a \in Apps : Exclusive(a) /\ SessOf[a] \in Blocking =>
            /\ Answering(a) = {} => ungiven[SessOf[a]] = ready[SessOf[a]]
            /\ \A q \in Answering(a) : ungiven[SessOf[a]] = q.data \o ready[SessOf[a]]

IInv ==
    /\ TypeOK
    /\ LiveWaits
    /\ WritesLive
    /\ BusyReads
    /\ NoResultYet
    /\ MessageTaken
    /\ OneAnswer
    /\ HoldsCurrent
    /\ ReadsBring
    /\ AllLive
    /\ StreamHeld
    /\ WriteOnce
    /\ ReadAnswersWrite

-----------------------------------------------------------------------------
(* Facts about the data.                                                   *)

Stages == {"sent", "opened", "message", "replied", "heard", "unanswered"}

LEMMA BytesOfSeq ==
  ASSUME NEW r \in Resources, NEW answer \in Answers
  PROVE  /\ BytesOf(r, answer) \in Seq(Bytes)
         /\ Len(BytesOf(r, answer)) = AnswerSize[r]
         /\ BytesOf(r, answer) # <<>>
  <1>1. AnswerSize[r] \in Nat \ {0}
    BY IoAssumption
  <1>2. BytesOf(r, answer) \in [1 .. AnswerSize[r] -> Bytes]
    BY <1>1 DEF BytesOf, Bytes
  <1>3. BytesOf(r, answer) \in Seq(Bytes)
    BY <1>1, <1>2, SeqDef
  <1>4. DOMAIN BytesOf(r, answer) = 1 .. AnswerSize[r]
    BY DEF BytesOf
  <1>5. Len(BytesOf(r, answer)) = AnswerSize[r]
    BY <1>1, <1>3, <1>4, LenProperties
  <1>6. QED
    BY <1>1, <1>3, <1>5, EmptySeq

\* What is left of a sequence behind its first n members.
LEMMA Rest ==
  ASSUME NEW S, NEW s \in Seq(S), NEW n \in Nat
  PROVE  SubSeq(s, n + 1, Len(s)) \in Seq(S)
  <1>1. Len(s) \in Nat /\ \A i \in n + 1 .. Len(s) : s[i] \in S
    BY LenProperties, ElementOfSeq
  <1>2. QED
    BY <1>1, SubSeqProperties

\* Nothing lost leaves all there is, and what is lost later only leaves less.
LEMMA RestsFacts ==
  ASSUME NEW s \in Seq(Bytes)
  PROVE  /\ s \in Rests(s)
         /\ Rests(s) \subseteq Seq(Bytes)
         /\ \A t \in Rests(s) : Rests(t) \subseteq Rests(s)
  <1> DEFINE R(u) == {m \in 0 .. Len(u) : \E k \in 0 .. m : m = k * Cap}
  <1>1. Len(s) \in Nat /\ Cap \in Nat
    BY LenProperties, IoAssumption
  <1>2. 0 \in R(s)
    BY <1>1
  <1>3. s \in Rests(s)
    BY <1>2, SubSeqFull DEF Rests
  <1>4. Rests(s) \subseteq Seq(Bytes)
    <2> SUFFICES ASSUME NEW t \in Rests(s) PROVE t \in Seq(Bytes)
      OBVIOUS
    <2>1. PICK n \in R(s) : t = SubSeq(s, n + 1, Len(s))
      BY DEF Rests
    <2>2. n \in Nat
      BY <1>1, <2>1
    <2>3. QED
      BY <2>1, <2>2, Rest
  <1>5. ASSUME NEW t \in Rests(s), NEW u \in Rests(t)
        PROVE  u \in Rests(s)
    <2>1. PICK n \in R(s) : t = SubSeq(s, n + 1, Len(s))
      BY DEF Rests
    <2>2. t \in Seq(Bytes) /\ Len(t) = Len(s) - n
      <3>1. n + 1 \in Int /\ Len(s) \in Int /\ n \in 0 .. Len(s)
            /\ \A i \in n + 1 .. Len(s) : s[i] \in Bytes
        BY <1>1, ElementOfSeq
      <3>2. /\ SubSeq(s, n + 1, Len(s)) \in Seq(Bytes)
            /\ Len(SubSeq(s, n + 1, Len(s))) =
                 IF n + 1 <= Len(s) THEN Len(s) - (n + 1) + 1 ELSE 0
        BY <3>1, SubSeqProperties
      <3>3. QED
        BY <2>1, <3>1, <3>2
    <2>3. PICK m \in R(t) : u = SubSeq(t, m + 1, Len(t))
      BY DEF Rests
    <2>4. n \in 0 .. Len(s) /\ m \in 0 .. Len(s) - n
      BY <2>1, <2>2, <2>3
    <2>5. n + m \in R(s)
      <3>1. PICK i \in 0 .. n : n = i * Cap
        BY <2>1
      <3>2. PICK j \in 0 .. m : m = j * Cap
        BY <2>3
      <3>3. n + m = (i + j) * Cap
        BY <1>1, <2>4, <3>1, <3>2
      <3>4. n + m \in 0 .. Len(s) /\ i + j \in 0 .. n + m
        BY <1>1, <2>4
      <3>5. QED
        BY <3>3, <3>4
    <2>6. u = SubSeq(s, n + m + 1, Len(s))
      <3>1. CASE m = Len(s) - n
        BY <1>1, <2>2, <2>3, <2>4, <3>1, SubSeqEmpty
      <3>2. CASE m # Len(s) - n
        <4>1. /\ n + 1 \in 1 .. Len(s) /\ Len(s) \in 1 .. Len(s)
              /\ m + 1 \in 1 .. Len(s) - (n + 1) + 1
              /\ Len(s) - n \in 1 .. Len(s) - (n + 1) + 1
          BY <1>1, <2>4, <3>2
        <4>2. SubSeq(SubSeq(s, n + 1, Len(s)), m + 1, Len(s) - n)
                = SubSeq(s, (n + 1) + (m + 1) - 1, (n + 1) + (Len(s) - n) - 1)
          BY <4>1, SubSeqOfSubSeq
        <4>3. (n + 1) + (m + 1) - 1 = n + m + 1 /\ (n + 1) + (Len(s) - n) - 1 = Len(s)
          BY <1>1, <2>4
        <4>4. QED
          BY <2>1, <2>2, <2>3, <4>2, <4>3
      <3>3. QED
        BY <3>1, <3>2
    <2>7. QED
      BY <2>5, <2>6 DEF Rests
  <1>6. QED
    BY <1>3, <1>4, <1>5

LEMMA RestOfConcat ==
  ASSUME NEW S, NEW s \in Seq(S), NEW t \in Seq(S)
  PROVE  SubSeq(s \o t, Len(s) + 1, Len(s \o t)) = t
  <1>1. Len(s) \in Nat /\ Len(t) \in Nat /\ Len(s \o t) = Len(s) + Len(t)
    BY LenProperties, ConcatProperties
  <1>2. CASE t = <<>>
    BY <1>1, <1>2, SubSeqEmpty, EmptySeq
  <1>3. CASE t # <<>>
    <2>1. Len(t) > 0
      BY <1>3, EmptySeq
    <2>2. Len(s) + 1 \in Len(s) + 1 .. Len(s) + Len(t) /\ Len(s) + Len(t) \in Len(s) + 1 .. Len(s) + Len(t)
      BY <1>1, <2>1
    <2>3. SubSeq(s \o t, Len(s) + 1, Len(s) + Len(t)) = SubSeq(t, Len(s) + 1 - Len(s), Len(s) + Len(t) - Len(s))
      BY <2>2, SubSeqOfConcat2
    <2>4. QED
      BY <1>1, <2>3, SubSeqFull
  <1>4. QED
    BY <1>2, <1>3

LEMMA Halves ==
  ASSUME NEW S, NEW s \in Seq(S), NEW n \in 0 .. Len(s)
  PROVE  /\ SubSeq(s, 1, n) \in Seq(S)
         /\ Len(SubSeq(s, 1, n)) = n
         /\ SubSeq(s, 1, n) \o SubSeq(s, n + 1, Len(s)) = s
  <1>1. Len(s) \in Nat /\ n \in Nat /\ \A i \in 1 .. n : s[i] \in S
    BY LenProperties, ElementOfSeq
  <1>2. SubSeq(s, 1, n) \in Seq(S) /\ Len(SubSeq(s, 1, n)) = n
    BY <1>1, SubSeqProperties
  <1>3. SubSeq(s, 1, n) \o SubSeq(s, n + 1, Len(s)) = SubSeq(s, 1, Len(s))
    <2>1. 1 \in 1 .. Len(s) + 1 /\ n \in 1 - 1 .. Len(s) /\ Len(s) \in n .. Len(s)
      BY <1>1
    <2>2. QED
      BY <2>1, ConcatAdjacentSubSeq
  <1>4. QED
    BY <1>2, <1>3, SubSeqFull

LEMMA Staged ==
  ASSUME NEW q \in Request, NEW stage \in Stages
  PROVE  LET p == [q EXCEPT !.stage = stage]
         IN  /\ p \in Request /\ p.stage = stage
             /\ p.slot = q.slot /\ p.app = q.app /\ p.kind = q.kind
             /\ p.live = q.live /\ p.ret = q.ret /\ p.data = q.data
  BY DEF Request, Stages

LEMMA Replied ==
  ASSUME NEW q \in Request, NEW ret \in {"count", "error"}, NEW data \in Seq(Bytes)
  PROVE  LET p == [q EXCEPT !.stage = "replied", !.ret = ret, !.data = data]
         IN  /\ p \in Request /\ p.stage = "replied"
             /\ p.slot = q.slot /\ p.app = q.app /\ p.kind = q.kind
             /\ p.live = q.live /\ p.ret = ret /\ p.data = data
  BY DEF Request

LEMMA NoResultType == NoResult \in Result /\ Len(NoResult.data) = 0
  <1>1. <<>> \in Seq(Bytes) /\ Len(<<>>) = 0
    BY EmptySeq
  <1>2. QED
    BY <1>1 DEF NoResult, Result

-----------------------------------------------------------------------------
(* The initial states.                                                     *)

LEMMA InitInv == Init => IInv
  <1> SUFFICES ASSUME Init PROVE IInv
    OBVIOUS
  <1> USE DEF Init
  <1>1. TypeOK
    <2>1. <<>> \in Seq(Bytes) /\ <<>> \in Seq(Answers)
      BY EmptySeq
    <2>2. QED
      BY <2>1, NoResultType, IoAssumption DEF TypeOK
  <1>2. ReadsBring /\ WriteOnce /\ ReadAnswersWrite
    BY NoResultType, IoAssumption DEF ReadsBring, WriteOnce, ReadAnswersWrite, NoResult
  <1>3. OneAnswer /\ HoldsCurrent
    BY DEF OneAnswer, HoldsCurrent, NothingHeld
  <1>4. StreamHeld
    BY IoAssumption DEF StreamHeld, Answering
  <1>5. QED
    BY <1>1, <1>2, <1>3, <1>4 DEF IInv, LiveWaits, WritesLive, BusyReads, NoResultYet,
       MessageTaken, AllLive

-----------------------------------------------------------------------------
(* Steps that only move or drop a request.                                 *)

\* A request comes to a stage that brings its application no count.
LEMMA QuietMove ==
  ASSUME IInv, NEW q \in reqs, NEW p \in Request, Move(q, p),
         p.slot = q.slot, p.app = q.app, p.kind = q.kind, p.live => q.live,
         q.slot \in busy => p.stage = q.stage,
         p.kind = "write" /\ p.stage \notin {"sent", "opened"} => p.live,
         p.live /\ p.kind = "write" =>
             /\ q.stage \in {"sent", "opened", "message"}
             /\ p.stage = "replied" => p.ret # "count",
         p.live /\ p.kind = "read" =>
             /\ q.stage # "replied"
             /\ p.stage = "replied" => p.ret # "count" /\ Res(q) \notin Blocking,
         ~p.live => ~q.live \/ Timeouts,
         p.kind # "read" => p.data = <<>>,
         conn' \in [Apps -> BOOLEAN],
         \A x \in reqs' : x.live => conn'[x.app],
         UNCHANGED <<serverVars, pc, warm, last, writes, devVars, history>>
  PROVE  IInv'
  <1> USE DEF serverVars, devVars, history
  <1>1. reqs' = (reqs \ {q}) \cup {p} /\ q \in Request
    BY DEF Move, IInv, TypeOK
  <1>2. TypeOK'
    BY <1>1 DEF IInv, TypeOK
  <1>3. LiveWaits' /\ WritesLive' /\ AllLive'
    BY <1>1 DEF IInv, LiveWaits, WritesLive, AllLive
  <1>4. BusyReads'
    BY <1>1 DEF IInv, TypeOK, BusyReads, Res
  <1>5. NoResultYet' /\ OneAnswer' /\ ReadsBring' /\ WriteOnce' /\ ReadAnswersWrite'
    BY <1>1 DEF IInv, NoResultYet, OneAnswer, NothingHeld, Holds, ReadsBring, WriteOnce,
       ReadAnswersWrite
  <1>6. MessageTaken'
    BY <1>1 DEF IInv, MessageTaken
  <1>7. HoldsCurrent'
    BY <1>1 DEF IInv, HoldsCurrent, NothingHeld, Holds, Current
  <1>8. StreamHeld'
    <2> SUFFICES ASSUME ~Timeouts, ~ServerEnds, NEW a \in Apps, SessOf[a] \in Blocking
                 PROVE  Answering(a)' = Answering(a)
      BY DEF IInv, StreamHeld
    <2>1. p.live /\ q.live
      BY DEF IInv, AllLive
    <2>2. CASE q.app # a
      BY <1>1, <2>2 DEF Answering
    <2>3. CASE q.app = a
      BY <1>1, <2>1, <2>3 DEF Answering, Res
    <2>4. QED
      BY <2>2, <2>3
  <1>9. QED
    BY <1>2, <1>3, <1>4, <1>5, <1>6, <1>7, <1>8 DEF IInv

LEMMA ClientSendsStep ==
  ASSUME IInv, NEW q \in reqs, ClientSends(q)
  PROVE  IInv'
  <1> DEFINE p == [q EXCEPT !.stage = "message"]
  <1>1. q \in Request /\ q.slot \notin busy /\ (q.kind # "read" => q.data = <<>>)
    BY DEF IInv, TypeOK, BusyReads, ClientSends, ReadsBring
  <1>2. /\ p \in Request /\ p.stage = "message"
        /\ p.slot = q.slot /\ p.app = q.app /\ p.kind = q.kind
        /\ p.live = q.live /\ p.ret = q.ret /\ p.data = q.data
    BY <1>1, Staged DEF Stages
  <1>3. Move(q, p) /\ UNCHANGED <<serverVars, appVars, devVars, history>>
    BY DEF ClientSends
  <1>4. conn' \in [Apps -> BOOLEAN] /\ \A x \in reqs' : x.live => conn'[x.app]
    BY <1>2, <1>3 DEF IInv, TypeOK, appVars, LiveWaits, Move
  <1> HIDE DEF p
  <1>5. QED
    BY <1>1, <1>2, <1>3, <1>4, QuietMove DEF ClientSends, appVars

LEMMA OnOptionReplyStep ==
  ASSUME IInv, NEW q \in reqs, OnOptionReply(q)
  PROVE  IInv'
  <1> DEFINE p == [q EXCEPT !.stage = "heard"]
  <1>1. q \in Request /\ q.slot \notin busy /\ (q.kind # "read" => q.data = <<>>)
    BY DEF IInv, TypeOK, BusyReads, OnOptionReply, ReadsBring
  <1>2. /\ p \in Request /\ p.stage = "heard"
        /\ p.slot = q.slot /\ p.app = q.app /\ p.kind = q.kind
        /\ p.live = q.live /\ p.ret = q.ret /\ p.data = q.data
    BY <1>1, Staged DEF Stages
  <1>3. Move(q, p) /\ UNCHANGED <<serverVars, appVars, devVars, history>>
    BY DEF OnOptionReply
  <1>4. conn' \in [Apps -> BOOLEAN] /\ \A x \in reqs' : x.live => conn'[x.app]
    BY <1>2, <1>3 DEF IInv, TypeOK, appVars, LiveWaits, Move
  <1> HIDE DEF p
  <1>5. QED
    BY <1>1, <1>2, <1>3, <1>4, QuietMove DEF OnOptionReply, appVars

LEMMA TimeoutStep ==
  ASSUME IInv, NEW q \in reqs, Timeout(q)
  PROVE  IInv'
  <1> DEFINE p == [q EXCEPT !.live = FALSE]
  <1>1. q \in Request /\ (q.kind # "read" => q.data = <<>>)
    BY DEF IInv, TypeOK, ReadsBring
  <1>2. /\ p \in Request /\ ~p.live
        /\ p.slot = q.slot /\ p.app = q.app /\ p.kind = q.kind
        /\ p.stage = q.stage /\ p.ret = q.ret /\ p.data = q.data
    BY <1>1 DEF Request
  <1>3. Move(q, p) /\ UNCHANGED <<serverVars, pc, warm, last, writes, devVars, history>>
    BY DEF Timeout
  <1>4. conn' = [conn EXCEPT ![q.app] = FALSE] /\ conn' \in [Apps -> BOOLEAN]
    BY DEF IInv, TypeOK, Timeout
  <1>5. q.live /\ Timeouts /\ (q.kind = "write" => q.stage \in {"sent", "opened"})
    BY DEF Timeout, ClientOpen
  <1> HIDE DEF p
  <1>6. ASSUME NEW x \in reqs', x.live PROVE conn'[x.app]
    <2>1. x \in reqs /\ x # q
      BY <1>2, <1>3, <1>6 DEF Move
    <2>2. x \in Request /\ x.app \in Apps
      BY <2>1 DEF IInv, TypeOK, Request
    <2>3. x.app # q.app /\ conn[x.app]
      BY <1>5, <1>6, <2>1 DEF IInv, LiveWaits
    <2>4. QED
      BY <1>4, <2>2, <2>3 DEF IInv, TypeOK
  <1>7. QED
    BY <1>1, <1>2, <1>3, <1>4, <1>5, <1>6, QuietMove

LEMMA AcceptStep ==
  ASSUME IInv, NEW q \in reqs, Accept(q)
  PROVE  IInv'
  <1> DEFINE p == [q EXCEPT !.stage = "opened"]
  <1>1. q \in Request /\ q.slot \notin busy /\ (q.kind # "read" => q.data = <<>>)
    BY DEF IInv, TypeOK, Accept, Ready, ReadsBring
  <1>2. /\ p \in Request /\ p.stage = "opened"
        /\ p.slot = q.slot /\ p.app = q.app /\ p.kind = q.kind
        /\ p.live = q.live /\ p.ret = q.ret /\ p.data = q.data
    BY <1>1, Staged DEF Stages
  <1>3. Move(q, p) /\ UNCHANGED <<serverVars, appVars, devVars, history>>
    BY DEF Accept
  <1>4. conn' \in [Apps -> BOOLEAN] /\ \A x \in reqs' : x.live => conn'[x.app]
    BY <1>2, <1>3 DEF IInv, TypeOK, appVars, LiveWaits, Move
  <1> HIDE DEF p
  <1>5. QED
    BY <1>1, <1>2, <1>3, <1>4, QuietMove DEF Accept, appVars

LEMMA ServerIgnoresStep ==
  ASSUME IInv, NEW q \in reqs, ServerIgnores(q)
  PROVE  IInv'
  <1> DEFINE p == [q EXCEPT !.stage = "unanswered"]
  <1>1. q \in Request /\ q.slot \notin busy /\ (q.kind # "read" => q.data = <<>>)
    BY DEF IInv, TypeOK, ServerIgnores, Ready, ReadsBring
  <1>2. /\ p \in Request /\ p.stage = "unanswered"
        /\ p.slot = q.slot /\ p.app = q.app /\ p.kind = q.kind
        /\ p.live = q.live /\ p.ret = q.ret /\ p.data = q.data
    BY <1>1, Staged DEF Stages
  <1>3. Move(q, p) /\ UNCHANGED <<serverVars, appVars, devVars, history>>
    BY DEF ServerIgnores
  <1>4. /\ conn' \in [Apps -> BOOLEAN] /\ \A x \in reqs' : x.live => conn'[x.app]
        /\ q.stage = "message" /\ q.kind = "write" => q.live
    BY <1>2, <1>3 DEF IInv, TypeOK, appVars, WritesLive, LiveWaits, Move
  <1> HIDE DEF p
  <1>5. QED
    BY <1>1, <1>2, <1>3, <1>4, QuietMove DEF ServerIgnores, appVars

\* The reply is an error: neither the instrument nor an application has more.
LEMMA ErrorReply ==
  ASSUME IInv, NEW q \in reqs, Reply(q, "error", <<>>), busy = {},
         \/ q.kind = "write" /\ q.stage = "message"
         \/ q.kind = "get",
         UNCHANGED <<serverVars, appVars, devVars, history>>
  PROVE  IInv'
  <1> DEFINE p == [q EXCEPT !.stage = "replied", !.ret = "error", !.data = <<>>]
  <1>1. q \in Request /\ <<>> \in Seq(Bytes)
    BY EmptySeq DEF IInv, TypeOK
  <1>2. /\ p \in Request /\ p.stage = "replied"
        /\ p.slot = q.slot /\ p.app = q.app /\ p.kind = q.kind
        /\ p.live = q.live /\ p.ret = "error" /\ p.data = <<>>
    BY <1>1, Replied
  <1>3. Move(q, p)
    BY DEF Reply
  <1>4. /\ conn' \in [Apps -> BOOLEAN] /\ \A x \in reqs' : x.live => conn'[x.app]
        /\ q.kind = "write" => q.live
    BY <1>2, <1>3 DEF IInv, TypeOK, appVars, WritesLive, LiveWaits, Move
  <1> HIDE DEF p
  <1>5. QED
    BY <1>1, <1>2, <1>3, <1>4, QuietMove DEF appVars

LEMMA ServerOnGetOptionStep ==
  ASSUME IInv, NEW q \in reqs, ServerOnGetOption(q)
  PROVE  IInv'
  BY ErrorReply DEF ServerOnGetOption, Ready

\* Requests go and nobody has been given anything by it.
LEMMA RequestsGo ==
  ASSUME IInv, reqs' \subseteq reqs, busy' = {},
         reqs' = reqs \/ Timeouts \/ ServerEnds \/ \E q \in reqs : ~q.live,
         up' \in BOOLEAN, connected' \subseteq Resources,
         conn' \in [Apps -> BOOLEAN], warm' \in [Apps -> BOOLEAN],
         \A x \in reqs' : x.live => conn'[x.app],
         UNCHANGED <<pc, last, writes, devVars, history>>
  PROVE  IInv'
  <1> USE DEF devVars, history
  <1>1. TypeOK'
    BY DEF IInv, TypeOK
  <1>2. LiveWaits' /\ WritesLive' /\ BusyReads' /\ AllLive'
    BY DEF IInv, LiveWaits, WritesLive, BusyReads, AllLive
  <1>3. NoResultYet' /\ OneAnswer' /\ ReadsBring' /\ WriteOnce' /\ ReadAnswersWrite'
    BY DEF IInv, NoResultYet, OneAnswer, NothingHeld, Holds, ReadsBring, WriteOnce,
       ReadAnswersWrite
  <1>4. MessageTaken'
    BY DEF IInv, MessageTaken
  <1>5. HoldsCurrent'
    BY DEF IInv, HoldsCurrent, NothingHeld, Holds, Current
  <1>6. StreamHeld'
    <2> SUFFICES ASSUME ~Timeouts, ~ServerEnds PROVE StreamHeld'
      BY DEF StreamHeld
    <2>1. reqs' = reqs
      BY DEF IInv, AllLive
    <2>2. QED
      BY <2>1 DEF IInv, StreamHeld, Answering
  <1>7. QED
    BY <1>1, <1>2, <1>3, <1>4, <1>5, <1>6 DEF IInv

LEMMA DropStep ==
  ASSUME IInv, NEW q \in reqs, Drop(q)
  PROVE  IInv'
  <1>1. /\ reqs' \subseteq reqs /\ busy' = {} /\ ~q.live
        /\ UNCHANGED <<up, connected, conn, warm, pc, last, writes, devVars, history>>
    BY DEF Drop, Ready, serverVars, appVars
  <1>2. up' \in BOOLEAN /\ connected' \subseteq Resources /\ conn' \in [Apps -> BOOLEAN]
        /\ warm' \in [Apps -> BOOLEAN] /\ \A x \in reqs' : x.live => conn'[x.app]
    BY <1>1 DEF IInv, TypeOK, LiveWaits
  <1>3. QED
    BY <1>1, <1>2, RequestsGo

LEMMA ServerTimeoutStep ==
  ASSUME IInv, NEW q \in reqs, ServerTimeout(q)
  PROVE  IInv'
  <1>1. /\ reqs' \subseteq reqs /\ busy' = {} /\ Timeouts
        /\ UNCHANGED <<up, connected, warm, pc, last, writes, devVars, history>>
    BY DEF ServerTimeout, Ready, serverVars
  <1>2. up' \in BOOLEAN /\ connected' \subseteq Resources /\ conn' \in [Apps -> BOOLEAN]
        /\ warm' \in [Apps -> BOOLEAN]
    BY <1>1 DEF IInv, TypeOK, ServerTimeout
  <1>3. \A x \in reqs' : x.live => conn'[x.app]
    BY DEF IInv, TypeOK, Request, LiveWaits, ServerTimeout
  <1>4. QED
    BY <1>1, <1>2, <1>3, RequestsGo

LEMMA ServerGoneStep ==
  ASSUME IInv, ServerGone
  PROVE  IInv'
  <1>1. /\ reqs' \subseteq reqs /\ busy' = {} /\ ServerEnds
        /\ UNCHANGED <<pc, last, writes, devVars, history>>
    BY DEF ServerGone
  <1>2. up' \in BOOLEAN /\ connected' \subseteq Resources /\ conn' \in [Apps -> BOOLEAN]
        /\ warm' \in [Apps -> BOOLEAN] /\ reqs' = {}
    BY DEF ServerGone
  <1>3. QED
    BY <1>1, <1>2, RequestsGo

\* Nothing but the server itself changes: its start, a connection made again,
\* its thread going into the read() of a stream.
LEMMA ServerOnly ==
  ASSUME IInv, up' \in BOOLEAN, connected' \subseteq Resources,
         \/ busy' = busy
         \/ \E q \in reqs : /\ busy' = {q.slot} /\ q.kind = "read"
                           /\ q.stage = "opened" /\ Res(q) \in Blocking,
         UNCHANGED <<reqs, appVars, devVars, history>>
  PROVE  IInv'
  <1> USE DEF appVars, devVars, history
  <1>1. TypeOK'
    BY DEF IInv, TypeOK, Request
  <1>2. BusyReads'
    BY DEF IInv, TypeOK, BusyReads, Res
  <1>3. LiveWaits' /\ WritesLive' /\ AllLive' /\ StreamHeld'
    BY DEF IInv, LiveWaits, WritesLive, AllLive, StreamHeld, Answering
  <1>4. NoResultYet' /\ OneAnswer' /\ ReadsBring' /\ WriteOnce' /\ ReadAnswersWrite'
    BY DEF IInv, NoResultYet, OneAnswer, NothingHeld, Holds, ReadsBring, WriteOnce,
       ReadAnswersWrite
  <1>5. MessageTaken' /\ HoldsCurrent'
    BY DEF IInv, MessageTaken, HoldsCurrent, NothingHeld, Holds, Current
  <1>6. QED
    BY <1>1, <1>2, <1>3, <1>4, <1>5 DEF IInv

LEMMA ServerOnlySteps ==
  ASSUME IInv, ServerStart \/ (\E r \in Resources : Reconnect(r)) \/ \E q \in reqs : ServerBlocks(q)
  PROVE  IInv'
  <1>1. CASE ServerStart
    BY <1>1, ServerOnly DEF ServerStart, IInv, TypeOK
  <1>2. CASE \E r \in Resources : Reconnect(r)
    BY <1>2, ServerOnly DEF Reconnect, IInv, TypeOK
  <1>3. CASE \E q \in reqs : ServerBlocks(q)
    BY <1>3, ServerOnly DEF ServerBlocks, IInv, TypeOK
  <1>4. QED
    BY <1>1, <1>2, <1>3

-----------------------------------------------------------------------------
(* Calls begin and end.                                                    *)

LEMMA StartStep ==
  ASSUME IInv, NEW a \in Apps, NEW kind \in Kinds, Start(a, kind)
  PROVE  IInv'
  <1> DEFINE t   == CHOOSE t \in FreeSlots : TRUE
             new == [slot |-> t, app |-> a, kind |-> kind, live |-> TRUE,
                     stage |-> "sent", ret |-> "none", data |-> <<>>]
  <1>1. t \in FreeSlots
    BY DEF Start
  <1>2. t \in Slots /\ (\A q \in reqs : q.slot # t) /\ t \notin busy
    BY <1>1 DEF FreeSlots, IInv, BusyReads
  <1>3. kind \in Calls /\ <<>> \in Seq(Bytes) /\ Len(<<>>) = 0
    BY IoAssumption, EmptySeq DEF Calls
  <1>4. /\ new \in Request /\ new.slot = t /\ new.app = a /\ new.kind = kind /\ new.live
        /\ new.stage = "sent" /\ new.data = <<>>
    BY <1>2, <1>3 DEF Request
  <1>5. /\ pc[a] = "idle" /\ pc' = [pc EXCEPT ![a] = kind]
        /\ conn' = [conn EXCEPT ![a] = up]
        /\ reqs' = IF up THEN reqs \cup {new} ELSE reqs
        /\ last' = [last EXCEPT ![a] = NoResult]
        /\ writes' = IF kind = "write" THEN [writes EXCEPT ![a] = (@ + 1) % WriteMod] ELSE writes
        /\ taken' = IF kind = "write" THEN [taken EXCEPT ![a] = 0] ELSE taken
        /\ UNCHANGED <<up, connected, busy, warm, owed, ready, ungiven>>
    BY DEF Start, serverVars, devVars
  <1> HIDE DEF new, t
  <1>6. \A q \in reqs : q.live => q.app # a
    BY <1>5 DEF IInv, TypeOK, LiveWaits, Request, Calls
  <1>7. TypeOK'
    <2>1. writes' \in [Apps -> 0 .. WriteMod - 1] /\ taken' \in [Apps -> Nat]
      <3>1. WriteMod \in Nat \ {0} /\ writes[a] \in Nat
        BY IoAssumption DEF IInv, TypeOK
      <3>2. (writes[a] + 1) % WriteMod \in 0 .. WriteMod - 1
        BY <3>1
      <3>3. QED
        BY <1>5, <3>2 DEF IInv, TypeOK
    <2>2. reqs' \subseteq Request /\ \A x, y \in reqs' : x.slot = y.slot => x = y
      BY <1>2, <1>4, <1>5 DEF IInv, TypeOK
    <2>3. /\ pc' \in [Apps -> Calls \cup {"idle", "dead"}]
          /\ conn' \in [Apps -> BOOLEAN] /\ last' \in [Apps -> Result]
      BY <1>3, <1>5, NoResultType DEF IInv, TypeOK
    <2>4. QED
      BY <1>5, <2>1, <2>2, <2>3 DEF IInv, TypeOK
  <1>8. LiveWaits'
    <2>1. ASSUME NEW x \in reqs', x.live PROVE pc'[x.app] = x.kind /\ conn'[x.app]
      <3>1. CASE x = new
        BY <1>4, <1>5, <2>1, <3>1, <1>2 DEF IInv, TypeOK
      <3>2. CASE x # new
        <4>1. x \in reqs /\ x.app # a /\ x.app \in Apps
          BY <1>5, <1>6, <2>1, <3>2 DEF IInv, TypeOK, Request
        <4>2. QED
          BY <1>5, <2>1, <4>1 DEF IInv, TypeOK, LiveWaits
      <3>3. QED
        BY <3>1, <3>2
    <2>2. \A x, y \in reqs' : x.live /\ y.live /\ x.app = y.app => x = y
      BY <1>4, <1>5, <1>6 DEF IInv, LiveWaits
    <2>3. QED
      BY <2>1, <2>2 DEF LiveWaits
  <1>9. WritesLive' /\ AllLive'
    BY <1>4, <1>5 DEF IInv, WritesLive, AllLive
  <1>10. BusyReads'
    BY <1>2, <1>4, <1>5 DEF IInv, BusyReads, Res
  <1>11. NoResultYet' /\ OneAnswer' /\ ReadsBring' /\ WriteOnce'
    <2>1. NoResultYet' /\ OneAnswer'
      BY <1>5 DEF IInv, TypeOK, NoResultYet, OneAnswer, NothingHeld, Holds
    <2>2. ReadsBring'
      BY <1>4, <1>5 DEF IInv, ReadsBring
    <2>3. WriteOnce'
      BY <1>3, <1>5 DEF IInv, TypeOK, WriteOnce, Calls
    <2>4. QED
      BY <2>1, <2>2, <2>3
  <1>12. MessageTaken'
    BY <1>4, <1>5, <1>6 DEF IInv, TypeOK, MessageTaken, Request
  <1>13. HoldsCurrent'
    <2> SUFFICES ASSUME NEW b \in Apps, Exclusive(b), SessOf[b] \notin Blocking, taken'[b] = 1
                 PROVE  /\ NothingHeld(SessOf[b])' \/ Holds(SessOf[b], Current(b))'
                        /\ \A q \in reqs' : q.app = b /\ q.live /\ q.kind = "read"
                               /\ q.stage = "replied" /\ q.ret = "count" =>
                               q.data \in Rests(BytesOf(SessOf[b], Current(b)')) \ {<<>>}
      BY DEF HoldsCurrent
    <2>1. taken[b] = 1 /\ writes'[b] = writes[b]
      BY <1>5 DEF IInv, TypeOK
    <2>2. Current(b)' = Current(b)
      BY <2>1 DEF Current
    <2>3. NothingHeld(SessOf[b])' \/ Holds(SessOf[b], Current(b))'
      BY <1>5, <2>1, <2>2 DEF IInv, HoldsCurrent, NothingHeld, Holds
    <2>4. ASSUME NEW q \in reqs', q.app = b, q.live, q.kind = "read", q.stage = "replied", q.ret = "count"
          PROVE  q.data \in Rests(BytesOf(SessOf[b], Current(b)')) \ {<<>>}
      <3>1. q \in reqs
        BY <1>4, <1>5, <2>4
      <3>2. QED
        BY <2>1, <2>2, <2>4, <3>1 DEF IInv, HoldsCurrent
    <2>5. QED
      BY <2>3, <2>4
  <1>14. ReadAnswersWrite'
    BY <1>3, <1>5 DEF IInv, TypeOK, ReadAnswersWrite, Calls
  <1>15. StreamHeld'
    BY <1>4, <1>5 DEF IInv, StreamHeld, Answering
  <1>16. QED
    BY <1>7, <1>8, <1>9, <1>10, <1>11, <1>12, <1>13, <1>14, <1>15 DEF IInv

LEMMA RunReturnsStep ==
  ASSUME IInv, NEW a \in Apps, RunReturns(a)
  PROVE  IInv'
  <1> DEFINE new == [call |-> pc[a], ret |-> "none", data |-> <<>>]
  <1>1. <<>> \in Seq(Bytes) /\ Len(<<>>) = 0
    BY EmptySeq
  <1>2. /\ pc[a] \in Calls /\ ~conn[a]
        /\ pc' = [pc EXCEPT ![a] = "idle"] /\ conn' = [conn EXCEPT ![a] = FALSE]
        /\ last' = [last EXCEPT ![a] = new]
        /\ UNCHANGED <<up, connected, busy, reqs, warm, writes, owed, ready, taken, ungiven>>
    BY DEF RunReturns, Finish, serverVars, devVars, history
  <1>3. new \in Result /\ new.ret = "none" /\ Len(new.data) = 0
    BY <1>1, <1>2 DEF Result
  <1> HIDE DEF new
  <1>4. \A q \in reqs : q.live => q.app # a /\ q.app \in Apps
    BY <1>2 DEF IInv, TypeOK, LiveWaits, Request
  <1>5. TypeOK'
    BY <1>2, <1>3 DEF IInv, TypeOK
  <1>6. LiveWaits'
    BY <1>2, <1>4 DEF IInv, TypeOK, LiveWaits
  <1>7. WritesLive' /\ AllLive' /\ BusyReads' /\ OneAnswer' /\ MessageTaken' /\ StreamHeld'
    BY <1>2 DEF IInv, WritesLive, AllLive, BusyReads, OneAnswer, NothingHeld, Holds,
       MessageTaken, StreamHeld, Answering
  <1>8. NoResultYet' /\ ReadsBring' /\ WriteOnce'
    <2>1. NoResultYet' /\ WriteOnce'
      BY <1>2, <1>3 DEF IInv, TypeOK, NoResultYet, WriteOnce
    <2>2. ReadsBring'
      BY <1>2 DEF IInv, ReadsBring
    <2>3. QED
      BY <2>1, <2>2
  <1>9. HoldsCurrent'
    BY <1>2 DEF IInv, HoldsCurrent, NothingHeld, Holds, Current
  <1>10. ReadAnswersWrite'
    BY <1>2, <1>3 DEF IInv, TypeOK, ReadAnswersWrite
  <1>11. QED
    BY <1>5, <1>6, <1>7, <1>8, <1>9, <1>10 DEF IInv

\* What the application has been given is no longer owed to it.
LEMMA GivenStep ==
  ASSUME IInv, NEW q \in reqs, q.live, q.stage = "replied", Given(q),
         reqs' = reqs \ {q}, ready' = ready
  PROVE  StreamHeld' /\ ungiven' \in [Resources -> Seq(Bytes)]
  <1>1. q \in Request /\ Res(q) \in Resources /\ q.data \in Seq(Bytes)
    BY IoAssumption DEF IInv, TypeOK, Request, Res
  <1>2. Len(q.data) \in Nat /\ ungiven[Res(q)] \in Seq(Bytes) /\ ready[Res(q)] \in Seq(Bytes)
    BY <1>1, LenProperties DEF IInv, TypeOK
  <1>3. ungiven' = [ungiven EXCEPT ![Res(q)] =
                     SubSeq(ungiven[Res(q)], Len(q.data) + 1, Len(ungiven[Res(q)]))]
    BY DEF Given
  <1>4. ungiven' \in [Resources -> Seq(Bytes)]
    BY <1>1, <1>2, <1>3, Rest DEF IInv, TypeOK
  <1>5. ASSUME ~Timeouts, ~ServerEnds, NEW a \in Apps, Exclusive(a), SessOf[a] \in Blocking
        PROVE  /\ Answering(a)' = {} => ungiven'[SessOf[a]] = ready'[SessOf[a]]
               /\ \A x \in Answering(a)' : ungiven'[SessOf[a]] = x.data \o ready'[SessOf[a]]
    <2>1. CASE q.app # a
      <3>1. Res(q) # SessOf[a] /\ SessOf[a] \in Resources
        BY <1>1, <1>5, <2>1, IoAssumption DEF Exclusive, Res, Request
      <3>2. ungiven'[SessOf[a]] = ungiven[SessOf[a]]
        BY <1>3, <3>1 DEF IInv, TypeOK
      <3>3. Answering(a)' = Answering(a)
        BY <2>1 DEF Answering
      <3>4. QED
        BY <1>5, <3>2, <3>3 DEF IInv, StreamHeld
    <2>2. CASE q.app = a
      <3>1. \A x \in reqs : x.app = a => x = q
        BY <1>5, <2>2 DEF IInv, AllLive, LiveWaits
      <3>2. Answering(a)' = {}
        BY <3>1 DEF Answering
      <3>3. ungiven[SessOf[a]] = q.data \o ready[SessOf[a]]
        <4>1. CASE q.kind = "read"
          BY <1>5, <2>2, <4>1 DEF IInv, StreamHeld, Answering
        <4>2. CASE q.kind # "read"
          <5>1. q.data = <<>> /\ Answering(a) = {}
            BY <3>1, <4>2 DEF IInv, ReadsBring, Answering
          <5>2. ungiven[SessOf[a]] = ready[SessOf[a]]
            BY <1>5, <5>1 DEF IInv, StreamHeld
          <5>3. QED
            BY <1>2, <2>2, <5>1, <5>2, ConcatEmptySeq DEF Res
        <4>3. QED
          BY <4>1, <4>2
      <3>4. SubSeq(ungiven[SessOf[a]], Len(q.data) + 1, Len(ungiven[SessOf[a]])) = ready[SessOf[a]]
        <4>1. q.data \in Seq(Bytes) /\ ready[SessOf[a]] \in Seq(Bytes)
          BY <1>1, <1>2, <2>2 DEF Res
        <4>2. SubSeq(q.data \o ready[SessOf[a]], Len(q.data) + 1, Len(q.data \o ready[SessOf[a]]))
                  = ready[SessOf[a]]
          BY <4>1, RestOfConcat, Zenon
        <4>3. QED
          BY <3>3, <4>2, Zenon
      <3>5. ungiven'[SessOf[a]] = ready[SessOf[a]]
        BY <1>1, <1>3, <2>2, <3>4 DEF IInv, TypeOK, Res
      <3>6. QED
        BY <3>2, <3>5
    <2>3. QED
      BY <2>1, <2>2
  <1>6. StreamHeld'
    BY <1>5 DEF StreamHeld
  <1>7. QED
    BY <1>4, <1>6

LEMMA OnReplyStep ==
  ASSUME IInv, NEW q \in reqs, OnReply(q)
  PROVE  IInv'
  <1> DEFINE a   == q.app
             new == [call |-> pc[a], ret |-> q.ret, data |-> q.data]
  <1>1. /\ q.live /\ q.kind \in {"write", "read"} /\ q.stage = "replied" /\ Given(q)
        /\ pc' = [pc EXCEPT ![a] = "idle"] /\ conn' = [conn EXCEPT ![a] = FALSE]
        /\ last' = [last EXCEPT ![a] = new]
        /\ warm' = [warm EXCEPT ![a] = TRUE]
        /\ reqs' = reqs \ {q}
        /\ UNCHANGED <<up, connected, busy, writes, owed, ready, taken>>
    BY DEF OnReply, Finish, serverVars, devVars
  <1>2. q \in Request /\ a \in Apps /\ pc[a] = q.kind
    BY <1>1 DEF IInv, TypeOK, LiveWaits, Request
  <1>3. new \in Result /\ new.call = q.kind /\ new.ret = q.ret /\ new.data = q.data
    BY <1>1, <1>2 DEF Result, Request, Calls
  <1>4. StreamHeld' /\ ungiven' \in [Resources -> Seq(Bytes)]
    BY <1>1, GivenStep
  <1> HIDE DEF new, a
  <1>5. \A x \in reqs' : x \in reqs /\ x.app \in Apps /\ (x.live => x.app # a)
    BY <1>1 DEF IInv, TypeOK, LiveWaits, Request, a
  <1>6. TypeOK'
    BY <1>1, <1>2, <1>3, <1>4 DEF IInv, TypeOK
  <1>7. LiveWaits'
    BY <1>1, <1>5 DEF IInv, TypeOK, LiveWaits
  <1>8. WritesLive' /\ AllLive' /\ OneAnswer'
    BY <1>1 DEF IInv, WritesLive, AllLive, OneAnswer, NothingHeld, Holds
  <1>9. BusyReads'
    BY <1>1 DEF IInv, BusyReads, Res
  <1>10. NoResultYet' /\ ReadsBring'
    BY <1>1, <1>2, <1>3 DEF IInv, TypeOK, NoResultYet, ReadsBring
  <1>11. MessageTaken'
    BY <1>1 DEF IInv, MessageTaken
  <1>12. HoldsCurrent'
    BY <1>1 DEF IInv, HoldsCurrent, NothingHeld, Holds, Current
  <1>13. WriteOnce'
    BY <1>1, <1>2, <1>3 DEF IInv, TypeOK, WriteOnce, MessageTaken, a
  <1>14. ReadAnswersWrite'
    BY <1>1, <1>2, <1>3 DEF IInv, TypeOK, ReadAnswersWrite, HoldsCurrent, Current, a
  <1>15. QED
    BY <1>4, <1>6, <1>7, <1>8, <1>9, <1>10, <1>11, <1>12, <1>13, <1>14 DEF IInv

LEMMA OverrunStep ==
  ASSUME IInv, NEW q \in reqs, Overrun(q)
  PROVE  IInv'
  <1> DEFINE a == q.app
  <1>1. /\ q.live /\ q.kind = "read" /\ q.stage = "replied" /\ Given(q)
        /\ pc' = [pc EXCEPT ![a] = "dead"] /\ conn' = [conn EXCEPT ![a] = FALSE]
        /\ warm' = [warm EXCEPT ![a] = FALSE]
        /\ reqs' = reqs \ {q}
        /\ UNCHANGED <<up, connected, busy, last, writes, owed, ready, taken>>
    BY DEF Overrun, serverVars, devVars
  <1>2. q \in Request /\ a \in Apps /\ pc[a] = "read"
    BY <1>1 DEF IInv, TypeOK, LiveWaits, Request
  <1>3. StreamHeld' /\ ungiven' \in [Resources -> Seq(Bytes)]
    BY <1>1, GivenStep
  <1> HIDE DEF a
  <1>4. \A x \in reqs' : x \in reqs /\ x.app \in Apps /\ (x.live => x.app # a)
    BY <1>1 DEF IInv, TypeOK, LiveWaits, Request, a
  <1>5. TypeOK'
    BY <1>1, <1>2, <1>3 DEF IInv, TypeOK
  <1>6. LiveWaits'
    BY <1>1, <1>4 DEF IInv, TypeOK, LiveWaits
  <1>7. WritesLive' /\ AllLive' /\ OneAnswer'
    BY <1>1 DEF IInv, WritesLive, AllLive, OneAnswer, NothingHeld, Holds
  <1>8. BusyReads'
    BY <1>1 DEF IInv, BusyReads, Res
  <1>9. NoResultYet' /\ ReadsBring' /\ WriteOnce'
    BY <1>1, <1>2 DEF IInv, TypeOK, NoResultYet, ReadsBring, WriteOnce
  <1>10. MessageTaken'
    BY <1>1 DEF IInv, MessageTaken
  <1>11. HoldsCurrent'
    BY <1>1 DEF IInv, HoldsCurrent, NothingHeld, Holds, Current
  <1>12. ReadAnswersWrite'
    BY <1>1, <1>2 DEF IInv, TypeOK, ReadAnswersWrite
  <1>13. QED
    BY <1>3, <1>5, <1>6, <1>7, <1>8, <1>9, <1>10, <1>11, <1>12 DEF IInv

-----------------------------------------------------------------------------
(* The instrument.                                                         *)

LEMMA TakeStep ==
  ASSUME IInv, NEW q \in reqs, busy = {}, q.kind = "write", q.stage = "message",
         Take(q), Reply(q, "count", <<>>), UNCHANGED <<serverVars, appVars>>
  PROVE  IInv'
  <1> DEFINE p      == [q EXCEPT !.stage = "replied", !.ret = "count", !.data = <<>>]
             r      == Res(q)
             answer == [app |-> q.app, no |-> writes[q.app]]
  <1>1. q \in Request /\ <<>> \in Seq(Bytes) /\ Len(<<>>) = 0
    BY EmptySeq DEF IInv, TypeOK
  <1>2. /\ p \in Request /\ p.stage = "replied"
        /\ p.slot = q.slot /\ p.app = q.app /\ p.kind = q.kind
        /\ p.live = q.live /\ p.ret = "count" /\ p.data = <<>>
    BY <1>1, Replied
  <1>3. /\ reqs' = (reqs \ {q}) \cup {p}
        /\ UNCHANGED <<up, connected, busy, pc, conn, warm, last, writes>>
    BY DEF Reply, Move, serverVars, appVars
  <1>4. q.app \in Apps /\ r \in Resources /\ answer \in Answers /\ r = SessOf[q.app]
        /\ answer = Current(q.app)
    BY <1>1, IoAssumption DEF IInv, TypeOK, Request, Res, Answers, Current
  <1>5. q.live /\ pc[q.app] = "write" /\ taken[q.app] = 0
    BY DEF IInv, WritesLive, LiveWaits, MessageTaken
  <1>6. taken' = [taken EXCEPT ![q.app] = 1]
    BY <1>4, <1>5 DEF Take, TakeTimes, IInv, TypeOK
  <1>7. /\ owed' \in [Resources -> Seq(Answers)] /\ ready' \in [Resources -> Seq(Bytes)]
        /\ ungiven' \in [Resources -> Seq(Bytes)]
        /\ \A x \in Resources \ {r} : owed'[x] = owed[x] /\ ready'[x] = ready[x]
        /\ \A x \in Blocking : ready'[x] = ready[x] /\ ungiven'[x] = ungiven[x]
        /\ r \notin Blocking => owed'[r] = <<answer>> /\ ready'[r] = <<>>
    <2> HIDE DEF answer
    <2>1. owed[r] \in Seq(Answers)
      BY <1>4 DEF IInv, TypeOK
    <2>2. Append(owed[r], answer) \in Seq(Answers)
      BY <1>4, <2>1, AppendProperties
    <2>3. <<answer>> \in Seq(Answers)
      BY <1>4
    <2>4. CASE r \in Blocking
      <3>1. UNCHANGED <<ready, ungiven>> /\ (owed' = owed \/ owed' = [owed EXCEPT ![r] = Append(@, answer)])
        BY <2>4 DEF Take, TakeTimes, answer
      <3>2. CASE owed' = owed
        BY <1>4, <2>4, <3>1, <3>2 DEF IInv, TypeOK
      <3>3. CASE owed' = [owed EXCEPT ![r] = Append(owed[r], answer)]
        <4>1. owed' \in [Resources -> Seq(Answers)] /\ \A x \in Resources \ {r} : owed'[x] = owed[x]
          BY <1>4, <2>2, <3>3 DEF IInv, TypeOK
        <4>2. QED
          BY <2>4, <3>1, <4>1 DEF IInv, TypeOK
      <3>4. QED
        BY <3>1, <3>2, <3>3
    <2>5. CASE r \notin Blocking
      <3>1. /\ owed' = [owed EXCEPT ![r] = <<answer>>]
            /\ ready' = [ready EXCEPT ![r] = <<>>] /\ ungiven' = [ungiven EXCEPT ![r] = <<>>]
        BY <2>5 DEF Take, TakeTimes, answer
      <3>2. QED
        BY <1>1, <1>4, <2>3, <2>5, <3>1, IoAssumption DEF IInv, TypeOK
    <2>6. QED
      BY <2>4, <2>5
  <1> HIDE DEF p, r, answer
  <1>8. TypeOK'
    <2>1. reqs' \subseteq Request /\ \A x, y \in reqs' : x.slot = y.slot => x = y
      BY <1>2, <1>3 DEF IInv, TypeOK
    <2>2. QED
      BY <1>3, <1>4, <1>6, <1>7, <2>1 DEF IInv, TypeOK
  <1>9. LiveWaits' /\ WritesLive' /\ AllLive' /\ BusyReads' /\ NoResultYet'
    <2>1. LiveWaits'
      BY <1>2, <1>3, <1>5 DEF IInv, LiveWaits
    <2>2. WritesLive' /\ AllLive' /\ NoResultYet'
      BY <1>2, <1>3, <1>5 DEF IInv, WritesLive, AllLive, NoResultYet
    <2>3. BusyReads'
      BY <1>3 DEF BusyReads
    <2>4. QED
      BY <2>1, <2>2, <2>3
  <1>10. MessageTaken'
    <2>1. \A x \in reqs : x.live /\ x # q => x.app # q.app /\ x.app \in Apps
      BY <1>5 DEF IInv, TypeOK, LiveWaits, Request
    <2>2. QED
      BY <1>2, <1>3, <1>4, <1>6, <2>1 DEF IInv, TypeOK, MessageTaken
  <1>11. OneAnswer'
    <2> SUFFICES ASSUME NEW x \in Resources \ Blocking
                 PROVE  NothingHeld(x)' \/ \E z \in Answers : Holds(x, z)'
      BY DEF OneAnswer
    <2>1. CASE x = r
      BY <1>4, <1>7, <2>1 DEF Holds
    <2>2. CASE x # r
      BY <1>7, <2>2 DEF IInv, OneAnswer, NothingHeld, Holds
    <2>3. QED
      BY <2>1, <2>2
  <1>12. HoldsCurrent'
    <2> SUFFICES ASSUME NEW b \in Apps, Exclusive(b), SessOf[b] \notin Blocking, taken'[b] = 1
                 PROVE  /\ NothingHeld(SessOf[b])' \/ Holds(SessOf[b], Current(b))'
                        /\ \A x \in reqs' : x.app = b /\ x.live /\ x.kind = "read"
                               /\ x.stage = "replied" /\ x.ret = "count" =>
                               x.data \in Rests(BytesOf(SessOf[b], Current(b)')) \ {<<>>}
      BY DEF HoldsCurrent
    <2>1. CASE b = q.app
      <3>1. Holds(SessOf[b], Current(b))'
        BY <1>3, <1>4, <1>7, <2>1 DEF Holds, Current
      <3>2. \A x \in reqs' : x.app = b /\ x.live => x.kind # "read"
        BY <1>2, <1>3, <1>5, <2>1 DEF IInv, LiveWaits
      <3>3. QED
        BY <3>1, <3>2
    <2>2. CASE b # q.app
      <3>1. SessOf[b] # r /\ SessOf[b] \in Resources /\ taken[b] = 1 /\ Current(b)' = Current(b)
        BY <1>3, <1>4, <1>6, <2>2, IoAssumption DEF IInv, TypeOK, Exclusive, Current
      <3>2. \A x \in reqs' : x.app = b => x \in reqs
        BY <1>2, <1>3, <2>2
      <3>3. NothingHeld(SessOf[b])' \/ Holds(SessOf[b], Current(b))'
        BY <1>7, <3>1 DEF IInv, HoldsCurrent, NothingHeld, Holds
      <3>4. QED
        BY <3>1, <3>2, <3>3 DEF IInv, HoldsCurrent
    <2>3. QED
      BY <2>1, <2>2
  <1>13. ReadsBring'
    BY <1>1, <1>2, <1>3, IoAssumption DEF IInv, ReadsBring
  <1>14. StreamHeld'
    <2>1. \A a \in Apps : Answering(a)' = Answering(a)
      BY <1>2, <1>3 DEF Answering
    <2>2. \A x \in Blocking : ready'[x] = ready[x] /\ ungiven'[x] = ungiven[x]
      BY <1>7
    <2>3. QED
      BY <2>1, <2>2 DEF IInv, StreamHeld
  <1>15. WriteOnce' /\ ReadAnswersWrite'
    BY <1>3, <1>4, <1>5, <1>6 DEF IInv, TypeOK, WriteOnce, ReadAnswersWrite
  <1>16. QED
    BY <1>8, <1>9, <1>10, <1>11, <1>12, <1>13, <1>14, <1>15 DEF IInv

LEMMA ServerOnSendStep ==
  ASSUME IInv, NEW q \in reqs, ServerOnSend(q)
  PROVE  IInv'
  <1>1. CASE Take(q) /\ Reply(q, "count", <<>>)
    BY <1>1, TakeStep DEF ServerOnSend, Ready
  <1>2. CASE Reply(q, "error", <<>>) /\ UNCHANGED <<devVars, history>>
    BY <1>2, ErrorReply DEF ServerOnSend, Ready
  <1>3. QED
    BY <1>1, <1>2 DEF ServerOnSend

\* A read is answered with the first n bytes: on a USBTMC instrument, with all
\* there are.
LEMMA GiveStep ==
  ASSUME IInv, NEW q \in reqs, q.kind = "read", q.stage = "opened",
         NEW n \in 1 .. Len(ready[Res(q)]), GiveFirst(q, n), busy' = {},
         Res(q) \notin Blocking => n = Len(ready[Res(q)]),
         UNCHANGED <<up, connected, appVars, owed, history>>
  PROVE  IInv'
  <1> DEFINE r    == Res(q)
             data == SubSeq(ready[r], 1, n)
             left == SubSeq(ready[r], n + 1, Len(ready[r]))
             p    == [q EXCEPT !.stage = "replied", !.ret = "count", !.data = data]
  <1>1. q \in Request /\ q.app \in Apps /\ r \in Resources /\ r = SessOf[q.app]
    BY IoAssumption DEF IInv, TypeOK, Request, Res
  <1>2. ready[r] \in Seq(Bytes) /\ Len(ready[r]) \in Nat /\ n \in Nat /\ n \in 0 .. Len(ready[r])
    BY <1>1, LenProperties DEF IInv, TypeOK
  <1>3. data \in Seq(Bytes) /\ Len(data) = n /\ data \o left = ready[r]
    BY <1>2, Halves
  <1>4. left \in Seq(Bytes)
    BY <1>2, Rest
  <1>5. r \notin Blocking => data = ready[r] /\ left = <<>>
    BY <1>2, SubSeqFull, SubSeqEmpty
  <1>6. /\ p \in Request /\ p.stage = "replied"
        /\ p.slot = q.slot /\ p.app = q.app /\ p.kind = q.kind
        /\ p.live = q.live /\ p.ret = "count" /\ p.data = data
    BY <1>1, <1>3, Replied
  <1>7. /\ reqs' = (reqs \ {q}) \cup {p}
        /\ ready' = [ready EXCEPT ![r] = left]
        /\ UNCHANGED <<up, connected, pc, conn, warm, last, writes, owed, taken, ungiven>>
    BY DEF GiveFirst, Reply, Move, appVars, history
  <1>8. ready[r] # <<>>
    BY <1>2, EmptySeq
  <1> HIDE DEF p, r, data, left
  <1>9. TypeOK'
    <2>1. reqs' \subseteq Request /\ \A x, y \in reqs' : x.slot = y.slot => x = y
      BY <1>6, <1>7 DEF IInv, TypeOK
    <2>2. QED
      BY <1>4, <1>7, <2>1 DEF IInv, TypeOK
  <1>10. LiveWaits' /\ WritesLive' /\ AllLive' /\ BusyReads' /\ NoResultYet'
    BY <1>6, <1>7 DEF IInv, LiveWaits, WritesLive, AllLive, BusyReads, NoResultYet
  <1>11. MessageTaken' /\ WriteOnce' /\ ReadAnswersWrite'
    BY <1>6, <1>7 DEF IInv, MessageTaken, WriteOnce, ReadAnswersWrite
  <1>12. ready'[r] = left /\ \A x \in Resources \ {r} : ready'[x] = ready[x]
    BY <1>1, <1>7 DEF IInv, TypeOK
  <1>13. r \notin Blocking => owed[r] = <<>> /\ NothingHeld(r)'
    BY <1>1, <1>5, <1>7, <1>8, <1>12 DEF IInv, OneAnswer, NothingHeld, Holds
  <1>14. OneAnswer'
    BY <1>7, <1>12, <1>13 DEF IInv, OneAnswer, NothingHeld, Holds
  <1>15. HoldsCurrent'
    <2> SUFFICES ASSUME NEW b \in Apps, Exclusive(b), SessOf[b] \notin Blocking, taken[b] = 1
                 PROVE  /\ NothingHeld(SessOf[b])' \/ Holds(SessOf[b], Current(b))'
                        /\ \A x \in reqs' : x.app = b /\ x.live /\ x.kind = "read"
                               /\ x.stage = "replied" /\ x.ret = "count" =>
                               x.data \in Rests(BytesOf(SessOf[b], Current(b)')) \ {<<>>}
      BY <1>7 DEF HoldsCurrent
    <2>1. Current(b)' = Current(b)
      BY <1>7 DEF Current
    <2>2. CASE b = q.app
      <3>1. SessOf[b] = r /\ r \notin Blocking
        BY <1>1, <2>2
      <3>2. data \in Rests(BytesOf(r, Current(b))) \ {<<>>}
        BY <1>5, <1>8, <3>1 DEF IInv, HoldsCurrent, NothingHeld, Holds
      <3>3. \A x \in reqs' : x = p \/ x \in reqs
        BY <1>7
      <3>4. QED
        BY <1>6, <1>13, <2>1, <3>1, <3>2, <3>3 DEF IInv, HoldsCurrent
    <2>3. CASE b # q.app
      <3>1. SessOf[b] # r /\ SessOf[b] \in Resources
        BY <1>1, <2>3, IoAssumption DEF Exclusive
      <3>2. \A x \in reqs' : x.app = b => x \in reqs
        BY <1>6, <1>7, <2>3
      <3>3. QED
        BY <1>7, <1>12, <2>1, <3>1, <3>2 DEF IInv, HoldsCurrent, NothingHeld, Holds
    <2>4. QED
      BY <2>2, <2>3
  <1>16. ReadsBring'
    BY <1>3, <1>6, <1>7 DEF IInv, ReadsBring
  <1>17. StreamHeld'
    <2> SUFFICES ASSUME ~Timeouts, ~ServerEnds, NEW a \in Apps, Exclusive(a), SessOf[a] \in Blocking
                 PROVE  /\ Answering(a)' = {} => ungiven[SessOf[a]] = ready'[SessOf[a]]
                        /\ \A x \in Answering(a)' : ungiven[SessOf[a]] = x.data \o ready'[SessOf[a]]
      BY <1>7 DEF StreamHeld
    <2>1. CASE q.app = a
      <3>1. \A x \in reqs : x.app = a => x = q
        BY <2>1 DEF IInv, AllLive, LiveWaits
      <3>2. Answering(a)' = {p} /\ Answering(a) = {}
        BY <1>6, <1>7, <2>1, <3>1 DEF Answering
      <3>3. ungiven[SessOf[a]] = ready[SessOf[a]]
        BY <3>2 DEF IInv, StreamHeld
      <3>4. QED
        BY <1>1, <1>3, <1>6, <1>12, <2>1, <3>2, <3>3
    <2>2. CASE q.app # a
      <3>1. SessOf[a] # r /\ SessOf[a] \in Resources
        BY <1>1, <2>2, IoAssumption DEF Exclusive
      <3>2. Answering(a)' = Answering(a)
        BY <1>6, <1>7, <2>2 DEF Answering
      <3>3. QED
        BY <1>12, <3>1, <3>2 DEF IInv, StreamHeld
    <2>3. QED
      BY <2>1, <2>2
  <1>18. QED
    BY <1>9, <1>10, <1>11, <1>14, <1>15, <1>16, <1>17 DEF IInv

\* A read fails on a USBTMC instrument and has lost what full transfers took.
LEMMA LostReply ==
  ASSUME IInv, NEW q \in reqs, q.kind = "read", q.stage = "opened", busy = {},
         Res(q) \notin Blocking, Reply(q, "error", <<>>),
         NEW rest \in Rests(ready[Res(q)]), ready' = [ready EXCEPT ![Res(q)] = rest],
         UNCHANGED <<serverVars, appVars, owed, history>>
  PROVE  IInv'
  <1> DEFINE r == Res(q)
             p == [q EXCEPT !.stage = "replied", !.ret = "error", !.data = <<>>]
  <1>1. q \in Request /\ q.app \in Apps /\ r \in Resources /\ <<>> \in Seq(Bytes)
    BY EmptySeq, IoAssumption DEF IInv, TypeOK, Request, Res
  <1>2. ready[r] \in Seq(Bytes) /\ rest \in Seq(Bytes)
    BY <1>1, RestsFacts DEF IInv, TypeOK
  <1>3. /\ p \in Request /\ p.stage = "replied"
        /\ p.slot = q.slot /\ p.app = q.app /\ p.kind = q.kind
        /\ p.live = q.live /\ p.ret = "error" /\ p.data = <<>>
    BY <1>1, Replied
  <1>4. /\ reqs' = (reqs \ {q}) \cup {p}
        /\ UNCHANGED <<up, connected, busy, pc, conn, warm, last, writes, owed, taken, ungiven>>
    BY DEF Reply, Move, serverVars, appVars, history
  <1>5. ready'[r] = rest /\ \A x \in Resources \ {r} : ready'[x] = ready[x]
    BY <1>1 DEF IInv, TypeOK
  <1> HIDE DEF p
  <1>6. TypeOK'
    <2>1. reqs' \subseteq Request /\ \A x, y \in reqs' : x.slot = y.slot => x = y
      BY <1>3, <1>4 DEF IInv, TypeOK
    <2>2. ready' \in [Resources -> Seq(Bytes)]
      BY <1>1, <1>2 DEF IInv, TypeOK
    <2>3. QED
      BY <1>4, <2>1, <2>2 DEF IInv, TypeOK
  <1> HIDE DEF r
  <1>7. /\ LiveWaits' /\ WritesLive' /\ AllLive' /\ BusyReads' /\ NoResultYet'
        /\ ReadsBring'
    BY <1>3, <1>4 DEF IInv, LiveWaits, WritesLive, AllLive, BusyReads, NoResultYet, ReadsBring
  <1>8. MessageTaken' /\ WriteOnce' /\ ReadAnswersWrite'
    BY <1>3, <1>4 DEF IInv, MessageTaken, WriteOnce, ReadAnswersWrite
  <1>9. ASSUME NEW answer \in Answers, Holds(r, answer) \/ NothingHeld(r)
        PROVE  Holds(r, answer)' \/ NothingHeld(r)'
    <2>1. CASE ready[r] = <<>>
      <3>1. rest = <<>>
        <4>1. rest = SubSeq(<<>>, 1, 0)
          BY <1>2, <2>1, EmptySeq DEF Rests, r
        <4>2. QED
          BY <4>1, SubSeqEmpty
      <3>2. QED
        BY <1>4, <1>5, <1>9, <2>1, <3>1 DEF Holds, NothingHeld
    <2>2. CASE ready[r] # <<>>
      <3>1. owed[r] = <<>> /\ ready[r] \in Rests(BytesOf(r, answer))
        BY <1>9, <2>2 DEF Holds, NothingHeld
      <3>2. rest \in Rests(BytesOf(r, answer))
        BY <1>1, <3>1, BytesOfSeq, RestsFacts DEF r
      <3>3. QED
        BY <1>4, <1>5, <3>1, <3>2 DEF Holds
    <2>3. QED
      BY <2>1, <2>2
  <1>10. OneAnswer'
    <2> SUFFICES ASSUME NEW x \in Resources \ Blocking
                 PROVE  NothingHeld(x)' \/ \E z \in Answers : Holds(x, z)'
      BY DEF OneAnswer
    <2>1. PICK z \in Answers : NothingHeld(x) \/ Holds(x, z)
      <3>1. Current(q.app) \in Answers
        BY <1>1 DEF IInv, TypeOK, Answers, Current
      <3>2. QED
        BY <3>1 DEF IInv, OneAnswer
    <2>2. CASE x = r
      BY <1>9, <2>1, <2>2
    <2>3. CASE x # r
      BY <1>4, <1>5, <2>1, <2>3 DEF NothingHeld, Holds
    <2>4. QED
      BY <2>2, <2>3
  <1>11. HoldsCurrent'
    <2> SUFFICES ASSUME NEW b \in Apps, Exclusive(b), SessOf[b] \notin Blocking, taken[b] = 1
                 PROVE  /\ NothingHeld(SessOf[b])' \/ Holds(SessOf[b], Current(b))'
                        /\ \A x \in reqs' : x.app = b /\ x.live /\ x.kind = "read"
                               /\ x.stage = "replied" /\ x.ret = "count" =>
                               x.data \in Rests(BytesOf(SessOf[b], Current(b)')) \ {<<>>}
      BY <1>4 DEF HoldsCurrent
    <2>1. Current(b)' = Current(b) /\ Current(b) \in Answers
      BY <1>4 DEF Current, Answers, IInv, TypeOK
    <2>2. NothingHeld(SessOf[b]) \/ Holds(SessOf[b], Current(b))
      BY DEF IInv, HoldsCurrent
    <2>3. NothingHeld(SessOf[b])' \/ Holds(SessOf[b], Current(b))'
      <3>1. CASE SessOf[b] = r
        BY <1>9, <2>1, <2>2, <3>1
      <3>2. CASE SessOf[b] # r
        BY <1>4, <1>5, <2>1, <2>2, <3>2, IoAssumption DEF NothingHeld, Holds
      <3>3. QED
        BY <3>1, <3>2
    <2>4. ASSUME NEW x \in reqs', x.app = b, x.live, x.kind = "read", x.stage = "replied", x.ret = "count"
          PROVE  x.data \in Rests(BytesOf(SessOf[b], Current(b)')) \ {<<>>}
      <3>1. x \in reqs
        BY <1>3, <1>4, <2>4
      <3>2. QED
        BY <2>1, <2>4, <3>1 DEF IInv, HoldsCurrent
    <2>5. QED
      BY <2>3, <2>4
  <1>12. StreamHeld'
    <2> SUFFICES ASSUME ~Timeouts, ~ServerEnds, NEW a \in Apps, Exclusive(a), SessOf[a] \in Blocking
                 PROVE  /\ Answering(a)' = {} => ungiven[SessOf[a]] = ready'[SessOf[a]]
                        /\ \A x \in Answering(a)' : ungiven[SessOf[a]] = x.data \o ready'[SessOf[a]]
      BY <1>4 DEF StreamHeld
    <2>1. SessOf[a] # r /\ SessOf[a] \in Resources /\ q.app # a
      BY IoAssumption DEF r, Res
    <2>2. Answering(a)' = Answering(a)
      BY <1>3, <1>4, <2>1 DEF Answering
    <2>3. QED
      BY <1>5, <2>1, <2>2 DEF IInv, StreamHeld
  <1>13. QED
    BY <1>6, <1>7, <1>8, <1>10, <1>11, <1>12 DEF IInv

LEMMA ReadSteps ==
  ASSUME IInv, NEW q \in reqs, ServerOnRecv(q) \/ ServerUnblocks(q)
  PROVE  IInv'
  <1>1. q \in Request /\ Res(q) \in Resources
    BY IoAssumption DEF IInv, TypeOK, Request, Res
  <1>2. ready[Res(q)] \in Seq(Bytes)
    BY <1>1 DEF IInv, TypeOK
  <1>3. CASE ServerOnRecv(q)
    <2>1. CASE <<>> \notin Rests(ready[Res(q)]) /\ GiveFirst(q, Len(ready[Res(q)]))
      <3>1. ready[Res(q)] # <<>>
        BY <1>2, <2>1, RestsFacts
      <3>2. Len(ready[Res(q)]) \in 1 .. Len(ready[Res(q)])
        BY <1>2, <3>1, EmptySeq, LenProperties
      <3>3. QED
        BY <1>3, <2>1, <3>2, GiveStep DEF ServerOnRecv, Ready, serverVars
    <2>2. ASSUME NEW rest \in Rests(ready[Res(q)]), Reply(q, "error", <<>>),
                 ready' = [ready EXCEPT ![Res(q)] = rest]
          PROVE  IInv'
      BY <1>3, <2>2, LostReply DEF ServerOnRecv, Ready
    <2>3. QED
      BY <1>3, <2>1, <2>2 DEF ServerOnRecv
  <1>4. CASE ServerUnblocks(q)
    <2>1. q.kind = "read" /\ q.stage = "opened" /\ Res(q) \in Blocking
      BY <1>4 DEF ServerUnblocks, IInv, BusyReads
    <2>2. PICK n \in AtLeast[Res(q)] .. Len(ready[Res(q)]) : GiveFirst(q, n)
      BY <1>4 DEF ServerUnblocks
    <2>3. Len(ready[Res(q)]) \in Nat /\ AtLeast[Res(q)] \in Nat \ {0}
      BY <1>1, <1>2, LenProperties, IoAssumption
    <2>4. n \in 1 .. Len(ready[Res(q)])
      BY <2>3
    <2>5. QED
      BY <1>4, <2>1, <2>2, <2>4, GiveStep DEF ServerUnblocks
  <1>5. QED
    BY <1>3, <1>4

LEMMA EmitStep ==
  ASSUME IInv, NEW r \in Resources, Emit(r)
  PROVE  IInv'
  <1> DEFINE bytes == BytesOf(r, Head(owed[r]))
  <1>1. /\ owed[r] # <<>> /\ owed[r] \in Seq(Answers)
        /\ ready[r] \in Seq(Bytes) /\ ungiven[r] \in Seq(Bytes)
    BY DEF Emit, IInv, TypeOK
  <1>2. Head(owed[r]) \in Answers /\ Tail(owed[r]) \in Seq(Answers)
    BY <1>1, HeadTailProperties
  <1>3. bytes \in Seq(Bytes) /\ <<>> \o bytes = bytes
    BY <1>2, BytesOfSeq, ConcatEmptySeq
  <1>4. ready[r] \o bytes \in Seq(Bytes) /\ ungiven[r] \o bytes \in Seq(Bytes)
    BY <1>1, <1>3, ConcatProperties
  <1>5. /\ ready' = [ready EXCEPT ![r] = ready[r] \o bytes]
        /\ owed' = [owed EXCEPT ![r] = Tail(owed[r])]
        /\ ungiven' = [ungiven EXCEPT ![r] = ungiven[r] \o bytes]
        /\ UNCHANGED <<up, connected, busy, reqs, pc, conn, warm, last, writes, taken>>
    BY DEF Emit, serverVars, appVars
  <1>6. ASSUME r \notin Blocking, NEW answer \in Answers, Holds(r, answer)
        PROVE  bytes = BytesOf(r, answer) /\ ready[r] = <<>> /\ Tail(owed[r]) = <<>>
    <2>1. owed[r] = <<answer>> /\ ready[r] = <<>>
      BY <1>1, <1>6 DEF Holds
    <2>2. Len(<<answer>>) = 1 /\ Head(<<answer>>) = answer
      OBVIOUS
    <2>3. Len(Tail(owed[r])) = 0
      BY <1>1, <2>1, <2>2, HeadTailProperties
    <2>4. Tail(owed[r]) = <<>>
      BY <1>2, <2>3, EmptySeq
    <2>5. QED
      BY <2>1, <2>2, <2>4
  <1> HIDE DEF bytes
  <1>7. TypeOK'
    BY <1>2, <1>4, <1>5 DEF IInv, TypeOK
  <1>8. /\ LiveWaits' /\ WritesLive' /\ AllLive' /\ BusyReads' /\ NoResultYet'
        /\ MessageTaken' /\ ReadsBring' /\ WriteOnce' /\ ReadAnswersWrite'
    BY <1>5 DEF IInv, LiveWaits, WritesLive, AllLive, BusyReads, NoResultYet, MessageTaken,
       ReadsBring, WriteOnce, ReadAnswersWrite
  <1>9. /\ owed'[r] = Tail(owed[r]) /\ ready'[r] = ready[r] \o bytes
        /\ ungiven'[r] = ungiven[r] \o bytes
        /\ \A x \in Resources \ {r} :
              owed'[x] = owed[x] /\ ready'[x] = ready[x] /\ ungiven'[x] = ungiven[x]
    BY <1>5 DEF IInv, TypeOK
  <1>10. ASSUME r \notin Blocking, NEW answer \in Answers, Holds(r, answer)
         PROVE  Holds(r, answer)'
    <2>1. BytesOf(r, answer)' = BytesOf(r, answer)
      OBVIOUS
    <2>2. bytes = BytesOf(r, answer) /\ ready[r] = <<>> /\ Tail(owed[r]) = <<>>
      BY <1>6, <1>10
    <2>3. bytes \in Rests(bytes)
      BY <1>3, RestsFacts
    <2>4. QED
      BY <1>3, <1>9, <2>1, <2>2, <2>3 DEF Holds
  <1>11. OneAnswer'
    <2> SUFFICES ASSUME NEW x \in Resources \ Blocking
                 PROVE  NothingHeld(x)' \/ \E z \in Answers : Holds(x, z)'
      BY DEF OneAnswer
    <2>1. CASE x = r
      BY <1>1, <1>10, <2>1 DEF IInv, OneAnswer, NothingHeld
    <2>2. CASE x # r
      BY <1>9, <2>2 DEF IInv, OneAnswer, NothingHeld, Holds
    <2>3. QED
      BY <2>1, <2>2
  <1>12. HoldsCurrent'
    <2> SUFFICES ASSUME NEW b \in Apps, Exclusive(b), SessOf[b] \notin Blocking, taken[b] = 1
                 PROVE  NothingHeld(SessOf[b])' \/ Holds(SessOf[b], Current(b))'
      BY <1>5 DEF IInv, HoldsCurrent, Current
    <2>1. Current(b)' = Current(b) /\ Current(b) \in Answers
      BY <1>5 DEF Current, Answers, IInv, TypeOK
    <2>2. NothingHeld(SessOf[b]) \/ Holds(SessOf[b], Current(b))
      BY DEF IInv, HoldsCurrent
    <2>3. CASE SessOf[b] = r
      <3>1. Holds(r, Current(b))
        BY <1>1, <2>2, <2>3 DEF NothingHeld
      <3>2. bytes = BytesOf(r, Current(b)) /\ ready[r] = <<>> /\ Tail(owed[r]) = <<>>
        BY <1>6, <2>1, <2>3, <3>1
      <3>3. bytes \in Rests(bytes)
        BY <1>3, RestsFacts
      <3>4. owed'[r] = <<>> /\ ready'[r] \in Rests(BytesOf(r, Current(b)'))
        BY <1>3, <1>9, <2>1, <3>2, <3>3
      <3>5. QED
        BY <2>3, <3>4 DEF Holds
    <2>4. CASE SessOf[b] # r
      BY <1>9, <2>1, <2>2, <2>4, IoAssumption DEF NothingHeld, Holds
    <2>5. QED
      BY <2>3, <2>4
  <1>13. StreamHeld'
    <2> SUFFICES ASSUME ~Timeouts, ~ServerEnds, NEW a \in Apps, Exclusive(a), SessOf[a] \in Blocking
                 PROVE  /\ Answering(a)' = {} => ungiven'[SessOf[a]] = ready'[SessOf[a]]
                        /\ \A x \in Answering(a)' : ungiven'[SessOf[a]] = x.data \o ready'[SessOf[a]]
      BY DEF StreamHeld
    <2>1. Answering(a)' = Answering(a)
      BY <1>5 DEF Answering
    <2>2. /\ Answering(a) = {} => ungiven[SessOf[a]] = ready[SessOf[a]]
          /\ \A x \in Answering(a) : ungiven[SessOf[a]] = x.data \o ready[SessOf[a]]
      BY DEF IInv, StreamHeld
    <2>3. CASE SessOf[a] = r
      <3>1. ASSUME NEW x \in Answering(a)
            PROVE  ungiven'[r] = x.data \o ready'[r]
        <4>1. x.data \in Seq(Bytes)
          BY DEF Answering, IInv, TypeOK, Request
        <4>2. (x.data \o ready[r]) \o bytes = x.data \o (ready[r] \o bytes)
          <5>1. ready[r] \in Seq(Bytes) /\ bytes \in Seq(Bytes)
            BY <1>1, <1>3
          <5>2. \A s, t, u \in Seq(Bytes) : (s \o t) \o u = s \o (t \o u)
            BY ConcatAssociative
          <5>3. QED
            BY <4>1, <5>1, <5>2
        <4>3. QED
          BY <1>9, <2>2, <2>3, <4>2
      <3>2. QED
        BY <1>9, <2>1, <2>2, <2>3, <3>1
    <2>4. CASE SessOf[a] # r
      BY <1>9, <2>1, <2>2, <2>4, IoAssumption
    <2>5. QED
      BY <2>3, <2>4
  <1>14. QED
    BY <1>7, <1>8, <1>11, <1>12, <1>13 DEF IInv

-----------------------------------------------------------------------------
(* All steps together, and what follows.                                   *)

LEMMA StepInv == IInv /\ [Next]_vars => IInv'
  <1> SUFFICES ASSUME IInv, [Next]_vars PROVE IInv'
    OBVIOUS
  <1>1. ASSUME NEW a \in Apps, RunReturns(a) \/ \E kind \in Kinds : Start(a, kind) PROVE IInv'
    BY <1>1, RunReturnsStep, StartStep
  <1>2. ASSUME NEW q \in reqs, ClientEvent(q) PROVE IInv'
    BY <1>2, ClientSendsStep, OnReplyStep, OverrunStep, OnOptionReplyStep DEF ClientEvent
  <1>3. ASSUME NEW q \in reqs, Timeout(q) \/ Drop(q) \/ ServerTimeout(q) PROVE IInv'
    BY <1>3, TimeoutStep, DropStep, ServerTimeoutStep
  <1>4. ASSUME NEW q \in reqs, Serve(q) PROVE IInv'
    BY <1>4, AcceptStep, ServerOnSendStep, ReadSteps, ServerOnlySteps, ServerOnGetOptionStep,
       ServerIgnoresStep DEF Serve
  <1>5. CASE ServerGone \/ ServerStart
    BY <1>5, ServerGoneStep, ServerOnlySteps
  <1>6. ASSUME NEW r \in Resources, Reconnect(r) \/ Emit(r) PROVE IInv'
    BY <1>6, EmitStep, ServerOnlySteps
  <1>7. CASE UNCHANGED vars
    <2>1. UNCHANGED <<up, connected, busy, reqs, appVars, devVars, history>>
      BY <1>7 DEF vars, serverVars
    <2>2. QED
      BY <2>1, ServerOnly DEF IInv, TypeOK
  <1>8. QED
    BY <1>1, <1>2, <1>3, <1>4, <1>5, <1>6, <1>7 DEF Next

(* The inductive invariant of reading and writing holds, whatever times    *)
(* out and whenever the server ends.                                       *)
THEOREM IoInvariant == Spec => []IInv
  BY InitInv, StepInv, PTL DEF Spec

(* Every variable keeps its type, and no two requests share a slot.        *)
THEOREM TypeCorrect == Spec => []TypeOK
  <1>1. IInv => TypeOK
    BY DEF IInv
  <1>2. QED
    BY <1>1, IoInvariant, PTL

(* No message is taken twice, and a viWrite that reports a count was taken *)
(* (send route of the server, Session::on_message).                        *)
THEOREM WritesOnce == Spec => []WriteOnce
  <1>1. IInv => WriteOnce
    BY DEF IInv
  <1>2. QED
    BY <1>1, IoInvariant, PTL

(* A viRead on a USBTMC session gives the answer to the last viWrite that  *)
(* was taken, or what failed reads have left of it, and no older one (recv *)
(* and send routes).                                                       *)
THEOREM ReadsAnswerWrites == Spec => []ReadAnswersWrite
  <1>1. IInv => ReadAnswersWrite
    BY DEF IInv
  <1>2. QED
    BY <1>1, IoInvariant, PTL

(* The bytes of a stream come to the reads of its application in order,    *)
(* none lost and none twice, however they are cut (recv route, MdnsPort    *)
(* and ComPort).                                                           *)
THEOREM StreamsInOrder == Spec => []StreamInOrder
  <1>1. IInv => StreamInOrder
    BY DEF IInv, StreamHeld, StreamInOrder, Answering
  <1>2. QED
    BY <1>1, IoInvariant, PTL
=============================================================================
