-------------------------- MODULE UsbTmcPortProofs --------------------------
(* Proofs about UsbTmcPort for transfers of any size, any number of tags   *)
(* above two, and instruments with any responses and altsettings.          *)
EXTENDS UsbTmcPort, TLAPS

-----------------------------------------------------------------------------
(* The operators.                                                          *)

(* The padding of a transfer of at most DEF_DATA_MAX_SIZE bytes stays      *)
(* within the three bytes DEF_BUFFER_SIZE keeps for it.                    *)
LEMMA TransferFits ==
    ASSUME NEW n \in Nat, n <= MaxData
    PROVE  TransferSize(n) <= BufferSize /\ TransferSize(n) % 4 = 0
BY PortAssumption DEF TransferSize, BufferSize

(* NextTag moves on and skips zero.                                        *)
LEMMA NextTagMoves ==
    ASSUME NEW t \in Tags
    PROVE  NextTag(t) \in Tags /\ NextTag(t) # t /\ NextTag(t) # 0
<1>1. CASE t = TagMod - 1
  <2>1. (t + 1) % TagMod = 0
    BY <1>1, PortAssumption
  <2> QED
    BY <1>1, <2>1, PortAssumption DEF NextTag, Tags
<1>2. CASE t # TagMod - 1
  <2>1. (t + 1) % TagMod = t + 1
    BY <1>2, PortAssumption DEF Tags
  <2> QED
    BY <1>2, <2>1, PortAssumption DEF NextTag, Tags
<1> QED
  BY <1>1, <1>2

(* A transfer takes at most what is left and at most DEF_DATA_MAX_SIZE.    *)
LEMMA ChunkBounds ==
    ASSUME remaining \in Nat
    PROVE  /\ ChunkSize \in Nat /\ ChunkSize <= remaining /\ ChunkSize <= MaxData
           /\ remaining > 0 => ChunkSize > 0
           /\ remaining <= MaxData => ChunkSize = remaining
           /\ remaining > MaxData => ChunkSize < remaining
BY PortAssumption DEF ChunkSize, Smaller

(* What the instrument sends is at most what it was asked for and has.     *)
LEMMA SmallerBounds ==
    ASSUME NEW m \in Nat, NEW n \in Nat
    PROVE  /\ Smaller(m, n) \in Nat /\ Smaller(m, n) <= m /\ Smaller(m, n) <= n
           /\ m > 0 /\ n > 0 => Smaller(m, n) > 0
           /\ Smaller(m, n) < m => Smaller(m, n) = n
BY DEF Smaller

-----------------------------------------------------------------------------
(* The inductive invariant: what the loops keep between two rounds.        *)

\* write(): the instrument has the first done bytes, in order, of a message
\* that is complete exactly when nothing remains.
WriteProgress ==
    op = "write" =>
        /\ done + remaining = len
        /\ remaining > 0 => got = done
        /\ remaining = 0 => got = 0
        /\ remaining = 0 /\ len > 0 => heard.own = len

\* Bytes of other writes are in a message only after a write that failed.
PartsAfterErrors ==
    /\ got >= 0
    /\ before > 0 => torn
    /\ op # "write" /\ got > 0 => torn
    /\ op = "write" /\ remaining = 0 /\ done > 0 =>
           before = 0 /\ (heard.before > 0 => torn)

\* read(): done bytes have come, and only the end of the response ends it.
ReadProgress ==
    /\ op \in {"request", "answer"} => done + left = start
    /\ op = "answer" => want = ChunkSize /\ remaining > 0
    /\ op = "request" /\ remaining = 0 /\ len > 0 => left = 0

IInv == TypeOK /\ TagsAdvance /\ WriteProgress /\ PartsAfterErrors /\ ReadProgress

-----------------------------------------------------------------------------
LEMMA InitIInv == Init => IInv
<1> SUFFICES ASSUME Init PROVE IInv
  OBVIOUS
<1>1. result \in [of: {"none", "write", "read", "crash"}, value: Int] /\ heard \in Message
  BY DEF Init, Message
<1>2. TypeOK
  BY <1>1, PortAssumption DEF Init, TypeOK, Tags, NoTag
<1> QED
  BY <1>2 DEF Init, IInv, TagsAdvance, WriteProgress, PartsAfterErrors, ReadProgress

LEMMA NextIInv ==
    ASSUME IInv, [Next]_vars
    PROVE  IInv'
<1> USE PortAssumption DEF IInv
<1> USE DEF TypeOK, Tags, NoTag, Error, Message
<1>a. /\ ChunkSize \in Nat /\ ChunkSize <= remaining /\ ChunkSize <= MaxData
      /\ remaining > 0 => ChunkSize > 0
      /\ remaining <= MaxData => ChunkSize = remaining
      /\ remaining > MaxData => ChunkSize < remaining
  BY ChunkBounds
<1>b. NextTag(bTag) \in Tags /\ NextTag(bTag) # bTag /\ NextTag(bTag) # 0
  BY NextTagMoves
<1>1. CASE Open
  BY <1>1 DEF Open, deviceVars, TagsAdvance, WriteProgress, PartsAfterErrors, ReadProgress
<1>2. CASE CloseAndRenew
  BY <1>2 DEF CloseAndRenew, Renewed, deviceVars, TagsAdvance, WriteProgress, PartsAfterErrors, ReadProgress
<1>3. CASE UseUnopened
  BY <1>3 DEF UseUnopened, Renewed, deviceVars, TagsAdvance, WriteProgress, PartsAfterErrors, ReadProgress
<1>4. ASSUME NEW n \in WriteLens, StartWrite(n) PROVE IInv'
  BY <1>4 DEF StartWrite, TagsAdvance, WriteProgress, PartsAfterErrors, ReadProgress
<1>5. ASSUME NEW n \in ReadLens, StartRead(n) PROVE IInv'
  BY <1>5 DEF StartRead, deviceVars, TagsAdvance, WriteProgress, PartsAfterErrors, ReadProgress
<1>6. CASE WriteChunk
  <2>1. TypeOK'
    <3>1. heard' \in Message /\ got' \in Int /\ before' \in Nat /\ left' \in Nat /\ want' \in Nat
      <4>1. (IF done = got THEN got + ChunkSize ELSE Scrambled) \in Int
        BY <1>a DEF Scrambled
      <4>2. left' \in Nat /\ want' \in Nat /\ before' \in Nat
        <5>1. CASE remaining <= MaxData
          <6>1. left' \in Responses /\ want' = 0 /\ before' = 0
            BY <1>6, <5>1, Zenon DEF WriteChunk, Receive
          <6> QED
            BY <6>1
        <5>2. CASE ~(remaining <= MaxData)
          BY <1>6, <5>2 DEF WriteChunk, Receive
        <5> QED
          BY <5>1, <5>2
      <4> QED
        BY <1>6, <4>1, <4>2 DEF WriteChunk, Receive
    <3>2. remaining' \in Nat /\ done' \in Nat
      BY <1>6, <1>a DEF WriteChunk
    <3> QED
      BY <1>6, <1>b, <3>1, <3>2 DEF WriteChunk, Tagged
  <2>2. TagsAdvance'
    BY <1>6, <1>b DEF WriteChunk, Tagged, TagsAdvance
  <2>3. WriteProgress'
    <3>1. /\ done' + remaining' = len' /\ done' = done + ChunkSize /\ got = done
          /\ remaining' = remaining - ChunkSize
      BY <1>6, <1>a DEF WriteChunk, WriteProgress
    <3>2. CASE remaining <= MaxData
      <4>1. heard'.own = got + ChunkSize /\ got' = 0
        BY <1>6, <3>1, <3>2 DEF WriteChunk, Receive
      <4> QED
        BY <1>6, <1>a, <3>1, <3>2, <4>1 DEF WriteChunk, WriteProgress
    <3>3. CASE remaining > MaxData
      <4>1. got' = got + ChunkSize
        BY <1>6, <3>1, <3>3 DEF WriteChunk, Receive
      <4> QED
        BY <1>6, <1>a, <3>1, <3>3, <4>1 DEF WriteChunk, WriteProgress
    <3> QED
      BY <3>2, <3>3
  <2>4. ReadProgress'
    BY <1>6 DEF WriteChunk, ReadProgress
  <2>5. PartsAfterErrors'
    <3>1. got = done /\ remaining > 0 /\ done' = done + ChunkSize /\ torn' = torn /\ op' = "write"
      BY <1>6 DEF WriteChunk, WriteProgress
    <3>2. CASE remaining <= MaxData
      <4>1. heard'.before = before /\ got' = 0 /\ before' = 0
        BY <1>6, <3>2 DEF WriteChunk, Receive
      <4> QED
        BY <3>1, <4>1 DEF PartsAfterErrors
    <3>3. CASE remaining > MaxData
      <4>1. got' = got + ChunkSize /\ before' = before
        BY <1>6, <3>1, <3>3 DEF WriteChunk, Receive
      <4>2. remaining' = remaining - ChunkSize
        BY <1>6 DEF WriteChunk
      <4>3. remaining' > 0 /\ got' >= 0
        BY <1>a, <3>1, <3>3, <4>1, <4>2
      <4> QED
        BY <3>1, <4>1, <4>3 DEF PartsAfterErrors
    <3> QED
      BY <3>2, <3>3
  <2> QED
    BY <2>1, <2>2, <2>3, <2>4, <2>5
<1>7. CASE WriteFails
  <2>1. result' = [of |-> "write", value |-> Error] /\ halted' \in BOOLEAN
    BY <1>7 DEF WriteFails, Return
  <2>2. TypeOK'
    BY <1>7, <1>b, <2>1 DEF WriteFails, Return, Tagged
  <2> QED
    BY <1>7, <1>b, <2>2 DEF WriteFails, Return, Tagged, TagsAdvance, WriteProgress, PartsAfterErrors, ReadProgress
<1>8. CASE WriteReturns
  <2>1. remaining = 0 /\ got = 0 /\ op' = "idle" /\ done' = 0 /\ remaining' = 0 /\ len' = 0
    BY <1>8 DEF WriteReturns, Return, WriteProgress
  <2>2. torn' \in BOOLEAN
    BY <1>8 DEF WriteReturns
  <2>3. TypeOK' /\ TagsAdvance' /\ WriteProgress' /\ ReadProgress'
    BY <1>8, <2>1, <2>2 DEF WriteReturns, Return, deviceVars, TagsAdvance, WriteProgress, ReadProgress
  <2>4. PartsAfterErrors'
    <3>1. before' = before /\ got' = got /\ (done = 0 /\ torn => torn')
      BY <1>8 DEF WriteReturns, deviceVars
    <3>2. before > 0 => done = 0 /\ torn
      BY <1>8, <2>1 DEF WriteReturns, PartsAfterErrors
    <3> QED
      BY <2>1, <3>1, <3>2 DEF PartsAfterErrors
  <2> QED
    BY <2>3, <2>4
<1>9. CASE Request
  <2>1. ChunkSize' = ChunkSize
    BY <1>9 DEF Request, ChunkSize
  <2> QED
    BY <1>9, <1>a, <1>b, <2>1 DEF Request, Tagged, TagsAdvance, WriteProgress, PartsAfterErrors, ReadProgress
<1>10. CASE RequestFails
  <2>1. result' = [of |-> "read", value |-> Error] /\ halted' \in BOOLEAN
    BY <1>10 DEF RequestFails, Return
  <2>2. TypeOK'
    BY <1>10, <1>b, <2>1 DEF RequestFails, Return, Tagged
  <2> QED
    BY <1>10, <1>b, <2>2 DEF RequestFails, Return, Tagged, TagsAdvance, WriteProgress, PartsAfterErrors, ReadProgress
<1>11. CASE Answer
  <2> DEFINE bytes == Smaller(want, left)
  <2>1. /\ bytes \in Nat /\ bytes <= left
        /\ bytes < want => bytes = left
    BY <1>11, SmallerBounds
  <2>2. /\ left' = left - bytes /\ done' = done + bytes
        /\ remaining' = IF bytes < ChunkSize THEN 0 ELSE remaining
    BY <1>11 DEF Answer
  <2>3. want = ChunkSize /\ done + left = start /\ remaining > 0
    BY <1>11 DEF Answer, ReadProgress
  <2> HIDE DEF bytes
  <2>4. TypeOK'
    BY <1>11, <2>1, <2>2 DEF Answer
  <2>5. ReadProgress'
    BY <1>11, <2>1, <2>2, <2>3 DEF Answer, ReadProgress
  <2> QED
    BY <1>11, <2>4, <2>5 DEF Answer, TagsAdvance, WriteProgress, PartsAfterErrors
<1>12. CASE Overrun
  BY <1>12 DEF Overrun, Renewed, Return, deviceVars, TagsAdvance, WriteProgress, PartsAfterErrors, ReadProgress
<1>13. CASE AnswerFails
  BY <1>13 DEF AnswerFails, Return, deviceVars, TagsAdvance, WriteProgress, PartsAfterErrors, ReadProgress
<1>14. CASE ReadReturns
  BY <1>14 DEF ReadReturns, Return, deviceVars, TagsAdvance, WriteProgress, PartsAfterErrors, ReadProgress
<1>15. CASE UNCHANGED vars
  BY <1>15 DEF vars, portVars, deviceVars, TagsAdvance, WriteProgress, PartsAfterErrors, ReadProgress, ChunkSize
<1> QED
  BY <1>1, <1>2, <1>3, <1>4, <1>5, <1>6, <1>7, <1>8, <1>9, <1>10, <1>11, <1>12, <1>13,
     <1>14, <1>15 DEF Next, Round

THEOREM PortInvariant == Spec => []IInv
<1>1. Init => IInv
  BY InitIInv
<1>2. IInv /\ [Next]_vars => IInv'
  BY NextIInv
<1> QED
  BY <1>1, <1>2, PTL DEF Spec

-----------------------------------------------------------------------------
(* The variables of a port keep their types: no loop counts below zero,    *)
(* whatever the lengths.                                                   *)
THEOREM PortTypeCorrect == Spec => []TypeOK
BY PortInvariant, PTL DEF IInv

(* No two successive headers of a port carry the same bTag, and none after *)
(* the first carries zero, for any modulus above two.                      *)
THEOREM TagsCorrect == Spec => []TagsAdvance
BY PortInvariant, PTL DEF IInv

(* No write makes a transfer larger than buf_, or one not aligned.         *)
THEOREM BufferCorrect == Spec => []BufferHolds
<1>1. IInv => BufferHolds
  BY ChunkBounds, TransferFits DEF IInv, TypeOK, BufferHolds
<1> QED
  BY <1>1, PortInvariant, PTL

(* A write that returns a length has ended a message that holds exactly the *)
(* caller's bytes, for every length and every size of transfer, unless a    *)
(* write was torn before it and none has succeeded since.                   *)
THEOREM WritesDeliver == Spec => WriteDelivers
<1>1. IInv /\ [Next]_vars =>
        (op = "write" /\ op' = "idle" /\ Returned' > 0 =>
            /\ Returned' = len /\ heard.own = len
            /\ heard.before > 0 => torn)
  <2> SUFFICES ASSUME IInv, [Next]_vars, op = "write", op' = "idle", Returned' > 0
               PROVE  Returned' = len /\ heard.own = len /\ (heard.before > 0 => torn)
    OBVIOUS
  <2>1. WriteFails \/ WriteReturns
    BY DEF Next, Round, Open, CloseAndRenew, UseUnopened, StartWrite, StartRead, WriteChunk,
           Request, RequestFails, Answer, Overrun, AnswerFails, ReadReturns, vars, portVars
  <2>2. ~WriteFails
    BY DEF WriteFails, Return, Returned, Error
  <2>3. WriteReturns
    BY <2>1, <2>2
  <2>4. Returned' = done /\ remaining = 0
    BY <2>3 DEF WriteReturns, Return, Returned, IInv, TypeOK
  <2> QED
    BY <2>4 DEF IInv, TypeOK, WriteProgress, PartsAfterErrors
<1> QED
  BY <1>1, PortInvariant, PTL DEF Spec, WriteDelivers

(* A read that returns a length has counted what came, and a short one has *)
(* emptied the response, for every size of request, transfer and response. *)
THEOREM ShortReadsEnd == Spec => ShortReadEnds
<1>1. IInv /\ [Next]_vars =>
        (op = "request" /\ op' = "idle" /\ Returned' >= 0 =>
            Returned' = start - left /\ (Returned' < len => left = 0))
  <2> SUFFICES ASSUME IInv, [Next]_vars, op = "request", op' = "idle", Returned' >= 0
               PROVE  Returned' = start - left /\ (Returned' < len => left = 0)
    OBVIOUS
  <2>1. RequestFails \/ ReadReturns
    BY DEF Next, Round, Open, CloseAndRenew, UseUnopened, StartWrite, StartRead, WriteChunk,
           WriteFails, WriteReturns, Request, Answer, Overrun, AnswerFails, vars, portVars
  <2>2. ~RequestFails
    BY DEF RequestFails, Return, Returned, Error
  <2>3. ReadReturns
    BY <2>1, <2>2
  <2>4. Returned' = done /\ remaining = 0
    BY <2>3 DEF ReadReturns, Return, Returned, IInv, TypeOK
  <2> QED
    BY <2>4 DEF IInv, TypeOK, ReadProgress
<1> QED
  BY <1>1, PortInvariant, PTL DEF Spec, ShortReadEnds

(* A response that fits the caller's buffer never overruns it.             *)
THEOREM BuffersHoldReads == Spec => []CopiesFit
<1>1. IInv => CopiesFit
  BY DEF IInv, TypeOK, ReadProgress, CopiesFit
<1> QED
  BY <1>1, PortInvariant, PTL
=============================================================================
