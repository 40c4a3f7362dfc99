----------------------------- MODULE UsbTmcPort -----------------------------
(* A USBTMC port of the server and the instrument behind it.               *)
(*                                                                         *)
(* UsbTmcPort turns a write into DEV_DEP_MSG_OUT transfers of at most      *)
(* DEF_DATA_MAX_SIZE bytes, the last one marked as the end of the message, *)
(* and a read into rounds of REQUEST_DEV_DEP_MSG_IN and one bulk-in        *)
(* transfer, until a round is short.  Each round is one step here: the     *)
(* instrument and the USB decide between rounds how the next one ends.     *)
(*                                                                         *)
(* Bytes are counted, not named.  The instrument is external: it appends   *)
(* the data of the transfers it takes, answers a complete message with a   *)
(* response of some size (or none), never sends more than it is asked for, *)
(* and less only at the end of its response.                               *)
(***************************************************************************)
EXTENDS Integers, Sequences

CONSTANTS
    MaxData,      \* DEF_DATA_MAX_SIZE
    TagMod,       \* values of the uint8_t bTag_
    WriteLens,    \* lengths a viWrite may ask for
    ReadLens,     \* lengths the recv route asks for (1024 in VisaWsServer)
    Responses,    \* sizes of the responses of the instrument, 0 for none
    Faults,       \* TRUE: the USB may fail any transfer
    MaxTorn,      \* bound of the model: bytes of failed writes in one message
    Configs       \* per configuration, the altsettings of the url's interface

ASSUME PortAssumption ==
    /\ MaxData \in Nat \ {0}
    /\ TagMod \in Nat /\ TagMod > 2
    /\ WriteLens \subseteq Nat /\ ReadLens \subseteq Nat /\ Responses \subseteq Nat
    /\ MaxTorn \in Nat
    /\ Faults \in BOOLEAN

VARIABLES
    \* the UsbTmcPort object
    handle,       \* handle_: no constructor sets it
    bTag,         \* bTag_: no constructor sets it
    lastTag,      \* usbtmc_last_write_bTag_, NoTag before the first header
    op,           \* the loop the server thread is in
    len,          \* the argument of that call
    remaining, done,
    result,       \* what the last call returned: its kind and value
    \* the instrument
    got,          \* bytes of the current write in its unfinished message
    before,       \* bytes of earlier, failed writes it begins with
    heard,        \* the last complete message: those bytes and the write's own
    left,         \* bytes of its response not yet sent
    want,         \* the transfer size of the newest request for it
    halted,       \* it was left inside a transfer and takes no more
    \* history
    start,        \* left when the current or last read began
    torn          \* a write has failed inside a message since one last succeeded

portVars   == <<handle, bTag, lastTag, op, len, remaining, done, result>>
deviceVars == <<got, before, heard, left, want, halted>>
vars       == <<portVars, deviceVars, start, torn>>

Tags      == 0 .. TagMod - 1
NoTag     == TagMod
Error     == -1               \* any negative code of libusb
Scrambled == -1               \* data repeated, skipped or out of order
Message   == [before: Nat, own: Int]

Smaller(m, n) == IF m < n THEN m ELSE n

-----------------------------------------------------------------------------
(* Which altsetting open() takes.                                          *)

\* The first endpoint of a direction and type, 0 for none.
FirstEndpoint(eps, dir, type) ==
    LET hits == {i \in DOMAIN eps : eps[i].dir = dir /\ eps[i].type = type} IN
    IF hits = {} THEN 0
    ELSE eps[CHOOSE i \in hits : \A j \in hits : i <= j].addr

BulkPair(alt) ==
    <<FirstEndpoint(alt.eps, "in", "bulk"), FirstEndpoint(alt.eps, "out", "bulk")>>

\* Class APPLICATION, subclass 3, and a bulk endpoint each way.
IsUsbTmc(alt) ==
    alt.tmc /\ BulkPair(alt)[1] # 0 /\ BulkPair(alt)[2] # 0

HasUsbTmc == \E c \in DOMAIN Configs : \E a \in DOMAIN Configs[c] : IsUsbTmc(Configs[c][a])

-----------------------------------------------------------------------------
(* Bytes on the wire.                                                      *)

BufferSize == MaxData + 12 + 3      \* DEF_BUFFER_SIZE, the size of buf_

\* Mutant: data whose length is a multiple of 4 is padded as well.
TransferSize_AlwaysPads(n) == 12 + n + (4 - (n % 4))

\* A DEV_DEP_MSG_OUT transfer: 12 bytes of header, data, zeros up to 4.
TransferSize(n) == 12 + n + (IF n % 4 = 0 THEN 0 ELSE 4 - (n % 4))

\* Mutant: the increment may end on zero and repeat the tag before the wrap.
NextTag_StopsAtLast(t) == IF t + 1 = TagMod THEN t ELSE t + 1

\* bTag_++, and again if that is zero.
NextTag(t) == IF (t + 1) % TagMod = 0 THEN 1 ELSE (t + 1) % TagMod

ChunkSize == Smaller(remaining, MaxData)

Init ==
    /\ handle = "unset" /\ bTag \in Tags /\ lastTag = NoTag
    /\ op = "idle" /\ len = 0 /\ remaining = 0 /\ done = 0
    /\ result = [of |-> "none", value |-> 0]
    /\ got = 0 /\ before = 0 /\ heard = [before |-> 0, own |-> 0]
    /\ left = 0 /\ want = 0 /\ halted = FALSE
    /\ start = 0 /\ torn = FALSE

-----------------------------------------------------------------------------
(* Opening and closing.                                                    *)

\* open(): libusb may fail at every call; only a claimed interface sets handle_.
Open ==
    /\ op = "idle" /\ handle = "unset"
    /\ handle' \in (IF HasUsbTmc THEN {"open", "failed"} ELSE {"failed"})
    /\ UNCHANGED <<bTag, lastTag, op, len, remaining, done, result, deviceVars, start, torn>>

\* The object is gone; the bTag_ of the next one is whatever its memory holds.
Renewed == handle' = "unset" /\ bTag' \in Tags /\ lastTag' = NoTag

\* close(), which a null handle_ survives, and the Port object goes with its
\* VisaConnction.
CloseAndRenew ==
    /\ op = "idle" /\ handle # "unset"
    /\ Renewed
    /\ UNCHANGED <<op, len, remaining, done, result, deviceVars, start, torn>>

\* The result of open() is ignored: a transfer or a close of a port that is
\* not open works on a handle_ nobody set, and the server does not survive it.
UseUnopened ==
    /\ op = "idle" /\ handle = "failed"
    /\ Renewed
    /\ result' = [of |-> "crash", value |-> Error]
    /\ UNCHANGED <<op, len, remaining, done, deviceVars, start, torn>>

\* A call returns; its locals are gone.
Return(kind, value) ==
    /\ op' = "idle"
    /\ len' = 0 /\ remaining' = 0 /\ done' = 0
    /\ result' = [of |-> kind, value |-> value]

\* One bulk-out header has been tried; the next one has another tag.
Tagged == lastTag' = bTag /\ bTag' = NextTag(bTag)

-----------------------------------------------------------------------------
(* write().                                                                *)

\* What an earlier write left unfinished stays in the instrument: nothing
\* aborts it.
StartWrite(n) ==
    /\ op = "idle" /\ handle = "open"
    /\ before + got <= MaxTorn
    /\ op' = "write"
    /\ len' = n /\ remaining' = n /\ done' = 0
    /\ before' = before + got /\ got' = 0
    /\ UNCHANGED <<handle, bTag, lastTag, result, heard, left, want, halted, start, torn>>

\* The instrument appends the data from offset `from` to its message; the end
\* of a message drops what is left of the last response and starts the next
\* one.
Receive(from, size, eom) ==
    LET own == IF from = got THEN got + size ELSE Scrambled IN
    /\ ~halted
    /\ IF eom
       THEN /\ heard' = [before |-> before, own |-> own]
            /\ got' = 0 /\ before' = 0
            /\ left' \in Responses
            /\ want' = 0
       ELSE /\ got' = own
            /\ UNCHANGED <<before, heard, left, want>>

\* Mutant: the last round subtracts a full transfer.
WriteChunk_SubtractsMax ==
    /\ op = "write" /\ remaining > 0
    /\ Receive(done, ChunkSize, remaining <= MaxData)
    /\ remaining' = remaining - MaxData
    /\ done' = done + ChunkSize
    /\ Tagged
    /\ UNCHANGED <<handle, op, len, result, halted, start, torn>>

\* One round of the loop whose transfer is taken.
WriteChunk ==
    /\ op = "write" /\ remaining > 0
    /\ Receive(done, ChunkSize, remaining <= MaxData)
    /\ remaining' = remaining - ChunkSize
    /\ done' = done + ChunkSize
    /\ Tagged
    /\ UNCHANGED <<handle, op, len, result, halted, start, torn>>

\* Mutant: what went out before the failure is reported as written.
WriteFails_ReturnsDone ==
    /\ Faults
    /\ op = "write" /\ remaining > 0
    /\ \/ UNCHANGED halted
       \/ halted' = TRUE
    /\ Tagged
    /\ Return("write", done)
    /\ torn' = (torn \/ done > 0)
    /\ UNCHANGED <<handle, got, before, heard, left, want, start>>

\* Its transfer fails: nothing arrived, or the instrument is left inside it.
WriteFails ==
    /\ Faults
    /\ op = "write" /\ remaining > 0
    /\ \/ UNCHANGED halted
       \/ halted' = TRUE
    /\ Tagged
    /\ Return("write", Error)
    /\ torn' = (torn \/ done > 0)
    /\ UNCHANGED <<handle, got, before, heard, left, want, start>>

WriteReturns ==
    /\ op = "write" /\ remaining <= 0
    /\ Return("write", done)
    /\ torn' = (torn /\ done = 0)
    /\ UNCHANGED <<handle, bTag, lastTag, deviceVars, start>>

-----------------------------------------------------------------------------
(* read().                                                                 *)

StartRead(n) ==
    /\ op = "idle" /\ handle = "open"
    /\ op' = "request"
    /\ len' = n /\ remaining' = n /\ done' = 0
    /\ start' = left
    /\ UNCHANGED <<handle, bTag, lastTag, result, deviceVars, torn>>

\* write_REQUEST_DEV_DEP_MSG_IN
Request ==
    /\ op = "request" /\ remaining > 0
    /\ ~halted
    /\ op' = "answer"
    /\ want' = ChunkSize
    /\ Tagged
    /\ UNCHANGED <<handle, len, remaining, done, result, got, before, heard, left, halted, start, torn>>

RequestFails ==
    /\ Faults
    /\ op = "request" /\ remaining > 0
    /\ \/ UNCHANGED halted
       \/ halted' = TRUE
    /\ Tagged
    /\ Return("read", Error)
    /\ UNCHANGED <<handle, got, before, heard, left, want, start, torn>>

\* Mutant: the data of a transfer is stored over that of the one before it.
Answer_KeepsLast ==
    /\ op = "answer" /\ left > 0
    /\ LET bytes == Smaller(want, left) IN
       /\ left' = left - bytes
       /\ done' = bytes
       /\ remaining' = IF bytes < ChunkSize THEN 0 ELSE remaining
    /\ want' = 0
    /\ op' = "request"
    /\ UNCHANGED <<handle, bTag, lastTag, len, result, got, before, heard, halted, start, torn>>

\* Mutant: the padding of a transfer is counted and copied as data.
Answer_CountsPadding ==
    /\ op = "answer" /\ left > 0
    /\ LET bytes == Smaller(want, left) IN
       /\ left' = left - bytes
       /\ done' = done + TransferSize(bytes) - 12
       /\ remaining' = IF bytes < ChunkSize THEN 0 ELSE remaining
    /\ want' = 0
    /\ op' = "request"
    /\ UNCHANGED <<handle, bTag, lastTag, len, result, got, before, heard, halted, start, torn>>

\* The instrument sends; only a short transfer ends the loop, and remaining
\* is not reduced by a full one.
Answer ==
    /\ op = "answer" /\ left > 0
    /\ LET bytes == Smaller(want, left) IN
       /\ left' = left - bytes
       /\ done' = done + bytes
       /\ remaining' = IF bytes < ChunkSize THEN 0 ELSE remaining
    /\ want' = 0
    /\ op' = "request"
    /\ UNCHANGED <<handle, bTag, lastTag, len, result, got, before, heard, halted, start, torn>>

\* More bytes than the caller's buffer holds are copied to it all the same:
\* the server may go on (Answer) or end.
Overrun ==
    /\ op = "answer" /\ left > 0
    /\ done + Smaller(want, left) > len
    /\ Renewed
    /\ Return("crash", Error)
    /\ UNCHANGED <<deviceVars, start, torn>>

\* Mutant: a bulk-in transfer that timed out is asked for again.
AnswerFails_Retries ==
    /\ op = "answer"
    /\ op' = "request"
    /\ UNCHANGED <<handle, bTag, lastTag, len, remaining, done, result, deviceVars, start, torn>>

\* No answer within the timeout of one second, or an error of the USB.
AnswerFails ==
    /\ op = "answer"
    /\ left = 0 \/ Faults
    /\ Return("read", Error)
    /\ UNCHANGED <<handle, bTag, lastTag, deviceVars, start, torn>>

ReadReturns ==
    /\ op = "request" /\ remaining <= 0
    /\ Return("read", done)
    /\ UNCHANGED <<handle, bTag, lastTag, deviceVars, start, torn>>

-----------------------------------------------------------------------------
Round ==
    \/ WriteChunk \/ WriteFails \/ WriteReturns
    \/ Request \/ RequestFails \/ Answer \/ Overrun \/ AnswerFails \/ ReadReturns

Next ==
    \/ Open \/ CloseAndRenew \/ UseUnopened
    \/ \E n \in WriteLens : StartWrite(n)
    \/ \E n \in ReadLens : StartRead(n)
    \/ Round

Spec == Init /\ [][Next]_vars

\* The server thread stays in the loop it is in; every transfer ends, by the
\* timeout of libusb if by nothing else.
FairSpec == Spec /\ WF_vars(Round)

-----------------------------------------------------------------------------
(* Properties.                                                             *)

\* What the last call returned.
Returned == result.value

TypeOK ==
    /\ handle \in {"unset", "open", "failed"}
    /\ bTag \in Tags
    /\ op \in {"idle", "write", "request", "answer"}
    /\ len \in Nat /\ remaining \in Nat /\ done \in Nat
    /\ result \in [of: {"none", "write", "read", "crash"}, value: Int]
    /\ got \in Int /\ before \in Nat /\ heard \in Message
    /\ left \in Nat /\ want \in Nat
    /\ lastTag \in Tags \cup {NoTag}
    /\ halted \in BOOLEAN
    /\ start \in Nat
    /\ torn \in BOOLEAN

(* A write that returns a length has ended a message, and all its bytes    *)
(* are in it, in order, however they were cut into transfers.  The message *)
(* is those bytes and nothing else unless a write of a part of a message   *)
(* has failed since a write last succeeded: what write() leaves in the     *)
(* instrument when it fails spoils at most one later message, and never    *)
(* one of an application that has seen no error.                           *)
WriteDelivers ==
    [][op = "write" /\ op' = "idle" /\ Returned' > 0 =>
          /\ Returned' = len /\ heard.own = len
          /\ heard.before > 0 => torn]_vars

(* A transfer with its header and padding fits buf_ and is a multiple of   *)
(* four bytes, whatever the length of the write.                           *)
BufferHolds ==
    op = "write" /\ remaining > 0 =>
        TransferSize(ChunkSize) <= BufferSize /\ TransferSize(ChunkSize) % 4 = 0

(* The next header never carries the tag of the one tried before it,       *)
(* write or read, taken or failed; nor, once a header has gone out, zero   *)
(* ("increment again if zero").                                            *)
TagsAdvance ==
    lastTag # NoTag => bTag # lastTag /\ bTag # 0

(* A read that returns a length has counted the bytes the instrument sent  *)
(* during the call, each once; and one that returns fewer than were asked  *)
(* for has emptied the response: a short read is the end of it, also when  *)
(* it took several transfers.                                              *)
ShortReadEnds ==
    [][op = "request" /\ op' = "idle" /\ Returned' >= 0 =>
          Returned' = start - left /\ (Returned' < len => left = 0)]_vars

(* The caller's buffer is overrun only by a response longer than it: while *)
(* the response fits, what is copied fits, in however many transfers.      *)
CopiesFit ==
    op \in {"request", "answer"} /\ start <= len => done <= len

(* "return done; /* Number of bytes read (total) */": when read returns,   *)
(* its value is the number of bytes the instrument has sent to it; it is   *)
(* an error only when that is none.                                        *)
ReadReturnsTotal ==
    [][(op \in {"request", "answer"} /\ op' = "idle" /\ handle' = "open") =>
          Returned' = start - left \/ (Returned' < 0 /\ left = start)]_vars

(* Every call of the port returns: the server has one thread, and nothing  *)
(* else runs until it does.                                                *)
CallsReturn == [](op # "idle" => <>(op = "idle"))
=============================================================================
