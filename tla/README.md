# A verification project for avisa

avisa is a small VISA implementation. Applications link `libavisa` (`client/src`), which
talks over websockets to one server process (`src`); the server finds the instruments on
USB, TCP and serial ports and is the only one to use them. The modules here are translations
of that code; every definition that stands for code is named in `PROJECT.json` with its lines.
TLC checks small instances, TLAPS proves the theorems for all values of the constants.

Paths below are relative to the repository: `src/…` is the server, `client/src/…` the library.

## 1. Inventory

| Component | State | Operations | Module |
|---|---|---|---|
| Session protocol: `SessionManager`, `Session` (client), connect and disconnect routes of `VisaWsServer::on_open` | client: `repo`, `id_`, `res_`, the websockets of a `WsClient`; server: `visa_conns_`, `VisaConnction::ref_` | viOpen, viClose, `refMe`, `close` | `VisaSessions` |
| Read and write protocol: `Session::send/recv/setOption/getOption`, the four `/avisa/connection<sha1>/…` routes | client: `*_actual_len`, buffers; server: nothing but the thread being in a port | viWrite, viRead, viSetAttribute, viGetAttribute | `VisaIo` |
| `UsbTmcPort` | `handle_`, `bTag_`, `usbtmc_last_write_bTag_`, `buf_`, end points | open, close, write, read | `UsbTmcPort` |
| `MdnsPort`, `ComPort` | a socket, a serial port | open (may throw), close, write, read without time-out | in `VisaSessions` (open), `VisaIo` (read, write) |
| `VisaService`, `FinderRepo`, `PortRepo` | two maps filled once by `init` | `getFirstFinder`, `connect`, `availableDevs` | `VisaSessions`, `VisaFind` |
| `UsbFinder`, `MdnsFinder`, `ComFinder` | a pattern each | `availableDevs(pattern)`, names of instruments and back | `VisaFind` |
| `ResManagerMaker`, `ResManager`, `IdGen`, find lists | managers by id, find lists by id, three counters | viOpenDefaultRM, viFindRsrc, viFindNext, viClose, id arithmetic | `VisaApi` (ids, managers, sessions by id), `VisaFind` (find lists), `VisaSessions` |
| Connections of websocketpp (vendored) as avisa uses them: opening steps, their timers, handlers | both connection objects of a websocket, the TCP connection between them, the client's loop | resolve, connect, handshake, `terminate`, frames | `Websocket`, `WsCall` |
| `OsService` | a pid file | run | not modelled: `src/main.cpp` reaches it only under `if(0)` |
| `libusb.cpp`, `mdns.h` packet format, Windows branches, the rest of `3rd` | | | not modelled: not built, data formats, other platform, third-party |

**How they interact.** A library call opens a websocket of its own, runs the event loop of
its `WsClient` until a handler calls `client.stop()`, and returns; the library keeps nothing in
flight between calls, but does not close the websocket either. The server runs one asio loop
in one thread: `on_open` and `on_message` run to their end, ports included, before the next
handler. Requests of different calls use different TCP connections, so the server meets them in
any order. Applications share an instrument through the one `VisaConnction` of its digest.

**What is hard about it.** viClose returns before the server has done its part. A handshake that
times out (5 s, websocketpp) is not reported, and the server may serve it later; the server has a
timer of its own, and writes its answer before it is open itself, so either side may think a
websocket open that the other has given up. The server keeps a count (`ref_`) and has no names for
what it counts. Servers and applications end and start again and nothing is saved; undefined
behaviour (erasing from `visa_conns_` inside its range-for, uninitialised members) decides some
steps. A port blocks the only thread. The USBTMC loops depend on boundaries: transfers of exactly
8192 bytes, tags at 255, responses of exactly the size asked for.

**What makes the components correct**

- Sessions: the count of a connection is the number of grants in force; no close, time-out or
  death of others closes the instrument under a session; what is lost when something dies is
  only what must be; a granted viOpen names a session on the resource asked for; calls return
  and closes are worked off.
- Input and output: a message is taken once, a read never gives an older answer than that of
  the last write, the bytes of a stream come in order however the buffers cut them, calls return.
- Websockets: handlers are told in order and once, a server's handler runs at most once and before the
  end, no handshake lasts for ever, the end of the other side is noticed by a client that waits.
- USBTMC: a message arrives whole and in order however it is cut, and alone unless a write has failed
  before it; a short read has read the response to its end; a response that fits the caller's buffer is
  not copied past it; tags advance, transfers fit the port's buffer, every call returns.
- Ids: the id of a session leads to that session, from any thread and through its manager, until it
  is closed, and to nothing afterwards; a url has one manager unless two calls make one at the same time.
- Names: what viFindRsrc found is opened by its name and nothing else is, as long as its serial number
  could be read; an instrument that stays and answers is found.

The places where this can go wrong are `hazards` in `PROJECT.json`, each with the property that would
notice, or with a note that says how far one does, or why none does. Where the note says "recorded", the
model takes the harmful step as the code does and no property rules it out.

## 2. Plan

Modules, in the order they were planned and written. All stand.

1. `VisaSessions` (+ `MCVisaSessions`, `VisaSessionsProofs`): the core.
2. `UsbTmcPort` (+ `MCUsbTmcPort`, `UsbTmcPortProofs`).
3. `VisaIo` (+ `MCVisaIo`, `VisaIoProofs`). It composes the routes, the ports and the instruments; it
   takes sessions as open, which `VisaSessions` establishes.
4. `VisaApi` (+ `MCVisaApi`, `VisaApiProofs`): ids and managers, several threads.
5. `VisaFind` (+ `MCVisaFind`, `VisaFindProofs`): finders, names, the find route and opening by name.
6. `PortLease`, the abstract specification of what sessions promise; `VisaSessions` implements it, by TLC
   as a PROPERTY of `sessions_live` and by TLAPS in `VisaSessionsLease`.
7. `WsCall` and `Websocket` (+ `MCWebsocket`, `WebsocketProofs`): what the two protocols take a
   websocket for, and websocketpp shown to be that, by TLC as a PROPERTY of `websocket_life` and by TLAPS.

What could be added: the pid file of `OsService`, once the program runs it; the header of a USBTMC
transfer bit by bit; asio below `Websocket`, which is third-party code of its own.

## 3. The modules

### VisaSessions

State: the server (`up`, `starts`; `port` and `ref` are `visa_conns_` and its `ref_`), the set
`reqs` of websocket requests, each application (`pc`, `call` for the thread in the library;
`repo`, `lastId`, `sessCnt` for `repo`, `id_`, `IdGen::sess_cnt`; `conn`, `warm` for what keeps
`client.run()` running). A request goes through the stages sent, opened (handshake answered),
then replied, ignored or served (the server's handler has run).

A *ticket* names one lifetime from viOpen to viClose. The code has no such name. `leases`,
`orphans`, `clean`, `age` and the `era` of a session are history: no guard reads them except `Free`,
which picks an unused ticket. `Tickets` so bounds how many lifetimes are unfinished at a time. `age`
counts, for each id in use, the viOpens answered since its own: an answered viOpen may give an id that is
in use only when all the others have been given out since (`AnsweredOpenDenotes`).

Actions are the calls (`OpenRM`, `StartOpen`, `StartClose`, `CloseRM`), the client's handlers
(`OnReply`, `OnDisconnectOpen`, `RunReturns`), the server's handlers by route
(`ServerOnConnect` = `Share`, `Establish`, `OpenThrows` or `NoFinder`; `ServerOnDisconnect` =
`Release`, `EraseCrash` or `NotConnected`), and the environment (`Accept`, `DropAbandoned`,
`Timeout` and `ServerTimeout` for the handshake timers of the two sides, `CrashApp`, `ServerKilled`,
`ServerStart`). A handler is one step because the server
has one thread. Undefined behaviour is a choice: `EraseCrash` or going on; `id_` starts as
anything.

`clean` needs a word. After a restart a client may close a session of the dead server. The new
server cannot tell and takes the reference from whoever has the connection. That is what the code
does and the model does it too; the count is then wrong, so `RefCounts` and `SessionsConnected`
speak of servers to which this has not happened. `clean` looks at the server a session was opened on
(`era`) and at nothing else, so that a reference taken twice from one session would not be excused.

### PortLease and VisaSessionsLease

`PortLease` has no requests, counts or processes: a port is lent (`Grant`), the user is told
(`Deliver`), users go (`LetGo`), what they had is taken back and the last one closes the port
(`Return`), a server ends (`End`) and another begins (`Begin`). `ImplementsLease` is `VisaSessions`
under the mapping `valid` = the server is up and `clean`; `users` of a resource = the tickets the
server has granted and not taken back (`leases`); `held` = those of them with a session that is
usable; `open` = the resources whose `port` is not `"absent"`. A connect the server grants is a
`Grant`, an `OnReply` a `Deliver`, `Release` a `Return`, a viClose or a death of an application a
`LetGo`; most other steps stutter. A disconnect of an earlier server's session, taken from another's
count, is an `End`: this is where the promise of that server stops.

### VisaIo

Sessions are open. A call is a request with stages sent, opened, message (the payload of viWrite is
out), replied, heard (an answer no handler takes), unanswered. `Start` is the library call up to
`run()`; `ClientSends`, `OnReply`, `OnOptionReply`, `Timeout`, `RunReturns` are what the client's
loop does; `Overrun` is an `OnReply` that copies more than the application has room for and ends it
(`pc` is `"dead"`). `ServerOnSend`, `ServerOnRecv`, `ServerBlocks`, `ServerUnblocks`,
`ServerOnGetOption`, `ServerIgnores` and `ServerTimeout` are the server's. The timer of the client
is off once it has seen the websocket open (`ClientOpen`). `busy` holds the recv a stream port is
blocked in: no server action is enabled meanwhile. `Digest` is the SHA-1 of a resource, of fewer
bytes than 20; `Sha1Length` counts the digits `"%x"` prints for it and `Routable` is the effect on
the routes. `owed` are the answers an instrument works on, named by application and number of the
write, and `ready` the bytes it has to give, named by answer and place. `AnswerSize` is the length
of an answer, `AtLeast` what a stream's `read` waits for, `Cap` what the server's `buf_` holds
behind the count: the most a stream's `read` brings, and one transfer of a USBTMC port. `read` of such a
port goes on until a transfer is short (`UsbTmcPort`), so it brings an answer of any length, behind the
end of `buf_` if need be, and the server sends it all the same; when a transfer fails, or when the
answer fills its last one, the bytes of the transfers before are lost (`Rests` is what may be left).
What the write behind `buf_` does to the server is in `ServerGone` if anywhere: with `ServerEnds` = FALSE
the server is taken to survive it. `Room` is the buffer an application gives. `taken` and `ungiven`
(bytes an instrument had ready that no viRead has given back) are history.

### UsbTmcPort

The loops of `write` and `read`, one step for each round, with the instrument between the rounds.
Bytes are counted: the unfinished message in the instrument begins with `before` bytes of writes that
failed inside it, followed by `got` bytes of the current write (`Scrambled` when an offset was wrong);
`heard` is the last complete message, in the same two parts; `left` is what the instrument has not sent
of its response. `torn` is history: a write has failed inside a message since one last succeeded.
`Open` scans configurations and altsettings as the code does (`FirstEndpoint`, `BulkPair`, `IsUsbTmc`);
each libusb call may fail. `handle_` and `bTag_` have no initial value, so `bTag` starts as anything; a
port that failed to open is used all the same and `UseUnopened` is what comes of it. `Overrun` is the
step of a read whose bytes do not fit the caller's buffer, in which case the server may end or go on: a
response longer than asked for is copied behind the buffer, because `remaining` is not reduced, and
`CopiesFit` says that no other is.

### VisaApi

One process, several threads, several resource managers. `urlOf` is `ResManagerMaker::repo` and
`sessions` the `repo` of each manager's `SessionManager`. A thread that asks for the manager of a url
(`OpenRM`) finds one (`ShareRM`) or goes on to make one (`StartMaking`): `resman_cnt++`, the comparison,
the reset and the reading of `genResManId` (`CountRM`, `CompareRM`, `ResetRM`, `ReadRM`), then the insert
(`InsertRM`), which does nothing when the number is taken. Nothing locks these steps together, so two
threads may make two managers of one url, and may be given one number. A thread in viOpen (`call`) goes
through the steps of `genSessionId`: `StartOpen` (the server has answered, `sess_cnt++`), `Compare`,
`Reset`, `Register` (the value is read and the session inserted, unless its id is taken); here ids may
pass the limit and carry into the bits of the manager (`SessionId`). `CloseRM` takes the sessions of a
manager away, also while another thread is in a viOpen on it: the shared pointer keeps the manager until
that returns (`lost`). The range-for of `putResManager` goes on from an erased node, so the process may
end there (`alive`).

The maps have no lock either. One search, one insert and one erase of the map of managers are a step
each: two threads inside one `std::map` are a data race, and the model does not say what comes of that;
for the same reason no two calls overlap on one manager, which has one event loop (`Free`).

`handles`, `drawn`, `raced` and `reused` are history. A handle is what viOpen gave a thread, `open` until
it or its manager is closed by anyone. Threads may close an id any number of times (`CloseSession`), and
may go on with an id of a manager that is closed (`OpenOnClosed`: viOpen returns its uninitialised
status). `raced` are the managers whose insert was overtaken by another after their search: the first
part of `ManagersByUrl` says that a url has two managers only with one of these. `reused` becomes true
when a counter has gone round or a number has been drawn a second time. From then on two threads may
hold one number for two urls, and the second part of `ManagersByUrl` and `HandlesDenote` say nothing.

### WsCall and Websocket

`WsCall` is what a call may rely on: its request is sent, opened, perhaps followed by a message,
served once, perhaps replied; either side may give up, within limits. `VisaSessions` and `VisaIo`
have their requests go through these stages and their time-outs where `WsCall` has `GiveUp` and
`End`.

`Websocket` is one websocket with a connection object on each side, translated from
`connection_impl.hpp` and the asio transport of websocketpp in `3rd`. `at` is `m_internal_state`, or
the step of the transport before it; `state` is `m_state`; `wire` is what has come for each side, a
reset or end of file last. `timer` is the point of the module: `cancel()` takes back a timer that
has not expired, but when its handler is queued already (`"due"`), it runs without an error and
closes the websocket (`TimerFires`), although it may have opened in the meantime. The results of a
name lookup and of a connect look at the timer again (`InTime`). The client has three timers one
after the other, the server one. `HandleReadHandshake` writes the 101 while the server is not open
yet; its timer may end it before `HandleWriteResponse`. Nothing limits the time of an open
websocket. `loop` is whether `client.run()` is taking handlers. The route `"refused"` is a resource
string that is no part of an HTTP request line, for example one with a space: the server answers
with an error and viOpen gets `on_fail`. (The model notes a fail of the server's object, too; websocketpp
calls no handler for that one, and avisa sets none.)

`ImplementsCall` maps the two objects to a stage (`Stage`) and an outcome (`Outcome`). One
consequence is in the protocol modules: a call that times out while an earlier websocket of its
Session is open (`warm`) does not return, because `run()` still has something to wait for;
`CallsReturn` and `IoReturns` are therefore about runs without time-outs.

### VisaFind

The path of a name. A finder makes it of an instrument (`UsbLists`, `LanLists`, `ComLists`), the
server joins the names with commas and the client takes them apart with a greedy expression
(`ClientSplit`), the application opens what it got (`OpenFound`), the server selects a finder
(`FinderOf`), shares a connection of the same text or makes a port, and the port reads the text and
looks for its instrument (`Check`, `ComOpen`, `ConnectThrows`). `VisaService::availableDevs` asks
the finders in the order of their names (`AskCom`, `AskMdns`, `AskUsb`). For USB the list of libusb
is taken first and its devices are read one by one (`devs`, `ReadUsb`). Instruments come and go
between all steps (`Plug`, `Unplug`); one that has gone is not read, since it can no longer be
opened. One that is there may also fail to answer for a while (`mute`; `Falter`, `Recover`), because
it stalls or is about to be pulled out: `libusb_open`, or the string request behind it, then works
or does not, each time anew.

A name is a record of bus, key and number and stands for its text. The key of a USB name is model
and serial number cut to `Room` characters (`Shown`), which is what
`get_string_descriptor_of_serial` leaves with `sizeof(char *)` for its size. That function answers
true when the device could be opened, whatever became of the string: an instrument without a serial
number, or whose number could not be read, leaves the buffer alone (`ReadSerial`). That is `Junk` in
the finder, where it is not initialised, so that the instrument stands in the list under any name,
also that of another; it is empty in `check`, and matches a name without a number. A failed
`libusb_open` leaves an interface out. `ok` of an entry records whether its number was read.
`UsbURL` reads the joined names into a buffer of 256 characters, which takes `Fit` of them, and
`UsbTmcPort::open` takes the number of an interface for its place in the table (`Places`). What lies
behind either is `Undefined`: the server may end, or the port may open or not. Serial ports are
listed as `tty` names, which no finder takes; `Typed` names are those of the table above
`getComList`. A pattern is the set of finders it selects and the set of buses whose names it takes.
Each name in `list` and `found` carries the instrument it was made of, and each connection the
entries its openers were after (`meant`): history, for the properties.

The application is done with the resource of one search when it begins the next. What `viFindNext`
writes through its dangling iterator is not followed; the process may also end there.

## 4. Runs

| Run | Instance | Shows |
|---|---|---|
| `sessions_sharing` | 2 applications, 1 TCP instrument, 3 tickets, 1 server start, handshake time-outs on both sides, applications that die, one grant given up at a time, symmetry in applications | `RefCounts`, `SessionsConnected`, `NothingElseLeaks`, `AnsweredOpenDenotes` |
| `sessions_live` | 2 applications, a USB instrument and a name without finder, 2 tickets, 2 server starts, fairness | `TypeOK`, `SessionsConnected`, `ImplementsLease`, `ClosedIsReleased`, `CallsReturn` |
| `open_denotes` | 2 applications, a USB instrument, 2 server starts, expected to fail | finding 1 |
| `usb_calls` | transfers of at most 4 bytes, 3 tags, writes of 0, 1, 4, 9 bytes, reads of 4 and 6, responses of 0, 3, 4, 9, faults | `TypeOK`, `BufferHolds`, `TagsAdvance`, `CopiesFit`, `WriteDelivers`, `ShortReadEnds`, `CallsReturn` |
| `usb_read_total` | the same without faults, expected to fail | finding 2 |
| `io_order` | 1 application on a USBTMC instrument with answers of one transfer (2 bytes) and one byte, all kinds of call, 3 requests, writes numbered modulo 2, reads that fail after any full transfer, time-outs, server ends and starts | `TypeOK`, `WriteOnce`, `ReadAnswersWrite` |
| `io_live` | 2 applications, one on USB with answers of 4 bytes, one on TCP with answers of 3; the server's buffer holds 3, a read on TCP waits for 2; the application on USB has room for 1; fairness | `StreamInOrder`, `IoReturns` |
| `io_routes` | a digest with a byte below 16, expected to fail | finding 3 |
| `find_opens` | 4 USB devices (one with two interfaces, one without serial number, one that may not be opened, one that may fail to answer), 1 TCP, 1 serial, 2 attached at a time, 2 connections, 3 patterns, 1 answer to a mDNS query | `TypeOK`, `OpensWhatWasFound`, `FindsAttached`, `FoundOpens` |
| `find_counts` | the same, expected to fail | finding 4 |
| `api_ids` | 2 threads, 2 urls, 4 manager numbers, 3 session numbers, 2 viOpenRMs and 2 viOpens a thread, symmetry in threads and urls | `TypeOK`, `HandlesDenote`, `ManagersByUrl` |
| `websocket_life` | one websocket of each route, time-outs of both sides, either process ending at any point | `TypeOK`, `HandlersInOrder`, `ImplementsCall`, `HandshakesEnd`, `EndIsNoticed` |

**Bounds.** Three tickets let a third lifetime begin while one session is open and one disconnect is
on its way, which is the shortest history in which a count could be taken twice; two applications
are the shortest in which somebody else is harmed. Two starts give sessions of a dead server.
`MaxGivenUp` (a constraint of `sessions_sharing`) looks no further where a second grant is given up
before the first is forgotten: each way of giving up still happens at every point of the others'
calls, and the theorems about the same invariants have no such bound. Two tickets are enough for
`ImplementsLease` to tell a first user from another and the last from the one before;
`LeaseImplemented` has no bound. Two ids let `sess_cnt` wrap with a session still registered.
`MaxData = 4` with lengths 0, 1, 4 and 9 gives the empty, the short, the exact and the
three-transfer message, with all paddings that matter; three tags are the smallest cycle that skips
zero. `MaxTorn` bounds how many bytes failed writes may leave in one message: four are a whole
transfer. Three requests in `io_order` are a timed-out one that the server still has, its
repetition, and one more. Writes modulo 2 tell a write from the one before it, which is the only
older answer that a USBTMC instrument could hold: it drops what was not read when the next message
comes. An answer of one transfer and one byte is the shortest that a failed read can lose a part of.
In `io_live` answers of three bytes, read two or three at a time, are given whole, cut, and joined
across two of them, and at most two answers are kept; the answer on USB is longer than the server's
buffer. In `websocket_life` a websocket is all there is: websockets share nothing but the loops, and
what the other handlers of a loop do shows as delay. At most three items are on the wire of a side
because avisa sends one message each way. In `api_ids` four viOpens and three numbers let `sess_cnt`
go round, and carry, while other ids are in use; four viOpenRMs let `resman_cnt`, which stops at
three, go round, let two threads make a manager of one url at a time and one of them close its own
in between. `Ahead`, how far threads may count past the limit before one resets the counter, is the
number of threads. In `find_opens` two devices attached at a time out of six give every order in
which one replaces another during a search or between search and open; two connections let a second
port meet an instrument in use; one character of serial number is what `Room` keeps; two names fit
the buffer of `UsbURL` (`Fit`), and a query may find three. One device that may fail to answer
(`Weak`) can be listed under the name of the other with the same model and be missed in `check`; a
second one would do the same to itself. The patterns are one that takes the names of two finders,
the empty one, which asks all of them and takes none, and one that is no regular expression. With
one network instrument a second answer to a query could only repeat the first; the theorems have no
such bounds.

**Deadlock** is checked in all runs but `api_ids`, where the process may be ended and the viOpens
are bounded, `websocket_life`, where a websocket comes to its end, and `io_routes`. There a call
that is never answered stops the one application of the instance, and that is what the run is about.

**Fairness.** `VisaSessions`: weak fairness of the handlers of each request and of each client's
loop; asio runs handlers that are ready. No fairness for calls, crashes, time-outs or server starts.
`VisaIo`: strong fairness of the server for each request, because a blocked thread disables a
handler again and again and asio's queue is first come first served, so a request is not passed over
for ever; weak fairness of clients and of instruments, which answer in the end. `UsbTmcPort`: weak
fairness of the round of a call; every transfer has the time-out of libusb. `Polite` in `io_live`
means that applications read only when enough bytes are due (`Due`). Without it, or with answers of
fewer than 4 bytes on TCP (`MdnsPort::read` waits for at least four), the server blocks and
`IoReturns` is false, as the code has it; the run shows that these are the only causes. `Websocket`:
the properties name the fairness they need. `Fair(e)` says that time passes for a side and its
thread takes handlers. `HandshakesEnd` and `EndIsNoticed` use it for the side they are about only;
the other may be blocked or stopped.

## 5. Findings

1. `open_denotes`: viOpen returns VI_SUCCESS and an uninitialised or earlier id when the server
   cannot be reached or dies (`client/src/SessionManager.cpp:30`).
2. `usb_read_total`: a response of exactly the size asked for is received, then lost: `read`
   asks again, times out and returns the error (`src/UsbTmcPort.cpp:337`).
3. `io_routes`: digests are printed without leading zeros and the routes want 40 digits. A
   resource has 40 only when no byte of its SHA-1 is below 16, a little more than one in four
   (`src/VisaService.hpp:21`).
4. `find_counts`: the client splits the joined names with the greedy `(.*),`: two instruments become
   one resource and the count is 1 (`client/src/SessionManager.cpp:143`).

Not runs, but in the models and listed as hazards: viRead and viWrite return an uninitialised status
unless the count is positive (`client/src/visa_base_wrapper.cc:137, 161`); serial ports are listed
under names that cannot be opened (`src/ComFinder.cpp:311`); a malformed expression ends the server
(`src/Finder.cpp:38`).

## 6. Proofs

`VisaSessionsProofs` proves `TypeOK`, `RefCounts` and `SessionsConnected` for any applications,
resources, tickets, id range and number of starts. None of them is inductive. `RefCounts` alone does not
survive a disconnect, because nothing says that the ticket given back was counted. `IInv` adds what
ties tickets, requests and sessions together: a ticket has one request at a time
(`RequestsDistinct`); a connect that was not handled is counted nowhere (`ConnectFresh`); a request
about a session is the disconnect its owner waits for (`RequestOfSession`, `LiveFits`,
`ClosingRegistered`); two sessions never share a ticket (`SessionsDistinct`); a connection exists
exactly while its count is positive (`ConnectionCounted`); and a session of this server, or a reply
on its way, has its grant (`GrantsCounted`). The proof has one lemma for each action; cardinalities
come from `FiniteSetTheorems`. `SessionsConnected` follows from `GrantsCounted` and
`ConnectionCounted`. `LeaksAccounted` proves `NothingElseLeaks` from the same invariant: every step
that takes the last session or request of a granted ticket away either returns the grant or records
it as given up. `OpensDenote` proves `AnsweredOpenDenotes`: the id of a session and the number of viOpens
since (`age`) add up to the counter, once round at most (`AgesFit`), so a new id meets only a session
that is older than the whole range of ids.

`VisaSessionsLease` proves that `VisaSessions` implements `PortLease` (`LeaseImplemented`). The
initial states agree, and under `IInv` each action is mapped to a step of the contract or a stutter.
`HeldAreUsers`, a consequence of `GrantsCounted`, is why no server that stands to its promise takes
a port from a holder.

`UsbTmcPortProofs` proves `TypeOK`, `TagsAdvance`, `BufferHolds`, `WriteDelivers`, `ShortReadEnds` and
`CopiesFit` for any transfer size, tag range above two, lengths, responses and altsettings. The invariant
says what the loops keep between rounds: `WriteProgress` (done and remaining add up to the length, and
the instrument has the first `done` bytes in order), `PartsAfterErrors` (bytes of another write are in a
message only when a write failed before) and `ReadProgress` (what this read has brought and what is left
add up to what was there when it began).

`VisaIoProofs` proves `TypeOK`, `WriteOnce`, `ReadAnswersWrite`, `StreamInOrder` for any
applications, instruments, sizes of answers and buffers. An application waits for one request at a
time, whose websocket is open (`LiveWaits`), and a write whose payload is out is waited for
(`WritesLive`). So when a write is taken it is the last one of its application, and it was not taken
before (`MessageTaken`): this is `WriteOnce`. A USBTMC instrument has at most one answer, or what
full transfers have left of it (`OneAnswer`, `Rests`), and once the last write has been taken it is
that one's, in the instrument or on its way (`HoldsCurrent`): this is `ReadAnswersWrite`. For
streams, without time-outs and ends of the server, all requests are waited for (`AllLive`), and what
was not given back is what is on its way followed by what is ready (`StreamHeld`). Only reads bring
bytes (`ReadsBring`).

`VisaApiProofs` proves `TypeOK`, `HandlesDenote` and `ManagersByUrl` for any threads, urls and
limits. The argument for `HandlesDenote`: before a counter goes round or a number is drawn twice, a
number that waits to be inserted is its thread's alone (`NumbersFresh`), every id in use is at most
`sessCnt`, and strictly below it on the manager of a viOpen that has counted and not read
(`CounterAhead`). Two threads may still read the same value of the counter, if one counts before the
other reads, but only on different managers, since a manager has one call at a time
(`CallsDistinct`); so ids are distinct (`HandlesDistinct`) and `insert` finds no entry in its way.
Entries are exactly those of open handles (`EntriesHeld`, `OpenRegistered`). For `ManagersByUrl`,
what a call that nobody has overtaken searched for is still not there (`SearchHolds`), so of two
managers of one url one was inserted by a call that had been overtaken (`TwinsRaced`). Both hold
when the counters have gone round, too.

`VisaFindProofs` proves `TypeOK`, `OpensWhatWasFound`, `FindsAttached` and `FoundOpens` for any
instruments, interfaces, serial numbers, patterns and bounds. Two parts of the invariant do the
work. `ConnsFit`: the first name of a connection is the one every instrument that was meant by it
was listed under, and what the port has open has the model of that name and its serial number,
unless the name has none. So two instruments that could be confused are alike in both or without a
number, which is what `Distinct` excludes, or were listed without their number having been read,
which is what `ok` says. `ListedSoFar`: while a query runs, an instrument that stayed attached and
answered is not in the list as long as libusb's list, or its place in it, is still to be read, and
afterwards its names stand in the list together and nowhere else (`ListedOnce`). That is kept by
whatever the other devices append. The bytes of the names are not in it: joining and splitting are
what `ClientSplit` says, for any list.

`WebsocketProofs` proves `TypeOK`, `HandlersInOrder` and `ImplementsCall` for any set of routes,
with or without processes that end. One websocket is a finite system, and TLC visits all of it; the
proof says why it works. `StepsFit` ties the steps of the two sides: the client reads frames only
after the server has answered, the server reads a request only on an established connection.
`WiresFit` says for each pair of steps what may be on the wire, the end last and exactly when the
other side is over, and what each side has been told (`Tellings`). `MessagesFit` says that a message
is in one place at most: to be written, on the wire, or told. `TimersFit` is the point: once the
client is open its timer is not armed, and if its handler is queued, the payload is queued behind
it, because asio runs handlers in order. `WhoTerminates` draws the conclusion: an open client with
its payload out is ended by the end of the server's side alone. So a `Terminate` that ends a waiting
client is a `GiveUp` of `WsCall`, whose guard is the one `VisaIo` has in its `Timeout`. The initial
states agree and each action is a step of the call or a stutter (`WebsocketIsACall`).

Assumed: `ConstantsAssumption`, `PortAssumption`, `IoAssumption`, `ApiAssumption`, `FindAssumption`
and `RoutesAssumption`, which TLC evaluates in the runs, and what the external definitions say of
the surroundings. These are: websocketpp opens or fails a websocket and keeps the order within one,
which `Websocket` shows of its code; asio runs each handler once, and one that is queued before
those posted later; an instrument takes a transfer, or is left inside it when it fails, sends no
more than it is asked for and less only at the end of its response; a USBTMC instrument drops an
unread answer when the next message comes; two resources have different digests. The last one is not
certain even for a perfect hash since the digits lose their leading zeros; it is listed as a hazard.

Only model-checked: every liveness property (`ClosedIsReleased`, the two `CallsReturn`, `IoReturns`,
`HandshakesEnd`, `EndIsNoticed`), because fairness and what it enables is out of reach of the prover;
and the properties of the four runs that are expected to fail, for which TLC gives the behaviour. All
other properties of the runs are theorems.

## 7. Not modelled, and why

- `get_capabilities` fills members nothing reads; it is called before `interf_` is set. `setOption`
  and `getOption` of all ports return 0. `set_option` on the server is never reached, as no client
  sends its message.
- The 12 byte header is modelled by its size, tag, transfer size and end-of-message flag.
- Payloads of viWrite that a stream port writes in part (`write_some` in `ComPort::write`): a
  message is one piece. The number of websockets that calls leave open.
- `OsService`: `src/main.cpp` reaches it only under `if(0)`. `libusb.cpp`: an older prototype that
  nothing builds.
- The network card listing, which nothing calls; the packet format of `mdns.h`; Windows branches;
  the functions of `visa_base_wrapper.cc` with an empty body.
- Of websocketpp: the closing handshake, ping and pong, proxies, TLS and extensions, which avisa
  does not use; framing and HTTP parsing, which are data formats. The rest of `3rd`, which is asio:
  third-party code that makes up most of the repository. asio is in the models as a queue of
  handlers that run once, in order, on one thread, and as streams of bytes; to model more of it
  would say nothing about avisa.
- What two threads inside one `std::map` at a time may do to the map itself. That the steps on the maps
  of the library are not locked is modelled (see `VisaApi`).
- `ParseRsrc`, a pure function; the part of a USB pattern behind `TAIL`, which `searchFinder` lets
  no pattern have.
