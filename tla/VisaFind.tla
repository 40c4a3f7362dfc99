------------------------------ MODULE VisaFind -------------------------------
(* Finding instruments and opening what was found: viFindRsrc and viFindNext *)
(* in the library, the availableDevs and connect routes of the server, and   *)
(* the finders, which make names of instruments and find instruments again   *)
(* by name while those come and go.                                         *)
(*                                                                         *)
(* One application uses the server.  A name stands for its text: two names   *)
(* are equal exactly when the texts are.  Reference counts and lost answers  *)
(* are left to VisaSessions, the end points of a device to UsbTmcPort.       *)
(***************************************************************************)
EXTENDS Naturals, Sequences, FiniteSets, SequencesExt

CONSTANTS
    Usb, Lan, Com,   \* the instruments, by bus
    NoDevice,
    Model,           \* of a USB device: vendor and product
    Serial,          \* of a USB device: its characters, <<>> when it has none
    Readable,        \* the USB devices the server may open
    Interfaces,      \* of a USB device: the numbers of its USBTMC interfaces
    Places,          \* and where these stand in its table of interfaces
    Tty,             \* of a serial device: <<family, number>>
    Driver,          \* of a serial device: "none", "uart", "unknown uart", "other"
    Patterns,        \* the expressions an application passes to viFindRsrc
    Junk,            \* what the buffer of a serial number may hold at first
    Fit,             \* how many joined names the buffer of UsbURL takes
    Room,            \* how many characters of a serial number fit: 7
    FlLimit,         \* the last number of a find list: 65535
    MaxReplies,      \* bound: answers to a mDNS query
    MaxPlugged,      \* bound: instruments attached at a time
    Weak,            \* bound: the USB devices that may fail to answer
    MaxConns         \* bound: connections of the server

Devices == Usb \cup Lan \cup Com
Buses   == {"com", "lan", "usb"}

\* A pattern selects finders (searchFinder) and, of their names, those of some
\* buses; ComFinder does not ask it about its names.
Pattern == [wellFormed: BOOLEAN, finders: SUBSET Buses, names: SUBSET Buses]

ASSUME FindAssumption ==
    \* An instrument with two plugs is two devices here.
    /\ Usb \cap Lan = {} /\ Usb \cap Com = {} /\ Lan \cap Com = {}
    /\ IsFiniteSet(Devices) /\ NoDevice \notin Devices
    /\ Interfaces \in [Usb -> Seq(Nat)] /\ Places \in [Usb -> SUBSET Nat]
    /\ Patterns \subseteq Pattern
    /\ Readable \subseteq Usb /\ Weak \subseteq Usb
    /\ Junk # {}
    /\ {Room, Fit, FlLimit, MaxReplies, MaxPlugged, MaxConns} \subseteq Nat

VARIABLES
    up,        \* the server runs
    attached,  \* the instruments that are there
    mute,      \* those on USB that the server cannot open or read each time
    stayed,    \* history: those that were there and answered all through the query
    pc,        \* the application: "idle", "finding", "waiting" in viOpen, "dead"
    pattern,   \* of the query being run
    todo,      \* the finders it has still to ask
    devs,      \* what it has still to read of libusb's list of devices
    list,      \* the names they gave; each with the instrument it was made of, and
               \* whether its serial number was read
    found,     \* the resource viFindRsrc wrote to desc: names joined by commas
    count,     \* and its retCnt
    lists,     \* repo_fl of the resource manager
    flCnt,     \* its fl_cnt
    conns      \* visa_conns_, each with the instrument its port has open, and with
               \* the names found that the application opened it for

vars == <<up, attached, mute, stayed, pc, pattern, todo, devs, list, found, count, lists, flCnt, conns>>
app  == <<pc, pattern, todo, devs, list, found, count, lists, flCnt>>

NoPattern == [wellFormed |-> TRUE, finders |-> {}, names |-> {}]

Init ==
    /\ up = TRUE
    /\ attached \in {s \in SUBSET Devices : Cardinality(s) <= MaxPlugged}
    /\ mute = {} /\ stayed = {}
    /\ pc = "idle"
    /\ pattern = NoPattern /\ todo = {} /\ devs = {} /\ list = <<>>
    /\ found = <<>> /\ count = 0
    /\ lists = {} /\ flCnt \in 0 .. FlLimit
    /\ conns = {}

-----------------------------------------------------------------------------
(* The names.                                                              *)

\* As much of a serial number as the server reads: sizeof(string) is the size of
\* a pointer.
Shown(d) == SubSeq(Serial[d], 1, Min({Room, Len(Serial[d])}))

Read(text, ok) == [text |-> text, ok |-> ok]

\* get_string_descriptor_of_serial: the buffer after it, when it held old.  It
\* answers true when the device could be opened, also when the number was not read.
ReadSerial(d, old) ==
    (IF Serial[d] # <<>> THEN {Read(Shown(d), TRUE)} ELSE {})
        \cup (IF Serial[d] = <<>> \/ d \in mute THEN {Read(old, FALSE)} ELSE {})

UsbName(model, serial, iface) == [bus |-> "usb", key |-> <<model, serial>>, no |-> iface]
LanName(d)                    == [bus |-> "lan", key |-> d, no |-> 0]

\* ASRL/ttyS0::INSTR and the like: find_first_of takes any character of "ttyS".
TtyName(d) == [bus |-> "tty", key |-> Tty[d], no |-> 0]

\* ASRL0::INSTR, as the table above getComList has it.
Typed(n) == [bus |-> "com", key |-> n, no |-> 0]

Entry(name, d, ok) == [name |-> name, of |-> d, ok |-> ok]
Names(entries)     == [i \in DOMAIN entries |-> entries[i].name]

UsbEntry(d, iface, read) == Entry(UsbName(Model[d], read.text, iface), d, read.ok)

\* The names of a device whose serial number is read.
UsbEntries(d) ==
    [i \in DOMAIN Interfaces[d] |-> UsbEntry(d, Interfaces[d][i], Read(Shown(d), TRUE))]

\* Of the interfaces that f takes, each after a reading of its own.
SomeEntries(d, f, reads) == [k \in DOMAIN f |-> UsbEntry(d, Interfaces[d][f[k]], reads[k])]

\* What for_each_usb_devs makes of one device, interface by interface.  The buffer
\* is not initialised: when the number is not read, or there is none, the name may
\* be any, of another device too, and may not match the pattern.  An interface
\* whose device cannot be opened is left out.
UsbLists(d, p) ==
    LET Orders(m)  == {f \in [1 .. m -> DOMAIN Interfaces[d]] : \A j, k \in 1 .. m : j < k => f[j] < f[k]}
        Given      == UNION {ReadSerial(d, junk) : junk \in Junk}
        Partial(m) == {SomeEntries(d, f, reads) : f \in Orders(m), reads \in [1 .. m -> Given]}
    IN CASE d \notin Readable \/ "usb" \notin p.names -> {<<>>}
         [] d \in Readable /\ "usb" \in p.names /\ (Serial[d] = <<>> \/ d \in mute) ->
                UNION {Partial(m) : m \in 0 .. Len(Interfaces[d])}
         [] OTHER -> {UsbEntries(d)}

\* MdnsFinder::availableDevs: answers are lost, and may come twice.
LanLists(p) ==
    IF "lan" \notin p.names THEN {<<>>}
    ELSE {[i \in DOMAIN s |-> Entry(LanName(s[i]), s[i], TRUE)] :
             s \in SeqOf(attached \cap Lan, MaxReplies)}

\* getComList: the ports of the serial8250 driver are probed and come last.
ComLists(p) ==
    LET Of(driver) == SetToSeqs({d \in attached \cap Com : Driver[d] = driver})
    IN {[i \in DOMAIN s |-> Entry(TtyName(s[i]), s[i], TRUE)] :
           s \in {a \o b : a \in Of("other"), b \in Of("uart")}}

-----------------------------------------------------------------------------
(* viFindRsrc.                                                             *)

\* The client takes the names apart with the regular expression (.*), which
\* reaches to the last comma.
ClientSplit(entries) == IF entries = <<>> THEN <<>> ELSE <<entries>>

\* Mutant of FindListId: the counter is wider than 16 bits.
FindListId_Wide(n) == n + 1

\* fl_cnt++ of 16 bits; the comparison after it is never true.
FindListId(n) == (n + 1) % (FlLimit + 1)

\* searchFinder, in the order of the names COM, MDNS, USBTMC.  An expression
\* std::regex does not take throws out of m_server.run().  The application is
\* done with the resource it found before.
FindRsrc(p) ==
    /\ pc = "idle" /\ up
    /\ \/ /\ p.wellFormed
          /\ pc' = "finding" /\ pattern' = p /\ list' = <<>>
          /\ todo' = p.finders
          /\ stayed' = attached \ mute
          /\ found' = <<>> /\ count' = 0
          /\ UNCHANGED <<up, conns>>
       \/ /\ ~p.wellFormed
          /\ up' = FALSE /\ conns' = {}
          /\ UNCHANGED <<stayed, pc, pattern, todo, list, found, count>>
    /\ UNCHANGED <<attached, mute, devs, lists, flCnt>>

\* VisaService::availableDevs asks the finders one after the other, in the order
\* of their names: the serial ports ...
AskCom ==
    /\ pc = "finding" /\ "com" \in todo
    /\ \E names \in ComLists(pattern) : list' = list \o names
    /\ todo' = todo \ {"com"}
    /\ UNCHANGED <<up, attached, mute, stayed, pc, pattern, devs, found, count, lists, flCnt, conns>>

\* ... the network ...
AskMdns ==
    /\ pc = "finding" /\ "lan" \in todo /\ "com" \notin todo
    /\ \E names \in LanLists(pattern) : list' = list \o names
    /\ todo' = todo \ {"lan"}
    /\ UNCHANGED <<up, attached, mute, stayed, pc, pattern, devs, found, count, lists, flCnt, conns>>

\* ... and the USB, of whose devices libusb makes a list ...
AskUsb ==
    /\ pc = "finding" /\ todo = {"usb"}
    /\ devs' = attached \cap Usb /\ todo' = {}
    /\ UNCHANGED <<up, attached, mute, stayed, pc, pattern, list, found, count, lists, flCnt, conns>>

\* Mutant: a device that cannot be opened ends the search.
ReadUsb_StopsAtUnreadable(d) ==
    /\ pc = "finding" /\ d \in devs
    /\ \E names \in UsbLists(d, pattern) : list' = list \o names
    /\ devs' = IF d \in Readable THEN devs \ {d} ELSE {}
    /\ UNCHANGED <<up, attached, mute, stayed, pc, pattern, todo, found, count, lists, flCnt, conns>>

\* ... that is read device by device, in an order that is libusb's.
ReadUsb(d) ==
    /\ pc = "finding" /\ d \in devs
    /\ \E names \in UsbLists(d, pattern) : list' = list \o names
    /\ devs' = devs \ {d}
    /\ UNCHANGED <<up, attached, mute, stayed, pc, pattern, todo, found, count, lists, flCnt, conns>>

\* The answer goes to Session::on_message, and FindRsrc returns.
FindReturns ==
    LET resources == ClientSplit(list) IN
    /\ pc = "finding" /\ todo = {} /\ devs = {}
    /\ IF resources = <<>>
       THEN UNCHANGED <<found, count, lists, flCnt>>
       ELSE /\ found' = Head(resources) /\ count' = Len(resources)
            /\ flCnt' = FindListId(flCnt)
            /\ lists' = lists \cup {flCnt'}
    /\ pc' = "idle" /\ pattern' = NoPattern /\ list' = <<>> /\ stayed' = {}
    /\ UNCHANGED <<up, attached, mute, todo, devs, conns>>

\* viFindNext reads through an iterator into a list that is gone.  What it
\* writes to its desc is not followed further.
FindNext(l) ==
    /\ pc = "idle" /\ l \in lists
    /\ pc' \in {"idle", "dead"}
    /\ UNCHANGED <<up, attached, mute, stayed, pattern, todo, devs, list, found, count, lists, flCnt, conns>>

\* viClose of a find list.
CloseFindList(l) ==
    /\ pc = "idle" /\ l \in lists
    /\ lists' = lists \ {l}
    /\ UNCHANGED <<up, attached, mute, stayed, pc, pattern, todo, devs, list, found, count, flCnt, conns>>

-----------------------------------------------------------------------------
(* viOpen.                                                                 *)

\* searchFinderWithRes: the pattern of a finder looks at the first name of a
\* resource, the ends of those for TCP and USB at the last one too.  No pattern
\* takes the names getComList makes.
FinderOf(names) ==
    LET first == Head(names).bus
    IN IF first = "com" \/ (first = Last(names).bus /\ first # "tty") THEN first ELSE "none"

\* Mutants of Check: the serial number is not compared, or all of it is.
Check_IgnoresSerial(name) ==
    {d \in attached \cap Readable : Model[d] = name.key[1]}
Check_WholeSerial(name) ==
    {d \in attached \cap Readable : Model[d] = name.key[1] /\ Serial[d] = name.key[2]}

\* UsbPort::check takes the first device it meets of the model and serial
\* number.  Its buffer is initialised.
Check(name) ==
    {d \in attached \cap Readable :
        Model[d] = name.key[1] /\ \E read \in ReadSerial(d, <<>>) : read.text = name.key[2]}

InUse(d, iface) == \E c \in conns : c.dev = d /\ Head(c.names).no = iface

\* UsbTmcPort::open: the kernel gives an interface to one handle at a time.  The
\* number of the interface is taken for its place in the table.
UsbOpen(name) ==
    {IF name.no \in Places[d] /\ ~InUse(d, name.no) THEN d ELSE NoDevice : d \in Check(name)}
        \cup (IF Check(name) = {} \/ Check(name) \cap mute # {} THEN {NoDevice} ELSE {})

\* UsbURL writes behind its buffer, or UsbTmcPort::open reads behind the table.
Undefined(names) ==
    /\ Head(names).bus = "usb"
    /\ Len(names) > Fit \/ \E d \in Check(Head(names)) : Head(names).no \notin Places[d]

\* res2Dev takes every resource for a ttyO: find_first_of again.
ComOpen(name) ==
    LET ttyO == {d \in attached \cap Com : Tty[d] = <<"ttyO", name.key>>}
    IN IF ttyO = {} THEN {NoDevice} ELSE ttyO

\* UsbURL, MdnsPort::open and res2Dev read the first name of a resource.  What
\* UsbURL has written over may be of use to it or not.
PortOpen(names) ==
    LET name == Head(names)
    IN CASE name.bus = "usb" -> UsbOpen(name) \cup (IF Len(names) > Fit THEN {NoDevice} ELSE {})
         [] name.bus = "com" -> ComOpen(name)
         [] name.bus = "lan" -> {name.key}

\* asio::connect throws when nobody answers.
ConnectThrows(names) == Head(names).bus = "lan" /\ Head(names).key \notin attached

\* The connect route: a connection of the same text is shared, whatever has
\* become of its port; an unknown resource is not answered.  What is undefined
\* may end the server.
Connect(names, meant) ==
    \/ \E c \in conns :
          /\ c.names = names
          /\ conns' = (conns \ {c}) \cup {[c EXCEPT !.meant = @ \cup meant]}
          /\ UNCHANGED <<up, pc>>
    \/ /\ \A c \in conns : c.names # names
       /\ \/ /\ FinderOf(names) = "none"
             /\ pc' = "waiting"
             /\ UNCHANGED <<up, conns>>
          \/ /\ FinderOf(names) # "none" /\ (ConnectThrows(names) \/ Undefined(names))
             /\ up' = FALSE /\ conns' = {}
             /\ UNCHANGED pc
          \/ /\ FinderOf(names) # "none" /\ ~ConnectThrows(names)
             /\ Cardinality(conns) < MaxConns
             /\ \E dev \in PortOpen(names) :
                   conns' = conns \cup {[names |-> names, meant |-> meant, dev |-> dev]}
             /\ UNCHANGED <<up, pc>>

\* viOpen of what viFindRsrc wrote, at any time after it.
OpenFound ==
    /\ pc = "idle" /\ up /\ found # <<>>
    /\ Connect(Names(found), {Head(found)})
    /\ UNCHANGED <<attached, mute, stayed, pattern, todo, devs, list, found, count, lists, flCnt>>

\* viOpen of ASRLn::INSTR.
OpenTyped(n) ==
    /\ pc = "idle" /\ up
    /\ Connect(<<Typed(n)>>, {})
    /\ UNCHANGED <<attached, mute, stayed, pattern, todo, devs, list, found, count, lists, flCnt>>

\* The last viClose of a connection.
CloseConn(c) ==
    /\ pc = "idle" /\ up
    /\ conns' = conns \ {c}
    /\ UNCHANGED <<up, attached, mute, stayed, app>>

-----------------------------------------------------------------------------
(* Instruments and servers come and go.                                    *)

Plug(d) ==
    /\ d \notin attached /\ Cardinality(attached) < MaxPlugged
    /\ attached' = attached \cup {d}
    /\ UNCHANGED <<up, mute, stayed, app, conns>>

\* A device that comes back is another one to the handle of a port and to a list
\* of libusb: the one that is listed can no longer be opened.
Unplug(d) ==
    /\ d \in attached
    /\ attached' = attached \ {d} /\ mute' = mute \ {d}
    /\ stayed' = stayed \ {d} /\ devs' = devs \ {d}
    /\ conns' = {IF c.dev = d THEN [c EXCEPT !.dev = NoDevice] ELSE c : c \in conns}
    /\ UNCHANGED <<up, pc, pattern, todo, list, found, count, lists, flCnt>>

\* An instrument stalls, or is about to be unplugged: libusb_open, or reading the
\* string behind it, may fail from now on ...
Falter(d) ==
    /\ d \in (attached \cap Weak) \ mute
    /\ mute' = mute \cup {d} /\ stayed' = stayed \ {d}
    /\ UNCHANGED <<up, attached, app, conns>>

\* ... and no longer.
Recover(d) ==
    /\ d \in mute
    /\ mute' = mute \ {d}
    /\ UNCHANGED <<up, attached, stayed, app, conns>>

\* A call that waits for the server returns: viFindRsrc with an empty list.
ServerKilled ==
    /\ up
    /\ up' = FALSE /\ conns' = {}
    /\ pc' = IF pc = "dead" THEN pc ELSE "idle"
    /\ pattern' = NoPattern /\ todo' = {} /\ devs' = {} /\ list' = <<>> /\ stayed' = {}
    /\ UNCHANGED <<attached, mute, found, count, lists, flCnt>>

ServerStart ==
    /\ ~up
    /\ up' = TRUE
    /\ UNCHANGED <<attached, mute, stayed, app, conns>>

Next ==
    \/ \E p \in Patterns : FindRsrc(p)
    \/ AskCom \/ AskMdns \/ AskUsb
    \/ \E d \in devs : ReadUsb(d)
    \/ FindReturns
    \/ \E l \in lists : FindNext(l) \/ CloseFindList(l)
    \/ OpenFound
    \/ \E d \in Com : OpenTyped(Tty[d][2])
    \/ \E c \in conns : CloseConn(c)
    \/ \E d \in Devices : Plug(d) \/ Unplug(d) \/ Falter(d) \/ Recover(d)
    \/ ServerKilled
    \/ ServerStart

Spec == Init /\ [][Next]_vars

-----------------------------------------------------------------------------
(* Properties.                                                             *)

\* What the reading of the serial number of d may give.
Reads(d) == {Read(Shown(d), TRUE)} \cup {Read(junk, FALSE) : junk \in Junk}

NamesOf(d) == {UsbEntry(d, Interfaces[d][i], read) : read \in Reads(d), i \in DOMAIN Interfaces[d]}

\* The names finders make.
Entries ==
    (UNION {NamesOf(d) : d \in Readable})
        \cup {Entry(LanName(d), d, TRUE) : d \in Lan} \cup {Entry(TtyName(d), d, TRUE) : d \in Com}

TypeOK ==
    /\ up \in BOOLEAN
    /\ stayed \subseteq attached \ mute /\ attached \subseteq Devices
    /\ mute \subseteq attached \cap Usb
    /\ pc \in {"idle", "finding", "waiting", "dead"}
    /\ pattern \in Patterns \cup {NoPattern}
    /\ todo \subseteq pattern.finders /\ devs \subseteq attached \cap Usb
    /\ list \in Seq(Entries) /\ found \in Seq(Entries)
    /\ count \in {0, 1}
    /\ lists \subseteq 0 .. FlLimit /\ flCnt \in 0 .. FlLimit
    /\ \A c \in conns : c.meant \subseteq Entries /\ c.dev \in Devices \cup {NoDevice}

\* The server can tell the USB device from the others it may ever meet.
Distinct(d) ==
    /\ Shown(d) # <<>>
    /\ \A b \in Usb \ {d} : Model[b] = Model[d] => Shown(b) # Shown(d)

(* A session opened by the name an instrument was found under, when its     *)
(* serial number was read, never uses another instrument, whatever was      *)
(* plugged in and out or failed to answer in between, however many names    *)
(* the resource joins and whoever opened the connection first (viFindRsrc,  *)
(* viOpen, UsbPort::check).  Devices that are alike in model and the first   *)
(* seven characters of their serials, or have none, are excepted: the code   *)
(* cannot tell them apart.  One whose number was not read stands in the list *)
(* under any name, and that may open another instrument.                     *)
OpensWhatWasFound ==
    \A c \in conns : \A e \in c.meant :
        e.of \in Usb /\ e.ok /\ Distinct(e.of) => c.dev \in {e.of, NoDevice}

\* The USB instrument found as e can be opened by that name.
Openable(e) ==
    /\ e.ok /\ e.of \in Readable \ mute /\ Distinct(e.of)
    /\ e.name.no \in Places[e.of] /\ ~InUse(e.of, e.name.no)

(* A connection made for a resource that was found reaches its first         *)
(* instrument when that is there, was and is read, and its interface is not  *)
(* in use by another connection: the name a finder made, joined with others  *)
(* and taken apart again, is the one that UsbURL, check and MdnsPort::open   *)
(* read.  More names than the buffer of UsbURL takes are excepted.           *)
FoundOpens ==
    [][\A c \in conns' : \A e \in c.meant :
          /\ \A b \in conns : b.names # c.names
          /\ e.of \in attached
          /\ e.of \in Usb => Openable(e) /\ Len(c.names) <= Fit
          => c.dev = e.of]_vars

\* The names of d stand in the list, together, and d is not in it otherwise.
ListedOnce(d) ==
    LET own == UsbEntries(d) IN
    \E k \in 0 .. Len(list) :
        /\ \A i \in DOMAIN list : list[i].of = d <=> i \in k + 1 .. k + Len(own)
        /\ \A i \in DOMAIN own : k + i \in DOMAIN list /\ list[k + i] = own[i]

(* When the finders are through, each USB instrument that the server may     *)
(* open, has a serial number and was there and answered all the time is in   *)
(* the list, once for each of its interfaces, and under its own name         *)
(* (for_each_usb_devs), although others come, go and fail between the        *)
(* finders and while libusb's list of devices is read.                       *)
FindsAttached ==
    pc = "finding" /\ todo = {} /\ devs = {} /\ "usb" \in pattern.finders \cap pattern.names =>
        \A d \in stayed \cap Readable : Serial[d] # <<>> => ListedOnce(d)

(* viFindRsrc counts the instruments it found: main.c prints retCnt as the   *)
(* number of devices.                                                       *)
FindCounts ==
    pc = "idle" => Cardinality({e.of : e \in Range(found)}) <= count
=============================================================================
