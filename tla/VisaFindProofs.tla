--------------------------- MODULE VisaFindProofs ---------------------------
(* Proofs about VisaFind, for any instruments, buses, serial numbers,      *)
(* patterns and bounds.                                                    *)
EXTENDS VisaFind, SequenceTheorems, FiniteSetTheorems, TLAPS

-----------------------------------------------------------------------------
(* The inductive invariant.                                                *)

\* What a resource may be made of: names of finders, and names that are typed.
AnyName == {e.name : e \in Entries} \cup {Typed(Tty[d][2]) : d \in Com}

Connection == [names: Seq(AnyName), meant: SUBSET Entries, dev: Devices \cup {NoDevice}]

\* dev is what a port for that name may have opened.
Fits(dev, name) ==
    \/ dev = NoDevice
    \/ /\ name.bus = "usb" /\ dev \in Readable
       /\ Model[dev] = name.key[1] /\ name.key[2] \in {Shown(dev), <<>>}
    \/ name.bus = "lan" /\ dev = name.key
    \/ name.bus = "com" /\ dev \in Com

\* The first name of a connection is the one each instrument that is meant by it
\* was found under, and fits the instrument that is open.
ConnsFit ==
    \A c \in conns :
        /\ c \in Connection /\ c.names # <<>>
        /\ \A e \in c.meant : e.name = Head(c.names)
        /\ Fits(c.dev, Head(c.names))

\* Nothing is left to do but during a query, and libusb's list is the last thing.
QueryOrder ==
    /\ pc # "finding" => todo = {} /\ devs = {}
    /\ devs # {} => todo = {}

\* A device that is still to be read is not in the list, the others are once.
ListedSoFar ==
    pc = "finding" /\ "usb" \in pattern.finders \cap pattern.names =>
        \A d \in stayed \cap Readable :
            Serial[d] # <<>> =>
                IF "usb" \in todo \/ d \in devs
                THEN \A i \in DOMAIN list : list[i].of # d
                ELSE ListedOnce(d)

Inv == TypeOK /\ ConnsFit /\ QueryOrder /\ ListedSoFar

-----------------------------------------------------------------------------
(* The names that finders make.                                            *)

\* What a reading of the serial number gives.  The buffer matters when the device
\* has none or fails to answer.
LEMMA SerialRead ==
    ASSUME NEW d, NEW old
    PROVE  /\ ReadSerial(d, old) \subseteq {Read(Shown(d), TRUE), Read(old, FALSE)}
           /\ Serial[d] # <<>> => Read(Shown(d), TRUE) \in ReadSerial(d, old)
  BY DEF ReadSerial

LEMMA TextRead ==
    ASSUME NEW d, NEW old, NEW read \in ReadSerial(d, old)
    PROVE  read.text \in {Shown(d), old}
  <1>1. read = Read(Shown(d), TRUE) \/ read = Read(old, FALSE)
    BY SerialRead
  <1>2. Read(Shown(d), TRUE).text = Shown(d) /\ Read(old, FALSE).text = old
    BY DEF Read
  <1> QED  BY <1>1, <1>2

\* A device without a serial number shows none.
LEMMA NoneShown ==
    ASSUME NEW d, Shown(d) # <<>>
    PROVE  Serial[d] # <<>>
  <1> SUFFICES ASSUME Serial[d] = <<>>
               PROVE  Shown(d) = <<>>
    OBVIOUS
  <1>1. Room \in Nat /\ Len(Serial[d]) = 0
    BY FindAssumption
  <1>2. \A x, y \in {Room, 0} : x \in Nat /\ y \in Nat
    BY <1>1
  <1>3. 0 \in {Room, 0} /\ \A y \in {Room, 0} : 0 <= y
    BY <1>1
  <1>4. Min({Room, 0}) \in {Room, 0} /\ Min({Room, 0}) <= 0
    <2>1. Min({Room, 0}) = CHOOSE x \in {Room, 0} : \A y \in {Room, 0} : x <= y
      BY DEF Min
    <2> QED  BY <1>3, <2>1
  <1>5. Min({Room, Len(Serial[d])}) = 0
    BY <1>1, <1>4
  <1> QED  BY <1>5 DEF Shown

LEMMA UsbEntryFields ==
    ASSUME NEW d, NEW iface, NEW read
    PROVE  /\ UsbEntry(d, iface, read).name = UsbName(Model[d], read.text, iface)
           /\ UsbEntry(d, iface, read).of = d /\ UsbEntry(d, iface, read).ok = read.ok
  BY DEF UsbEntry, Entry

\* The names of the others.
LEMMA PlainEntries ==
    /\ \A d \in Lan : Entry(LanName(d), d, TRUE) \in Entries
    /\ \A d \in Com : Entry(TtyName(d), d, TRUE) \in Entries
  BY DEF Entries

\* What a name in Entries says of the instrument it was made of.
LEMMA EntryShape ==
    ASSUME NEW e \in Entries
    PROVE  /\ e.of \in Devices
           /\ e.of \in Usb => /\ e.of \in Readable
                             /\ \E read \in Reads(e.of), i \in DOMAIN Interfaces[e.of] :
                                   e = UsbEntry(e.of, Interfaces[e.of][i], read)
           /\ e.of \in Lan => e.name = LanName(e.of)
           /\ e.of \in Com => e.name = TtyName(e.of)
  <1>1. CASE \E d \in Lan : e = Entry(LanName(d), d, TRUE)
    BY <1>1, FindAssumption DEF Entry, Devices
  <1>2. CASE \E d \in Com : e = Entry(TtyName(d), d, TRUE)
    BY <1>2, FindAssumption DEF Entry, Devices
  <1>3. CASE \E d \in Readable : \E read \in Reads(d), i \in DOMAIN Interfaces[d] :
                e = UsbEntry(d, Interfaces[d][i], read)
    <2>1. PICK d \in Readable : \E read \in Reads(d), i \in DOMAIN Interfaces[d] :
                  e = UsbEntry(d, Interfaces[d][i], read)
      BY <1>3
    <2>2. e.of = d /\ d \in Usb /\ d \notin Lan /\ d \notin Com
      BY <2>1, UsbEntryFields, FindAssumption
    <2> QED  BY <2>1, <2>2 DEF Devices
  <1> QED
    <2>1. \/ \E d \in Lan : e = Entry(LanName(d), d, TRUE)
          \/ \E d \in Com : e = Entry(TtyName(d), d, TRUE)
          \/ \E d \in Readable : e \in NamesOf(d)
      BY DEF Entries
    <2>2. ASSUME NEW d \in Readable, e \in NamesOf(d)
          PROVE  \E read \in Reads(d), i \in DOMAIN Interfaces[d] :
                    e = UsbEntry(d, Interfaces[d][i], read)
      BY <2>2 DEF NamesOf
    <2> QED  BY <1>1, <1>2, <1>3, <2>1, <2>2

\* The names of some of the interfaces of a device, each after a reading of its own.
LEMMA PartShape ==
    ASSUME NEW d \in Readable, NEW m \in Nat, NEW f \in [1 .. m -> DOMAIN Interfaces[d]],
           NEW reads \in [1 .. m -> Reads(d)]
    PROVE  /\ SomeEntries(d, f, reads) \in Seq(Entries) /\ Len(SomeEntries(d, f, reads)) = m
           /\ \A i \in DOMAIN SomeEntries(d, f, reads) : SomeEntries(d, f, reads)[i].of = d
  <1> DEFINE names == SomeEntries(d, f, reads)
             E(k) == UsbEntry(d, Interfaces[d][f[k]], reads[k])
  <1>1. \A k \in 1 .. m : E(k) \in Entries
    <2>1. \A k \in 1 .. m : E(k) \in NamesOf(d)
      BY DEF NamesOf
    <2>2. NamesOf(d) \subseteq Entries
      BY DEF Entries
    <2> QED  BY <2>1, <2>2
  <1>2. \A k \in 1 .. m : E(k).of = d
    BY UsbEntryFields
  <1>3. names = [k \in 1 .. m |-> E(k)]
    BY DEF SomeEntries
  <1> HIDE DEF E, names
  <1>4. names \in [1 .. m -> Entries]
    BY <1>1, <1>3
  <1>5. \A i \in DOMAIN names : names[i].of = d
    BY <1>2, <1>3
  <1> QED  BY <1>4, <1>5 DEF names

LEMMA UsbEntriesShape ==
    ASSUME NEW d \in Readable
    PROVE  /\ UsbEntries(d) \in Seq(Entries)
           /\ Len(UsbEntries(d)) = Len(Interfaces[d])
           /\ \A i \in DOMAIN UsbEntries(d) : UsbEntries(d)[i].of = d
  <1> DEFINE n     == Len(Interfaces[d])
             f     == [i \in 1 .. n |-> i]
             reads == [i \in 1 .. n |-> Read(Shown(d), TRUE)]
  <1>1. Interfaces[d] \in Seq(Nat)
    BY FindAssumption
  <1>2. n \in Nat /\ DOMAIN Interfaces[d] = 1 .. n
    BY <1>1
  <1>3. f \in [1 .. n -> DOMAIN Interfaces[d]] /\ reads \in [1 .. n -> Reads(d)]
    BY <1>2 DEF Reads
  <1>4. UsbEntries(d) = SomeEntries(d, f, reads)
    BY <1>2 DEF UsbEntries, SomeEntries
  <1> HIDE DEF f, reads
  <1> QED  BY <1>2, <1>3, <1>4, PartShape

LEMMA UsbListsShape ==
    ASSUME NEW d, NEW p, NEW names \in UsbLists(d, p)
    PROVE  /\ names \in Seq(Entries)
           /\ \A i \in DOMAIN names : names[i].of = d
           /\ d \in Readable /\ "usb" \in p.names /\ Serial[d] # <<>> /\ d \notin mute =>
                 names = UsbEntries(d)
  <1> DEFINE Orders(m) == {f \in [1 .. m -> DOMAIN Interfaces[d]] :
                              \A j, k \in 1 .. m : j < k => f[j] < f[k]}
             Given     == UNION {ReadSerial(d, junk) : junk \in Junk}
             Parts(m)  == {SomeEntries(d, f, reads) : f \in Orders(m), reads \in [1 .. m -> Given]}
             Some      == UNION {Parts(m) : m \in 0 .. Len(Interfaces[d])}
             Weakly    == Serial[d] = <<>> \/ d \in mute
  <1>1. CASE names = <<>> /\ (d \notin Readable \/ "usb" \notin p.names)
    BY <1>1
  <1>2. CASE /\ d \in Readable /\ (Serial[d] = <<>> \/ d \in mute)
             /\ \E m \in 0 .. Len(Interfaces[d]) : names \in Parts(m)
    <2>1. PICK m \in 0 .. Len(Interfaces[d]) : names \in Parts(m)
      <3> HIDE DEF Parts
      <3> QED  BY <1>2
    <2>2. Given \subseteq Reads(d)
      <3> SUFFICES ASSUME NEW junk \in Junk, NEW read \in ReadSerial(d, junk)
                   PROVE  read \in Reads(d)
        OBVIOUS
      <3>1. read = Read(Shown(d), TRUE) \/ read = Read(junk, FALSE)
        BY SerialRead
      <3> QED  BY <3>1 DEF Reads
    <2>3. m \in Nat
      OBVIOUS
    <2> HIDE DEF Given
    <2>4. PICK f \in Orders(m), reads \in [1 .. m -> Given] : names = SomeEntries(d, f, reads)
      BY <2>1
    <2>5. f \in [1 .. m -> DOMAIN Interfaces[d]] /\ reads \in [1 .. m -> Reads(d)]
      BY <2>2, <2>4
    <2>6. /\ names \in Seq(Entries) /\ \A i \in DOMAIN names : names[i].of = d
      BY <1>2, <2>3, <2>4, <2>5, PartShape
    <2> QED  BY <1>2, <2>6
  <1>3. CASE d \in Readable /\ names = UsbEntries(d)
    BY <1>3, UsbEntriesShape
  <1> QED
    <2>1. UsbLists(d, p) = CASE d \notin Readable \/ "usb" \notin p.names -> {<<>>}
                             [] d \in Readable /\ "usb" \in p.names /\ Weakly -> Some
                             [] OTHER -> {UsbEntries(d)}
      BY DEF UsbLists
    <2>2. names \in Some => \E m \in 0 .. Len(Interfaces[d]) : names \in Parts(m)
      <3> HIDE DEF Parts
      <3> QED  OBVIOUS
    <2> HIDE DEF Some, Parts
    <2>3. CASE d \notin Readable \/ "usb" \notin p.names
      BY <1>1, <2>1, <2>3
    <2>4. CASE d \in Readable /\ "usb" \in p.names /\ Weakly
      BY <1>2, <2>1, <2>2, <2>4
    <2>5. CASE d \in Readable /\ "usb" \in p.names /\ ~Weakly
      BY <1>3, <2>1, <2>5
    <2> QED  BY <2>3, <2>4, <2>5

LEMMA LanListsShape ==
    ASSUME NEW p, NEW names \in LanLists(p)
    PROVE  /\ names \in Seq(Entries)
           /\ \A i \in DOMAIN names : names[i].of \in Lan
  <1>1. CASE names = <<>>
    BY <1>1
  <1>2. CASE \E s \in SeqOf(attached \cap Lan, MaxReplies) :
                names = [i \in DOMAIN s |-> Entry(LanName(s[i]), s[i], TRUE)]
    <2>1. PICK s \in SeqOf(attached \cap Lan, MaxReplies) :
                  names = [i \in DOMAIN s |-> Entry(LanName(s[i]), s[i], TRUE)]
      BY <1>2
    <2>2. PICK n \in 0 .. MaxReplies : s \in [1 .. n -> attached \cap Lan]
      BY <2>1 DEF SeqOf
    <2>3. n \in Nat
      BY <2>2, FindAssumption
    <2>4. \A i \in 1 .. n : Entry(LanName(s[i]), s[i], TRUE) \in Entries
      BY <2>2, PlainEntries
    <2>5. names \in [1 .. n -> Entries]
      BY <2>1, <2>2, <2>4
    <2>6. \A i \in 1 .. n : names[i].of \in Lan
      BY <2>1, <2>2 DEF Entry
    <2> QED  BY <2>3, <2>5, <2>6
  <1> QED  BY <1>1, <1>2 DEF LanLists

\* An order of a finite set is a sequence of its elements.
LEMMA OrderIsSeq ==
    ASSUME NEW S, IsFiniteSet(S), NEW s \in SetToSeqs(S)
    PROVE  s \in Seq(S)
  <1>1. Cardinality(S) \in Nat
    BY FS_CardinalityType
  <1>2. s \in [1 .. Cardinality(S) -> S]
    BY DEF SetToSeqs
  <1> QED  BY <1>1, <1>2

LEMMA ComListsShape ==
    ASSUME NEW p, NEW names \in ComLists(p), attached \subseteq Devices
    PROVE  /\ names \in Seq(Entries)
           /\ \A i \in DOMAIN names : names[i].of \in Com
  <1> DEFINE Others == {d \in attached \cap Com : Driver[d] = "other"}
             Uarts  == {d \in attached \cap Com : Driver[d] = "uart"}
             Orders == {a \o b : a \in SetToSeqs(Others), b \in SetToSeqs(Uarts)}
  <1>1. ComLists(p) = {[i \in DOMAIN q |-> Entry(TtyName(q[i]), q[i], TRUE)] : q \in Orders}
    BY DEF ComLists
  <1>2. /\ Others \in SUBSET Devices /\ Others \subseteq Com
        /\ Uarts \in SUBSET Devices /\ Uarts \subseteq Com
    BY DEF Devices
  <1> HIDE DEF Others, Uarts, Orders
  <1>3. PICK s \in Orders : names = [i \in DOMAIN s |-> Entry(TtyName(s[i]), s[i], TRUE)]
    BY <1>1
  <1>4. PICK a \in SetToSeqs(Others), b \in SetToSeqs(Uarts) : s = a \o b
    BY <1>3 DEF Orders
  <1>5. IsFiniteSet(Others) /\ IsFiniteSet(Uarts)
    <2>1. IsFiniteSet(Devices)
      BY FindAssumption
    <2> QED  BY <1>2, <2>1, FS_Subset
  <1>6. a \in Seq(Others) /\ b \in Seq(Uarts)
    BY <1>4, <1>5, OrderIsSeq
  <1>7. a \in Seq(Com) /\ b \in Seq(Com)
    BY <1>2, <1>6, SeqMonotonic
  <1>8. s \in Seq(Com)
    BY <1>4, <1>7, ConcatProperties
  <1> QED
    <2>1. Len(s) \in Nat /\ DOMAIN s = 1 .. Len(s) /\ \A i \in 1 .. Len(s) : s[i] \in Com
      BY <1>8
    <2>2. \A i \in 1 .. Len(s) : Entry(TtyName(s[i]), s[i], TRUE) \in Entries
      BY <2>1, PlainEntries
    <2>3. names \in [1 .. Len(s) -> Entries]
      BY <1>3, <2>1, <2>2
    <2>4. \A i \in 1 .. Len(s) : names[i].of \in Com
      BY <1>3, <2>1 DEF Entry
    <2> QED  BY <2>1, <2>3, <2>4

-----------------------------------------------------------------------------
(* Connections.                                                            *)

\* A resource that was found begins with the name of the first entry.
LEMMA NamesShape ==
    ASSUME NEW entries \in Seq(Entries), entries # <<>>
    PROVE  /\ Names(entries) \in Seq(AnyName) /\ Names(entries) # <<>>
           /\ Head(entries) \in Entries
           /\ Head(Names(entries)) = Head(entries).name
  <1>1. Len(entries) \in Nat \ {0} /\ DOMAIN entries = 1 .. Len(entries)
        /\ \A i \in 1 .. Len(entries) : entries[i] \in Entries
    OBVIOUS
  <1>2. \A i \in 1 .. Len(entries) : entries[i].name \in AnyName
    BY <1>1 DEF AnyName
  <1>3. Names(entries) \in [1 .. Len(entries) -> AnyName]
    BY <1>1, <1>2 DEF Names
  <1>4. Names(entries) \in Seq(AnyName) /\ Len(Names(entries)) = Len(entries)
    BY <1>1, <1>3
  <1>5. Names(entries)[1] = entries[1].name
    BY <1>1 DEF Names
  <1> QED  BY <1>1, <1>4, <1>5

LEMMA AnyNameShape ==
    ASSUME NEW name \in AnyName
    PROVE  /\ name.bus \in {"usb", "lan", "tty", "com"}
           /\ name.bus = "lan" => name.key \in Lan
  <1>1. CASE \E d \in Com : name = Typed(Tty[d][2])
    BY <1>1 DEF Typed
  <1>2. CASE \E e \in Entries : name = e.name
    <2>1. PICK e \in Entries : name = e.name
      BY <1>2
    <2>2. CASE e.of \in Usb
      <3>1. \E read \in Reads(e.of), i \in DOMAIN Interfaces[e.of] :
                e = UsbEntry(e.of, Interfaces[e.of][i], read)
        BY <2>2, EntryShape
      <3> QED  BY <2>1, <3>1 DEF UsbEntry, Entry, UsbName
    <2>3. CASE e.of \in Lan
      <3>1. e.name = LanName(e.of)
        BY <2>3, EntryShape
      <3> QED  BY <2>1, <2>3, <3>1 DEF LanName
    <2>4. CASE e.of \in Com
      <3>1. e.name = TtyName(e.of)
        BY <2>4, EntryShape
      <3> QED  BY <2>1, <3>1 DEF TtyName
    <2>5. e.of \in Devices
      BY EntryShape
    <2> QED  BY <2>2, <2>3, <2>4, <2>5 DEF Devices
  <1> QED  BY <1>1, <1>2 DEF AnyName

\* Whatever a port opens for a resource fits its first name.
LEMMA PortOpenFits ==
    ASSUME NEW names \in Seq(AnyName), names # <<>>, attached \subseteq Devices,
           FinderOf(names) # "none", NEW dev \in PortOpen(names)
    PROVE  dev \in Devices \cup {NoDevice} /\ Fits(dev, Head(names))
  <1> DEFINE name == Head(names)
  <1>1. name \in AnyName
    OBVIOUS
  <1>2. name.bus \in {"usb", "lan", "com"} /\ (name.bus = "lan" => name.key \in Lan)
    BY <1>1, AnyNameShape DEF FinderOf
  <1>3. CASE name.bus = "usb"
    <2>1. dev = NoDevice \/ dev \in Check(name)
      BY <1>3 DEF PortOpen, UsbOpen
    <2>2. ASSUME dev \in Check(name)
          PROVE  dev \in Devices /\ Fits(dev, name)
      <3>1. dev \in Readable /\ Model[dev] = name.key[1]
            /\ \E read \in ReadSerial(dev, <<>>) : read.text = name.key[2]
        BY <2>2 DEF Check
      <3>2. name.key[2] \in {Shown(dev), <<>>}
        BY <3>1, TextRead
      <3> QED  BY <1>3, <3>1, <3>2, FindAssumption DEF Fits, Devices
    <2> QED  BY <2>1, <2>2 DEF Fits
  <1>4. CASE name.bus = "com"
    BY <1>4 DEF PortOpen, ComOpen, Fits, Devices
  <1>5. CASE name.bus = "lan"
    BY <1>2, <1>5 DEF PortOpen, Fits, Devices
  <1> QED  BY <1>2, <1>3, <1>4, <1>5

LEMMA ConnectFits ==
    ASSUME TypeOK, ConnsFit,
           NEW names \in Seq(AnyName), names # <<>>, NEW meant \in SUBSET Entries,
           \A e \in meant : e.name = Head(names),
           Connect(names, meant)
    PROVE  ConnsFit' /\ up' \in BOOLEAN /\ pc' \in {pc, "waiting"}
  <1>1. CASE \E c \in conns :
                /\ c.names = names
                /\ conns' = (conns \ {c}) \cup {[c EXCEPT !.meant = @ \cup meant]}
                /\ UNCHANGED <<up, pc>>
    <2>1. PICK c \in conns :
                /\ c.names = names
                /\ conns' = (conns \ {c}) \cup {[c EXCEPT !.meant = @ \cup meant]}
      BY <1>1
    <2> DEFINE b == [c EXCEPT !.meant = @ \cup meant]
    <2>2. c \in Connection
      BY DEF ConnsFit
    <2>3. b \in Connection /\ b.names = c.names /\ b.dev = c.dev /\ b.meant = c.meant \cup meant
      BY <2>2 DEF Connection
    <2>4. /\ b.names # <<>> /\ \A e \in b.meant : e.name = Head(b.names)
          /\ Fits(b.dev, Head(b.names))
      BY <2>1, <2>3 DEF ConnsFit
    <2> HIDE DEF b
    <2> QED  BY <1>1, <2>1, <2>3, <2>4 DEF ConnsFit, TypeOK, b
  <1>2. CASE /\ FinderOf(names) # "none"
             /\ \E dev \in PortOpen(names) :
                   conns' = conns \cup {[names |-> names, meant |-> meant, dev |-> dev]}
             /\ UNCHANGED <<up, pc>>
    <2>1. PICK dev \in PortOpen(names) :
                   conns' = conns \cup {[names |-> names, meant |-> meant, dev |-> dev]}
      BY <1>2
    <2>2. dev \in Devices \cup {NoDevice} /\ Fits(dev, Head(names))
      BY <1>2, PortOpenFits DEF TypeOK
    <2> DEFINE b == [names |-> names, meant |-> meant, dev |-> dev]
    <2>3. /\ b \in Connection /\ b.names # <<>> /\ Fits(b.dev, Head(b.names))
          /\ \A e \in b.meant : e.name = Head(b.names)
      BY <2>2 DEF Connection
    <2> HIDE DEF b
    <2> QED  BY <1>2, <2>1, <2>3 DEF ConnsFit, TypeOK, b
  <1>3. CASE conns' = {} \/ conns' = conns
    BY <1>3 DEF ConnsFit, Connect, TypeOK
  <1> QED  BY <1>1, <1>2, <1>3 DEF Connect

-----------------------------------------------------------------------------
(* Every step keeps the invariant.                                         *)

LEMMA InitInv == Init => Inv
  <1> SUFFICES ASSUME Init PROVE Inv
    OBVIOUS
  <1> USE DEF Init
  <1>1. TypeOK
    BY FindAssumption DEF TypeOK, NoPattern
  <1>2. ConnsFit /\ QueryOrder /\ ListedSoFar
    BY DEF ConnsFit, QueryOrder, ListedSoFar
  <1> QED  BY <1>1, <1>2 DEF Inv

\* The actions that leave the connections and the instruments alone.
QueryStep ==
    \/ \E p \in Patterns : p.wellFormed /\ FindRsrc(p)
    \/ AskCom \/ AskMdns \/ AskUsb \/ \E d \in devs : ReadUsb(d)
    \/ FindReturns \/ \E l \in lists : FindNext(l) \/ CloseFindList(l)

LEMMA QueryTypes ==
    ASSUME Inv, QueryStep
    PROVE  TypeOK' /\ QueryOrder' /\ UNCHANGED <<attached, mute, conns>>
  <1> USE DEF Inv, TypeOK, QueryOrder
  <1>1. CASE \E p \in Patterns : p.wellFormed /\ FindRsrc(p)
    BY <1>1, FindAssumption DEF FindRsrc
  <1>2. CASE AskCom
    <2>1. PICK names \in ComLists(pattern) : list' = list \o names
      BY <1>2 DEF AskCom
    <2>2. list' \in Seq(Entries)
      BY <2>1, ComListsShape
    <2> QED  BY <1>2, <2>2 DEF AskCom
  <1>3. CASE AskMdns
    <2>1. PICK names \in LanLists(pattern) : list' = list \o names
      BY <1>3 DEF AskMdns
    <2>2. list' \in Seq(Entries)
      BY <2>1, LanListsShape
    <2> QED  BY <1>3, <2>2 DEF AskMdns
  <1>4. CASE AskUsb
    BY <1>4 DEF AskUsb
  <1>5. CASE \E d \in devs : ReadUsb(d)
    <2>1. PICK d \in devs : ReadUsb(d)
      BY <1>5
    <2>2. PICK names \in UsbLists(d, pattern) : list' = list \o names
      BY <2>1 DEF ReadUsb
    <2>3. list' \in Seq(Entries)
      BY <2>2, UsbListsShape
    <2> QED  BY <2>1, <2>3 DEF ReadUsb
  <1>6. CASE FindReturns
    <2>1. ClientSplit(list) = <<>> \/ (Head(ClientSplit(list)) = list /\ Len(ClientSplit(list)) = 1)
      BY DEF ClientSplit
    <2>2. FindListId(flCnt) \in 0 .. FlLimit
      BY FindAssumption DEF FindListId
    <2>3. found' \in Seq(Entries) /\ count' \in {0, 1}
      BY <1>6, <2>1 DEF FindReturns
    <2>4. flCnt' \in 0 .. FlLimit /\ lists' \subseteq 0 .. FlLimit
      BY <1>6, <2>2 DEF FindReturns
    <2>5. list' \in Seq(Entries) /\ stayed' = {} /\ pattern' = NoPattern /\ pc' = "idle"
          /\ todo' = {} /\ devs' = {} /\ UNCHANGED <<up, attached, mute, conns>>
      BY <1>6 DEF FindReturns
    <2> QED  BY <2>3, <2>4, <2>5 DEF NoPattern
  <1>7. CASE \E l \in lists : FindNext(l) \/ CloseFindList(l)
    BY <1>7 DEF FindNext, CloseFindList
  <1> QED  BY <1>1, <1>2, <1>3, <1>4, <1>5, <1>6, <1>7 DEF QueryStep

\* The list of libusb is read on: what is added is of d alone.
LEMMA ListedStaysOnce ==
    ASSUME NEW d \in Readable, list \in Seq(Entries),
           NEW names \in Seq(Entries), \A i \in DOMAIN names : names[i].of # d,
           list' = list \o names
    PROVE  /\ (\A i \in DOMAIN list : list[i].of # d) => \A i \in DOMAIN list' : list'[i].of # d
           /\ ListedOnce(d) => ListedOnce(d)'
  <1>1. /\ DOMAIN list = 1 .. Len(list) /\ DOMAIN list' = 1 .. Len(list) + Len(names)
        /\ DOMAIN names = 1 .. Len(names) /\ Len(list) \in Nat /\ Len(names) \in Nat
        /\ Len(list') = Len(list) + Len(names)
        /\ \A i \in DOMAIN list : list'[i] = list[i]
        /\ \A i \in DOMAIN list' \ DOMAIN list : list'[i].of # d
    <2>1. \A i \in 1 .. Len(list) + Len(names) :
              list'[i] = IF i <= Len(list) THEN list[i] ELSE names[i - Len(list)]
      BY ConcatProperties
    <2>2. /\ DOMAIN list = 1 .. Len(list) /\ DOMAIN list' = 1 .. Len(list) + Len(names)
          /\ DOMAIN names = 1 .. Len(names) /\ Len(list) \in Nat /\ Len(names) \in Nat
          /\ Len(list') = Len(list) + Len(names)
      OBVIOUS
    <2>3. ASSUME NEW i \in DOMAIN list' \ DOMAIN list
          PROVE  list'[i].of # d
      <3>1. i \in 1 .. Len(list) + Len(names) /\ ~(i <= Len(list)) /\ i - Len(list) \in 1 .. Len(names)
        BY <2>2
      <3> QED  BY <2>1, <2>2, <3>1
    <2> QED  BY <2>1, <2>2, <2>3
  <1>2. ASSUME ListedOnce(d)
        PROVE  ListedOnce(d)'
    <2> DEFINE own == UsbEntries(d)
    <2>1. PICK k \in 0 .. Len(list) :
              /\ \A i \in DOMAIN list : list[i].of = d <=> i \in k + 1 .. k + Len(own)
              /\ \A i \in DOMAIN own : k + i \in DOMAIN list /\ list[k + i] = own[i]
      BY <1>2, Zenon DEF ListedOnce
    <2>2. Len(own) \in Nat /\ DOMAIN own = 1 .. Len(own)
      BY FindAssumption DEF UsbEntries
    <2> HIDE DEF own
    <2>3. k \in 0 .. Len(list')
      BY <1>1
    <2>4. \A i \in k + 1 .. k + Len(own) : i \in DOMAIN list
      <3> TAKE i \in k + 1 .. k + Len(own)
      <3>1. i - k \in DOMAIN own /\ k + (i - k) = i
        BY <2>2, <1>1
      <3> QED  BY <2>1, <3>1
    <2>5. \A i \in DOMAIN list' : list'[i].of = d <=> i \in k + 1 .. k + Len(own)
      BY <1>1, <2>1, <2>4
    <2>6. \A i \in DOMAIN own : k + i \in DOMAIN list' /\ list'[k + i] = own[i]
      BY <1>1, <2>1
    <2> QED  BY <2>3, <2>5, <2>6 DEF ListedOnce, own
  <1> QED  BY <1>1, <1>2

\* The names of d are added to a list that has none of them.
LEMMA ListedNow ==
    ASSUME NEW d \in Readable, list \in Seq(Entries), \A i \in DOMAIN list : list[i].of # d,
           list' = list \o UsbEntries(d)
    PROVE  ListedOnce(d)'
  <1> DEFINE own == UsbEntries(d)
  <1>3. own \in Seq(Entries) /\ \A i \in DOMAIN own : own[i].of = d
    BY UsbEntriesShape
  <1> HIDE DEF own
  <1>4. /\ DOMAIN list = 1 .. Len(list) /\ DOMAIN list' = 1 .. Len(list) + Len(own)
        /\ DOMAIN own = 1 .. Len(own) /\ Len(list) \in Nat /\ Len(own) \in Nat
        /\ Len(list') = Len(list) + Len(own)
    BY <1>3 DEF own
  <1>5. \A i \in 1 .. Len(list) + Len(own) :
            list'[i] = IF i <= Len(list) THEN list[i] ELSE own[i - Len(list)]
    BY <1>3, ConcatProperties DEF own
  <1>6. \A i \in DOMAIN own : Len(list) + i \in DOMAIN list' /\ list'[Len(list) + i] = own[i]
    BY <1>4, <1>5
  <1>7. ASSUME NEW i \in DOMAIN list'
        PROVE  list'[i].of = d <=> i \in Len(list) + 1 .. Len(list) + Len(own)
    <2>1. CASE i <= Len(list)
      BY <1>4, <1>5, <2>1
    <2>2. CASE ~(i <= Len(list))
      <3>1. i - Len(list) \in DOMAIN own /\ list'[i] = own[i - Len(list)]
        BY <1>4, <1>5, <2>2
      <3> QED  BY <1>3, <1>4, <3>1
    <2> QED  BY <2>1, <2>2
  <1> QED
    <2>1. Len(list) \in 0 .. Len(list')
      BY <1>4
    <2> QED  BY <1>6, <1>7, <2>1 DEF ListedOnce, own

LEMMA QueryListed ==
    ASSUME Inv, QueryStep
    PROVE  ListedSoFar'
  <1> USE DEF Inv
  <1>1. CASE \E p \in Patterns : p.wellFormed /\ FindRsrc(p)
    BY <1>1 DEF FindRsrc, ListedSoFar
  <1>2. CASE AskCom \/ AskMdns
    <2>1. PICK names \in Seq(Entries) :
              /\ \A i \in DOMAIN names : names[i].of \in Com \cup Lan
              /\ list' = list \o names
      <3>1. CASE AskCom
        <4>1. PICK names \in ComLists(pattern) : list' = list \o names
          BY <3>1 DEF AskCom
        <4> QED  BY <4>1, ComListsShape DEF TypeOK
      <3>2. CASE AskMdns
        <4>1. PICK names \in LanLists(pattern) : list' = list \o names
          BY <3>2 DEF AskMdns
        <4> QED  BY <4>1, LanListsShape
      <3> QED  BY <1>2, <3>1, <3>2
    <2>2. /\ UNCHANGED <<pc, pattern, devs, stayed>>
          /\ "usb" \in todo <=> "usb" \in todo'
      BY <1>2 DEF AskCom, AskMdns
    <2>3. SUFFICES ASSUME pc = "finding", "usb" \in pattern.finders \cap pattern.names,
                          NEW d \in stayed \cap Readable, Serial[d] # <<>>
                   PROVE  IF "usb" \in todo \/ d \in devs
                          THEN \A i \in DOMAIN list' : list'[i].of # d
                          ELSE ListedOnce(d)'
      BY <2>2 DEF ListedSoFar
    <2>4. \A i \in DOMAIN names : names[i].of # d
      BY <2>1, FindAssumption
    <2>5. /\ (\A i \in DOMAIN list : list[i].of # d) => \A i \in DOMAIN list' : list'[i].of # d
          /\ ListedOnce(d) => ListedOnce(d)'
      BY <2>1, <2>4, ListedStaysOnce DEF TypeOK
    <2>6. IF "usb" \in todo \/ d \in devs THEN \A i \in DOMAIN list : list[i].of # d
          ELSE ListedOnce(d)
      BY <2>3 DEF ListedSoFar
    <2> QED  BY <2>5, <2>6
  <1>3. CASE AskUsb
    <2>1. /\ pc = "finding" /\ todo = {"usb"} /\ devs' = attached \cap Usb
          /\ UNCHANGED <<pc, pattern, stayed, list>>
      BY <1>3 DEF AskUsb
    <2>2. stayed \cap Readable \subseteq devs'
      BY <2>1, FindAssumption DEF TypeOK
    <2> QED  BY <2>1, <2>2 DEF ListedSoFar
  <1>4. CASE \E d \in devs : ReadUsb(d)
    <2>1. PICK b \in devs : ReadUsb(b)
      BY <1>4
    <2>2. PICK names \in UsbLists(b, pattern) : list' = list \o names
      BY <2>1 DEF ReadUsb
    <2>3. devs' = devs \ {b} /\ UNCHANGED <<pc, pattern, todo, stayed>>
      BY <2>1 DEF ReadUsb
    <2>4. SUFFICES ASSUME pc = "finding", "usb" \in pattern.finders, "usb" \in pattern.names,
                          NEW d \in stayed \cap Readable, Serial[d] # <<>>
                   PROVE  IF "usb" \in todo \/ d \in devs \ {b}
                          THEN \A i \in DOMAIN list' : list'[i].of # d
                          ELSE ListedOnce(d)'
      BY <2>3 DEF ListedSoFar
    <2>5. IF "usb" \in todo \/ d \in devs THEN \A i \in DOMAIN list : list[i].of # d
          ELSE ListedOnce(d)
      BY <2>4 DEF ListedSoFar
    <2>6. "usb" \notin todo
      BY DEF QueryOrder
    <2>7. CASE d = b
      <3>1. list' = list \o UsbEntries(d)
        <4>1. d \notin mute
          BY DEF TypeOK
        <4> QED  BY <2>2, <2>4, <2>7, <4>1, UsbListsShape
      <3> QED  BY <2>4, <2>5, <2>6, <2>7, <3>1, ListedNow DEF TypeOK
    <2>8. CASE d # b
      <3>1. names \in Seq(Entries) /\ \A i \in DOMAIN names : names[i].of # d
        BY <2>2, <2>8, UsbListsShape
      <3>2. /\ (\A i \in DOMAIN list : list[i].of # d) => \A i \in DOMAIN list' : list'[i].of # d
            /\ ListedOnce(d) => ListedOnce(d)'
        BY <2>2, <3>1, ListedStaysOnce DEF TypeOK
      <3> QED  BY <2>5, <2>8, <3>2
    <2> QED  BY <2>7, <2>8
  <1>5. CASE FindReturns
    BY <1>5 DEF FindReturns, ListedSoFar
  <1>6. CASE \E l \in lists : FindNext(l) \/ CloseFindList(l)
    BY <1>6 DEF FindNext, CloseFindList, ListedSoFar
  <1> QED  BY <1>1, <1>2, <1>3, <1>4, <1>5, <1>6 DEF QueryStep

LEMMA NextInv ==
    ASSUME Inv, [Next]_vars
    PROVE  Inv'
  <1> USE DEF Inv
  <1>1. CASE QueryStep
    <2>1. ConnsFit'
      BY <1>1, QueryTypes DEF ConnsFit
    <2> QED  BY <1>1, <2>1, QueryTypes, QueryListed
  <1>2. CASE \E p \in Patterns : ~p.wellFormed /\ FindRsrc(p)
    BY <1>2 DEF FindRsrc, TypeOK, ConnsFit, QueryOrder, ListedSoFar
  <1>3. CASE OpenFound
    <2>1. found \in Seq(Entries) /\ found # <<>>
      BY <1>3 DEF OpenFound, TypeOK
    <2>2. /\ Head(found) \in Entries /\ Head(Names(found)) = Head(found).name
          /\ Names(found) \in Seq(AnyName) /\ Names(found) # <<>>
      BY <2>1, NamesShape
    <2>3. /\ {Head(found)} \in SUBSET Entries
          /\ \A e \in {Head(found)} : e.name = Head(Names(found))
      BY <2>2
    <2>4. ConnsFit' /\ up' \in BOOLEAN /\ pc' \in {pc, "waiting"}
      BY <1>3, <2>2, <2>3, ConnectFits DEF OpenFound
    <2>5. pc = "idle" /\ UNCHANGED <<attached, mute, stayed, pattern, todo, devs, list, found, count, lists, flCnt>>
      BY <1>3 DEF OpenFound
    <2> QED  BY <2>4, <2>5 DEF TypeOK, ConnsFit, Connection, QueryOrder, ListedSoFar
  <1>4. CASE \E d \in Com : OpenTyped(Tty[d][2])
    <2>1. PICK d \in Com : OpenTyped(Tty[d][2])
      BY <1>4
    <2> DEFINE names == <<Typed(Tty[d][2])>>
    <2>2. names \in Seq(AnyName) /\ names # <<>>
      BY DEF AnyName
    <2>3. Connect(names, {})
      BY <2>1 DEF OpenTyped
    <2> HIDE DEF names
    <2>4. ConnsFit' /\ up' \in BOOLEAN /\ pc' \in {pc, "waiting"}
      BY <2>2, <2>3, ConnectFits
    <2>5. pc = "idle" /\ UNCHANGED <<attached, mute, stayed, pattern, todo, devs, list, found, count, lists, flCnt>>
      BY <2>1 DEF OpenTyped
    <2> QED  BY <2>4, <2>5 DEF TypeOK, ConnsFit, Connection, QueryOrder, ListedSoFar
  <1>5. CASE \E c \in conns : CloseConn(c)
    BY <1>5 DEF CloseConn, app, TypeOK, ConnsFit, QueryOrder, ListedSoFar, ListedOnce
  <1>6. CASE \E d \in Devices : Plug(d)
    BY <1>6 DEF Plug, app, TypeOK, ConnsFit, QueryOrder, ListedSoFar, ListedOnce
  <1>7. CASE \E d \in Devices : Unplug(d)
    <2>1. PICK d \in Devices : Unplug(d)
      BY <1>7
    <2>2. ConnsFit'
      <3> SUFFICES ASSUME NEW b \in conns'
                   PROVE  /\ b \in Connection /\ b.names # <<>>
                          /\ \A e \in b.meant : e.name = Head(b.names)
                          /\ Fits(b.dev, Head(b.names))
        BY DEF ConnsFit
      <3>1. PICK c \in conns : b = IF c.dev = d THEN [c EXCEPT !.dev = NoDevice] ELSE c
        BY <2>1 DEF Unplug
      <3>2. c \in Connection
        BY DEF ConnsFit
      <3>3. /\ b \in Connection /\ b.names = c.names /\ b.meant = c.meant
            /\ b.dev = c.dev \/ b.dev = NoDevice
        BY <3>1, <3>2 DEF Connection
      <3> QED  BY <3>3 DEF ConnsFit, Fits
    <2>3. /\ attached' \subseteq attached /\ stayed' \subseteq attached' \ mute' /\ stayed' \subseteq stayed
          /\ mute' \subseteq attached' \cap Usb
          /\ devs' \subseteq attached' \cap Usb /\ devs' \subseteq devs
          /\ \A e \in stayed' : e \in devs' <=> e \in devs
          /\ UNCHANGED <<up, pc, pattern, todo, list, found, count, lists, flCnt>>
      BY <2>1 DEF Unplug, TypeOK
    <2>4. TypeOK'
      BY <2>2, <2>3 DEF TypeOK, ConnsFit, Connection
    <2>5. ListedSoFar'
      BY <2>3 DEF ListedSoFar, ListedOnce
    <2> QED  BY <2>2, <2>3, <2>4, <2>5 DEF QueryOrder
  <1>8. CASE ServerKilled
    <2>1. /\ up' = FALSE /\ conns' = {} /\ pc' \in {"idle", "dead"} /\ pattern' = NoPattern
          /\ todo' = {} /\ devs' = {} /\ list' = <<>> /\ stayed' = {}
          /\ UNCHANGED <<attached, mute, found, count, lists, flCnt>>
      BY <1>8 DEF ServerKilled, TypeOK
    <2>2. list' \in Seq(Entries)
      BY <2>1
    <2>3. TypeOK'
      BY <2>1, <2>2 DEF TypeOK, NoPattern
    <2> QED  BY <2>1, <2>3 DEF ConnsFit, QueryOrder, ListedSoFar
  <1>9. CASE ServerStart
    BY <1>9 DEF ServerStart, app, TypeOK, ConnsFit, QueryOrder, ListedSoFar, ListedOnce
  <1>10. CASE \E d \in Devices : Falter(d)
    <2>1. PICK d \in Devices : Falter(d)
      BY <1>10
    <2>2. /\ mute' = mute \cup {d} /\ d \in attached \cap Weak /\ stayed' = stayed \ {d}
          /\ UNCHANGED <<up, attached, pc, pattern, todo, devs, list, found, count, lists, flCnt, conns>>
      BY <2>1 DEF Falter, app
    <2>3. TypeOK'
      BY <2>2, FindAssumption DEF TypeOK
    <2> QED  BY <2>2, <2>3 DEF ConnsFit, QueryOrder, ListedSoFar, ListedOnce
  <1>11. CASE \E d \in Devices : Recover(d)
    BY <1>11 DEF Recover, app, TypeOK, ConnsFit, QueryOrder, ListedSoFar, ListedOnce
  <1>12. CASE UNCHANGED vars
    BY <1>12 DEF vars, TypeOK, ConnsFit, QueryOrder, ListedSoFar, ListedOnce
  <1> QED  BY <1>1, <1>2, <1>3, <1>4, <1>5, <1>6, <1>7, <1>8, <1>9, <1>10, <1>11, <1>12 DEF Next, QueryStep

\* Every state a query, its connections and the instruments may be in.
THEOREM FindInvariant == Spec => []Inv
  BY InitInv, NextInv, PTL DEF Spec

-----------------------------------------------------------------------------
(* What the invariant gives.                                               *)

\* Every variable keeps its type: no find list has a number beyond FlLimit, the
\* lists hold names of finders only.
THEOREM TypeCorrect == Spec => []TypeOK
  BY FindInvariant, PTL DEF Inv

\* The name of a USB device whose serial number was read.
LEMMA UsbNameRead ==
    ASSUME NEW e \in Entries, e.of \in Usb, e.ok
    PROVE  /\ e.of \in Readable /\ e.name.bus = "usb"
           /\ e.name.key[1] = Model[e.of] /\ e.name.key[2] = Shown(e.of)
  <1> DEFINE d == e.of
  <1>1. PICK read \in Reads(d), i \in DOMAIN Interfaces[d] : e = UsbEntry(d, Interfaces[d][i], read)
    BY EntryShape
  <1> HIDE DEF d
  <1> DEFINE made == UsbEntry(d, Interfaces[d][i], read)
  <1>2. e.ok = read.ok /\ e.name = UsbName(Model[d], read.text, Interfaces[d][i])
    <2>1. made.ok = read.ok /\ made.name = UsbName(Model[d], read.text, Interfaces[d][i])
      BY UsbEntryFields
    <2>2. e = made
      BY <1>1
    <2> HIDE DEF made
    <2> QED  BY <2>1, <2>2, Zenon
  <1>3. read = Read(Shown(d), TRUE)
    <2>1. \A junk : Read(junk, FALSE).ok = FALSE
      BY DEF Read
    <2>2. ASSUME NEW junk \in Junk, read = Read(junk, FALSE)
          PROVE  FALSE
      <3>1. read.ok = FALSE
        BY <2>1, <2>2
      <3> QED  BY <1>2, <3>1
    <2> QED  BY <2>2 DEF Reads
  <1>4. read.text = Shown(d)
    BY <1>3 DEF Read
  <1>5. e.of \in Readable
    BY EntryShape
  <1> QED  BY <1>2, <1>4, <1>5 DEF UsbName, d

\* A session opened by the name an instrument was found under, when its serial
\* number was read, never uses another one: the server finds it by model and
\* serial number, whenever it looks, whatever failed to answer in between.
THEOREM NamesLeadBack == Spec => []OpensWhatWasFound
  <1>1. ASSUME Inv
        PROVE  OpensWhatWasFound
    <2> SUFFICES ASSUME NEW c \in conns, NEW e \in c.meant,
                        e.of \in Usb, e.ok, Distinct(e.of)
                 PROVE  c.dev \in {e.of, NoDevice}
      BY DEF OpensWhatWasFound
    <2>1. e \in Entries /\ e.name = Head(c.names) /\ Fits(c.dev, Head(c.names))
      BY <1>1 DEF Inv, ConnsFit, Connection
    <2>2. e.name.bus = "usb" /\ e.name.key[1] = Model[e.of] /\ e.name.key[2] = Shown(e.of)
      BY <2>1, UsbNameRead
    <2>3. c.dev = NoDevice \/ (/\ c.dev \in Readable /\ Model[c.dev] = Model[e.of]
                               /\ Shown(e.of) \in {Shown(c.dev), <<>>})
      BY <2>1, <2>2 DEF Fits
    <2> QED  BY <2>3, FindAssumption DEF Distinct
  <1> QED  BY FindInvariant, <1>1, PTL

\* Once libusb's list is read, every instrument that could be listed is, once.
THEOREM SearchIsComplete == Spec => []FindsAttached
  <1>1. Inv => FindsAttached
    BY DEF Inv, ListedSoFar, FindsAttached
  <1> QED  BY FindInvariant, <1>1, PTL

\* Only Connect makes a connection of names that no connection has.
LEMMA NewConnection ==
    ASSUME NEW names, NEW meant, Connect(names, meant),
           NEW c \in conns', \A e \in conns : e.names # c.names,
           \A e \in conns : e \in Connection
    PROVE  /\ c.names = names /\ c.meant = meant
           /\ FinderOf(names) # "none" /\ c.dev \in PortOpen(names)
  <1>1. CASE \E b \in conns :
                /\ b.names = names
                /\ conns' = (conns \ {b}) \cup {[b EXCEPT !.meant = @ \cup meant]}
    <2>1. PICK b \in conns :
                conns' = (conns \ {b}) \cup {[b EXCEPT !.meant = @ \cup meant]}
      BY <1>1
    <2>2. [b EXCEPT !.meant = @ \cup meant].names = b.names
      BY DEF Connection
    <2> QED  BY <2>1, <2>2
  <1>2. CASE conns' = conns \/ conns' = {}
    BY <1>2
  <1>3. CASE /\ FinderOf(names) # "none"
             /\ \E dev \in PortOpen(names) :
                   conns' = conns \cup {[names |-> names, meant |-> meant, dev |-> dev]}
    BY <1>3
  <1> QED  BY <1>1, <1>2, <1>3 DEF Connect

\* A new connection reaches the instrument whose name comes first, if it is there,
\* was and is read, and its interface is free.
THEOREM FoundIsOpened == Spec => FoundOpens
  <1> DEFINE Reaches ==
          \A c \in conns' : \A e \in c.meant :
              /\ \A b \in conns : b.names # c.names
              /\ e.of \in attached
              /\ e.of \in Usb => Openable(e) /\ Len(c.names) <= Fit
              => c.dev = e.of
  <1>1. ASSUME Inv, [Next]_vars
        PROVE  Reaches
    <2> SUFFICES ASSUME NEW c \in conns', NEW e \in c.meant,
                        \A b \in conns : b.names # c.names,
                        e.of \in attached, e.of \in Usb => Openable(e) /\ Len(c.names) <= Fit
                 PROVE  c.dev = e.of
      OBVIOUS
    <2>1. \A b \in conns : b \in Connection
      BY <1>1 DEF Inv, ConnsFit
    <2>2. CASE OpenFound
      <3>1. found \in Seq(Entries) /\ found # <<>> /\ Connect(Names(found), {Head(found)})
        BY <1>1, <2>2 DEF OpenFound, Inv, TypeOK
      <3>2. /\ c.names = Names(found) /\ c.meant = {Head(found)}
            /\ FinderOf(Names(found)) # "none" /\ c.dev \in PortOpen(Names(found))
        BY <2>1, <3>1, NewConnection
      <3> DEFINE name == Head(Names(found))
                 d    == e.of
      <3>3. e \in Entries /\ name = e.name /\ e = Head(found)
        BY <3>1, <3>2, NamesShape
      <3>4. d \in Devices
        BY <3>3, EntryShape
      <3>5. CASE d \in Usb
        <4>1. /\ e.ok /\ d \notin mute /\ Distinct(d)
              /\ name.no \in Places[d] /\ ~InUse(d, name.no) /\ ~(Len(Names(found)) > Fit)
          <5>1. Len(Names(found)) \in Nat
            BY <3>1, NamesShape
          <5> QED  BY <3>2, <3>3, <3>5, <5>1, FindAssumption DEF Openable
        <4>2. /\ d \in Readable
              /\ name.bus = "usb" /\ name.key[1] = Model[d] /\ name.key[2] = Shown(d)
          BY <3>3, <3>5, <4>1, UsbNameRead
        <4>3. Check(name) = {d}
          <5>1. d \in Check(name)
            <6>1. Read(Shown(d), TRUE) \in ReadSerial(d, <<>>) /\ Read(Shown(d), TRUE).text = Shown(d)
              BY <4>1, NoneShown, SerialRead DEF Distinct, Read
            <6> QED  BY <4>2, <6>1 DEF Check
          <5>2. ASSUME NEW b \in Check(name)
                PROVE  b = d
            <6>1. PICK read \in ReadSerial(b, <<>>) : read.text = name.key[2]
              BY DEF Check
            <6>2. Shown(d) \in {Shown(b), <<>>}
              BY <4>2, <6>1, TextRead
            <6>3. b \in Usb /\ Model[b] = Model[d]
              BY <4>2, FindAssumption DEF Check
            <6> QED  BY <4>1, <6>2, <6>3 DEF Distinct
          <5> QED  BY <5>1, <5>2
        <4>4. UsbOpen(name) = {d}
          BY <4>1, <4>3 DEF UsbOpen
        <4> QED  BY <3>2, <4>1, <4>2, <4>4 DEF PortOpen
      <3>6. CASE d \in Lan
        <4>1. name.bus = "lan" /\ name.key = d
          <5>1. e.name = LanName(d)
            BY <3>3, <3>6, EntryShape
          <5> QED  BY <3>3, <5>1 DEF LanName
        <4> QED  BY <3>2, <4>1 DEF PortOpen
      <3>7. CASE d \in Com
        <4>1. name.bus = "tty"
          <5>1. e.name = TtyName(d)
            BY <3>3, <3>7, EntryShape
          <5> QED  BY <3>3, <5>1 DEF TtyName
        <4> QED  BY <3>2, <4>1 DEF FinderOf
      <3> QED  BY <3>4, <3>5, <3>6, <3>7 DEF Devices
    <2>3. CASE \E b \in Com : OpenTyped(Tty[b][2])
      <3>1. PICK b \in Com : Connect(<<Typed(Tty[b][2])>>, {})
        BY <2>3 DEF OpenTyped
      <3>2. c.meant = {}
        BY <2>1, <3>1, NewConnection
      <3> QED  BY <3>2
    <2>4. CASE \E b \in Devices : Unplug(b)
      <3>1. PICK b \in Devices :
                conns' = {IF a.dev = b THEN [a EXCEPT !.dev = NoDevice] ELSE a : a \in conns}
        BY <2>4 DEF Unplug
      <3>2. PICK a \in conns : c = IF a.dev = b THEN [a EXCEPT !.dev = NoDevice] ELSE a
        BY <3>1
      <3>3. c.names = a.names
        BY <2>1, <3>2 DEF Connection
      <3> QED  BY <3>2, <3>3
    <2>5. CASE \/ \E b \in conns : CloseConn(b)
               \/ \E b \in Devices : Plug(b) \/ Falter(b) \/ Recover(b)
               \/ ServerKilled \/ ServerStart \/ UNCHANGED vars
               \/ \E p \in Patterns : FindRsrc(p)
      <3>1. conns' \subseteq conns
        BY <2>5 DEF CloseConn, Plug, Falter, Recover, ServerKilled, ServerStart, FindRsrc, vars
      <3> QED  BY <3>1
    <2>6. CASE QueryStep
      BY <1>1, <2>6, QueryTypes
    <2> QED  BY <1>1, <2>2, <2>3, <2>4, <2>5, <2>6 DEF Next, QueryStep
  <1> QED  BY FindInvariant, <1>1, PTL DEF FoundOpens, Spec

=============================================================================
