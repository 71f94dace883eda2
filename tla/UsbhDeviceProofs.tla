-------------------------- MODULE UsbhDeviceProofs --------------------------
(***************************************************************************)
(* The device layer for every number of clients, pipes and connections:    *)
(* the types of its state, the table of open pipes, the one control pipe,  *)
(* what a lost device leaves behind, and the address of a device.          *)
(***************************************************************************)
EXTENDS UsbhDevice, FiniteSetTheorems, FunctionTheorems, TLAPS

-----------------------------------------------------------------------------
(* The least and the greatest slot *)

\* A set of numbers with an upper bound has a least and a greatest element.
LEMMA MinMax ==
    ASSUME NEW m \in Nat, NEW n \in Nat, NEW S \in SUBSET (m .. n), S # {}
    PROVE  /\ Min(S) \in S
           /\ \A x \in S : Min(S) <= x
           /\ Max(S) \in S
           /\ \A x \in S : x <= Max(S)
<1> DEFINE R == StrictSubsetOrdering(S)
           below == {{y \in S : y <= x} : x \in S}
           above == {{y \in S : x <= y} : x \in S}
<1>0. S \subseteq Int
    OBVIOUS
<1>1. IsFiniteSet(S) /\ \A T \in SUBSET S : IsFiniteSet(T)
    <2>1. IsFiniteSet(m .. n)
        BY FS_Interval
    <2> QED BY <2>1, FS_Subset
<1>2. IsWellFoundedOn(R, FiniteSubsetsOf(S))
    BY FS_StrictSubsetOrderingWellFounded
<1>3. below \subseteq FiniteSubsetsOf(S) /\ above \subseteq FiniteSubsetsOf(S)
    BY <1>1 DEF FiniteSubsetsOf
<1>4. below # {} /\ above # {}
    OBVIOUS
<1>5. PICK B \in below : \A U \in below : ~(<<U, B>> \in R)
    <2> HIDE DEF below, R
    <2> QED BY <1>2, <1>3, <1>4, WFMin
<1>6. PICK A \in above : \A U \in above : ~(<<U, A>> \in R)
    <2> HIDE DEF above, R
    <2> QED BY <1>2, <1>3, <1>4, WFMin
<1>7. \E b \in S : \A x \in S : b <= x
    <2>1. PICK b \in S : B = {y \in S : y <= b}
        BY <1>5
    <2>2. ASSUME NEW x \in S, x < b
          PROVE  FALSE
        <3>1. {y \in S : y <= x} \in below
            OBVIOUS
        <3>2. {y \in S : y <= x} \subseteq B /\ b \in B /\ b \notin {y \in S : y <= x}
            <4>1. \A y \in S : y <= x => y <= b
                BY <1>0, <2>2
            <4>2. b <= b /\ ~(b <= x)
                BY <1>0, <2>2
            <4> QED BY <2>1, <4>1, <4>2
        <3>3. <<{y \in S : y <= x}, B>> \in R
            BY <2>1, <3>2 DEF StrictSubsetOrdering
        <3> QED BY <1>5, <3>1, <3>3
    <2> QED BY <2>2
<1>8. \E a \in S : \A x \in S : x <= a
    <2>1. PICK a \in S : A = {y \in S : a <= y}
        BY <1>6
    <2>2. ASSUME NEW x \in S, a < x
          PROVE  FALSE
        <3>1. {y \in S : x <= y} \in above
            OBVIOUS
        <3>2. {y \in S : x <= y} \subseteq A /\ a \in A /\ a \notin {y \in S : x <= y}
            <4>1. \A y \in S : x <= y => a <= y
                BY <1>0, <2>2
            <4>2. a <= a /\ ~(x <= a)
                BY <1>0, <2>2
            <4> QED BY <2>1, <4>1, <4>2
        <3>3. <<{y \in S : x <= y}, A>> \in R
            BY <2>1, <3>2 DEF StrictSubsetOrdering
        <3> QED BY <1>6, <3>1, <3>3
    <2> QED BY <2>2
<1> QED BY <1>7, <1>8 DEF Min, Max

-----------------------------------------------------------------------------
(* Types *)

\* The connections announced in the queue of port events.
ConnectionsIn(s) == {n \in DOMAIN s : s[n] = "CONNECTION"}

\* The port task is busy with a connection it has not counted yet.
Connecting ==
    /\ ptask.at \in {"find", "handle", "reset", "lookup", "alloc", "register"}
    /\ ptask.event = "CONNECTION"

\* Every device that is counted was connected, and no connection is counted twice.
Counted ==
    num_opened + Cardinality(ConnectionsIn(portq)) + (IF Connecting THEN 1 ELSE 0) <= bus.count

\* What tasks have in hand where they are.
PlaceInv ==
    /\ ptask.at \notin {"idle", "stopped"} => ptask.event \in PortEvents
    /\ ptask.at \in {"lookup", "alloc", "register"} => ptask.event = "CONNECTION"
    /\ \A t \in Clients :
          client[t].at \in {"addr_start", "addr", "addr_update"} => client[t].slot \in Slots

TypeInv == UsbhTypeOK /\ Counted /\ PlaceInv

\* The connections in a queue of events are finitely many, and an empty one has none.
LEMMA ConnectionsFinite ==
    ASSUME NEW s \in Seq(PortEvents)
    PROVE  IsFiniteSet(ConnectionsIn(s)) /\ Cardinality(ConnectionsIn(s)) \in Nat
<1>1. IsFiniteSet(1 .. Len(s))
    BY FS_Interval
<1>2. ConnectionsIn(s) \in SUBSET (1 .. Len(s))
    BY DEF ConnectionsIn
<1> QED BY <1>1, <1>2, FS_Subset, FS_CardinalityType

\* A queue gets one connection more when a connection is appended, and none otherwise.
LEMMA ConnectionsAppend ==
    ASSUME NEW s \in Seq(PortEvents), NEW e \in PortEvents
    PROVE  Cardinality(ConnectionsIn(Append(s, e))) =
              Cardinality(ConnectionsIn(s)) + (IF e = "CONNECTION" THEN 1 ELSE 0)
<1>1. /\ DOMAIN Append(s, e) = 1 .. Len(s) + 1
      /\ \A n \in 1 .. Len(s) : Append(s, e)[n] = s[n]
      /\ Append(s, e)[Len(s) + 1] = e
      /\ DOMAIN s = 1 .. Len(s) /\ Len(s) \in Nat
    OBVIOUS
<1>2. ConnectionsIn(Append(s, e)) = ConnectionsIn(s) \cup
          (IF e = "CONNECTION" THEN {Len(s) + 1} ELSE {})
    BY <1>1 DEF ConnectionsIn
<1>3. Len(s) + 1 \notin ConnectionsIn(s)
    BY <1>1 DEF ConnectionsIn
<1>4. CASE e = "CONNECTION"
    BY <1>2, <1>3, <1>4, ConnectionsFinite, FS_AddElement
<1>5. CASE e # "CONNECTION"
    <2>1. ConnectionsIn(Append(s, e)) = ConnectionsIn(s)
        BY <1>2, <1>5
    <2> QED BY <1>5, <2>1, ConnectionsFinite
<1> QED BY <1>4, <1>5

\* The handled event is the one connection that leaves the queue, if it is one.
LEMMA ConnectionsTail ==
    ASSUME NEW s \in Seq(PortEvents), s # <<>>
    PROVE  /\ Tail(s) \in Seq(PortEvents) /\ Head(s) \in PortEvents
           /\ Cardinality(ConnectionsIn(s)) =
              Cardinality(ConnectionsIn(Tail(s))) + (IF Head(s) = "CONNECTION" THEN 1 ELSE 0)
<1> DEFINE S == ConnectionsIn(Tail(s))
           T == ConnectionsIn(s) \ {1}
           f == [n \in S |-> n + 1]
<1>1. /\ DOMAIN Tail(s) = 1 .. Len(s) - 1
      /\ \A n \in 1 .. Len(s) - 1 : Tail(s)[n] = s[n + 1]
      /\ DOMAIN s = 1 .. Len(s) /\ Len(s) \in Nat /\ Len(s) >= 1
      /\ Head(s) = s[1] /\ Head(s) \in PortEvents
      /\ Tail(s) \in Seq(PortEvents)
    OBVIOUS
<1>2. f \in Bijection(S, T)
    <2>1. f \in [S -> T]
        BY <1>1 DEF ConnectionsIn
    <2>2. \A m, n \in S : f[m] = f[n] => m = n
        BY <1>1 DEF ConnectionsIn
    <2>3. \A k \in T : k - 1 \in S /\ f[k - 1] = k
        BY <1>1 DEF ConnectionsIn
    <2> HIDE DEF f, S, T
    <2> QED BY <2>1, <2>2, <2>3, Fun_IsBij
<1>3. Cardinality(T) = Cardinality(S)
    <2>1. IsFiniteSet(S)
        BY <1>1, ConnectionsFinite
    <2>2. ExistsBijection(S, T)
        BY <1>2 DEF ExistsBijection
    <2> QED BY <2>1, <2>2, FS_Bijection
<1>4. Cardinality(T) = IF Head(s) = "CONNECTION" THEN Cardinality(ConnectionsIn(s)) - 1
                                                 ELSE Cardinality(ConnectionsIn(s))
    <2>1. 1 \in ConnectionsIn(s) <=> Head(s) = "CONNECTION"
        BY <1>1 DEF ConnectionsIn
    <2> QED BY <2>1, ConnectionsFinite, FS_RemoveElement
<1>5. Cardinality(S) \in Nat /\ Cardinality(ConnectionsIn(s)) \in Nat
    BY <1>1, ConnectionsFinite
<1> HIDE DEF S, T
<1>6. Cardinality(ConnectionsIn(s)) = Cardinality(S) + (IF Head(s) = "CONNECTION" THEN 1 ELSE 0)
    BY <1>3, <1>4, <1>5
<1> QED BY <1>1, <1>6 DEF S

\* The bounds and the sets of slots and addresses are what the assumption makes of them.
LEMMA Numbers ==
    /\ MAX_PIPES \in Nat \ {0} /\ MaxConnections \in Nat \ {0} /\ QueueLen \in Nat \ {0}
    /\ 0 \in Addrs /\ 0 \notin Slots /\ 1 \in Slots
    /\ Slots \subseteq Nat /\ Addrs \subseteq Nat
    /\ NoPipe \notin Pipes /\ PortTask \notin Clients
    BY UsbhAssumption DEF Slots, Addrs

AssignPlaces == {"addr_start", "addr", "addr_update"}
ClientOK(c) == c \in ClientRecord /\ (c.at \in AssignPlaces => c.slot \in Slots)

\* Every client is in one piece.
LEMMA ClientsOK ==
    ASSUME TypeInv
    PROVE  /\ \A t \in Clients : ClientOK(client[t])
           /\ DOMAIN client = Clients
           /\ client = [t \in Clients |-> client[t]]
    BY DEF TypeInv, UsbhTypeOK, PlaceInv, ClientOK, AssignPlaces

\* A step of the bus, the port or the table leaves each client in one piece, and the others
\* as they are.
LEMMA TypesFrom ==
    ASSUME TypeInv,
           DOMAIN client' = Clients, client' = [t \in Clients |-> client'[t]],
           \A t \in Clients : client'[t] = client[t] \/ ClientOK(client'[t]),
           open_pipes' \in [Slots -> Entry],
           connect' \in BOOLEAN,
           mutex' \in Clients \cup {PortTask, NoTask},
           hcd' \in HcdRecord,
           bus' \in [attached : BOOLEAN, addr : Addrs, count : 0 .. MaxConnections],
           portq' \in Seq(PortEvents),
           ptask' \in TaskRecord,
           ptask'.at \notin {"idle", "stopped"} => ptask'.event \in PortEvents,
           ptask'.at \in {"lookup", "alloc", "register"} => ptask'.event = "CONNECTION",
           num_opened' \in Nat,
           Counted'
    PROVE  TypeInv'
<1>1. \A t \in Clients : ClientOK(client'[t])
    BY ClientsOK
<1>2. client' \in [Clients -> ClientRecord]
    BY <1>1 DEF ClientOK
<1>3. Cardinality(ConnectionsIn(portq')) \in Nat
    BY ConnectionsFinite
<1>4. num_opened' \in 0 .. MaxConnections
    BY <1>3, Numbers DEF Counted
<1>5. PlaceInv'
    BY <1>1 DEF PlaceInv, ClientOK, AssignPlaces
<1> QED BY <1>2, <1>4, <1>5 DEF TypeInv, UsbhTypeOK

\* The table and the counter of what is underway stay as they are.
LEMMA TypesBeside ==
    ASSUME TypeInv, TableUnchanged,
           DOMAIN client' = Clients, client' = [t \in Clients |-> client'[t]],
           \A t \in Clients : client'[t] = client[t] \/ ClientOK(client'[t]),
           hcd' \in HcdRecord,
           bus' \in [attached : BOOLEAN, addr : Addrs, count : 0 .. MaxConnections],
           portq' \in Seq(PortEvents),
           UNCHANGED ptask,
           bus'.count + Cardinality(ConnectionsIn(portq)) >=
               bus.count + Cardinality(ConnectionsIn(portq'))
    PROVE  TypeInv'
<1>1. /\ Cardinality(ConnectionsIn(portq)) \in Nat /\ Cardinality(ConnectionsIn(portq')) \in Nat
      /\ bus.count \in Nat /\ bus'.count \in Nat /\ num_opened \in Nat
    <2>1. portq \in Seq(PortEvents)
        BY DEF TypeInv, UsbhTypeOK
    <2>2. bus.count \in 0 .. MaxConnections /\ bus'.count \in 0 .. MaxConnections
              /\ num_opened \in 0 .. MaxConnections
        BY DEF TypeInv, UsbhTypeOK
    <2> QED BY <2>1, <2>2, ConnectionsFinite
<1>2. num_opened' = num_opened /\ (Connecting' <=> Connecting)
    BY DEF TableUnchanged, Connecting
<1>3. Counted'
    BY <1>1, <1>2 DEF TypeInv, Counted
<1> QED BY <1>1, <1>3, TypesFrom DEF TypeInv, UsbhTypeOK, PlaceInv, TableUnchanged

\* An event that the interrupt sends keeps the types, and what is underway is counted.
LEMMA EventTyped ==
    ASSUME TypeInv, NEW h \in HcdRecord, NEW e \in PortEvents, Event(h, e)
    PROVE  /\ hcd' \in HcdRecord
           /\ portq' \in Seq(PortEvents)
           /\ Cardinality(ConnectionsIn(portq')) <=
                Cardinality(ConnectionsIn(portq)) + (IF e = "CONNECTION" THEN 1 ELSE 0)
<1>1. portq \in Seq(PortEvents)
    BY DEF TypeInv, UsbhTypeOK
<1>2. Cardinality(ConnectionsIn(portq)) \in Nat
    BY <1>1, ConnectionsFinite
<1>3. portq' = portq \/ portq' = Append(portq, e)
    BY DEF Event
<1>4. hcd' \in HcdRecord
    BY DEF Event, HcdRecord
<1>5. CASE portq' = portq
    BY <1>1, <1>2, <1>4, <1>5
<1>6. CASE portq' = Append(portq, e)
    <2>1. Append(portq, e) \in Seq(PortEvents)
        BY <1>1
    <2> QED BY <1>1, <1>2, <1>4, <1>6, <2>1, ConnectionsAppend
<1> QED BY <1>3, <1>5, <1>6

\* The bus keeps the types.
LEMMA BusTyped ==
    ASSUME TypeInv, BusNext
    PROVE  TypeInv'
<1>1. /\ hcd \in HcdRecord /\ portq \in Seq(PortEvents) /\ client \in [Clients -> ClientRecord]
      /\ bus \in [attached : BOOLEAN, addr : Addrs, count : 0 .. MaxConnections]
    BY DEF TypeInv, UsbhTypeOK
<1>2. Cardinality(ConnectionsIn(portq)) \in Nat /\ bus.count \in 0 .. MaxConnections
    BY <1>1, ConnectionsFinite
<1>3. CASE Plug \/ Unplug
    <2>1. TableUnchanged /\ UNCHANGED <<ptask, client, hcd, portq>>
        BY <1>3 DEF Plug, Unplug, BusStep
    <2>2. bus' \in [attached : BOOLEAN, addr : Addrs, count : 0 .. MaxConnections]
             /\ bus'.count = bus.count
        BY <1>1, <1>3, Numbers DEF Plug, Unplug
    <2> QED BY <1>1, <1>2, <2>1, <2>2, TypesBeside
<1>4. CASE IsrConnection
    <2>1. TableUnchanged /\ UNCHANGED <<ptask, client>>
        BY <1>4 DEF IsrConnection, BusStep
    <2>2. bus' \in [attached : BOOLEAN, addr : Addrs, count : 0 .. MaxConnections]
             /\ bus'.count = bus.count + 1
        BY <1>1, <1>2, <1>4, Numbers DEF IsrConnection
    <2>3. /\ hcd' \in HcdRecord
          /\ portq' \in Seq(PortEvents)
          /\ Cardinality(ConnectionsIn(portq')) <= Cardinality(ConnectionsIn(portq)) + 1
        <3>1. [hcd EXCEPT !.seen = TRUE, !.lock = TRUE] \in HcdRecord
            BY <1>1 DEF HcdRecord
        <3>2. Event([hcd EXCEPT !.seen = TRUE, !.lock = TRUE], "CONNECTION")
            BY <1>4 DEF IsrConnection
        <3> QED BY <3>1, <3>2, EventTyped DEF PortEvents
    <2>4. Cardinality(ConnectionsIn(portq')) \in Nat
        BY <2>3, ConnectionsFinite
    <2> QED BY <1>1, <1>2, <2>1, <2>2, <2>3, <2>4, TypesBeside
<1>5. CASE IsrDisconnection \/ IsrError
    <2>1. TableUnchanged /\ UNCHANGED <<ptask, client, bus>>
        BY <1>5 DEF IsrDisconnection, IsrError, BusStep
    <2>2. PICK h \in HcdRecord, e \in PortEvents \ {"CONNECTION"} : Event(h, e)
        <3>1. CASE IsrError
            <4>1. [hcd EXCEPT !.state = "DISABLED", !.conn = FALSE] \in HcdRecord
                BY <1>1 DEF HcdRecord, PortStates
            <4> QED BY <3>1, <4>1 DEF IsrError, PortEvents
        <3>2. CASE IsrDisconnection
            <4> DEFINE g == [hcd EXCEPT !.seen = FALSE, !.lock = TRUE]
            <4>1. g \in HcdRecord /\ [g EXCEPT !.state = "RECOVERY", !.conn = FALSE] \in HcdRecord
                BY <1>1 DEF HcdRecord, PortStates
            <4> QED BY <3>2, <4>1 DEF IsrDisconnection, PortEvents
        <3> QED BY <1>5, <3>1, <3>2
    <2>3. /\ hcd' \in HcdRecord
          /\ portq' \in Seq(PortEvents)
          /\ Cardinality(ConnectionsIn(portq')) <= Cardinality(ConnectionsIn(portq))
        BY <1>2, <2>2, EventTyped
    <2>4. Cardinality(ConnectionsIn(portq')) \in Nat
        BY <2>3, ConnectionsFinite
    <2> QED BY <1>1, <1>2, <2>1, <2>3, <2>4, TypesBeside
<1>6. ASSUME NEW t \in Clients, TransferOk(t) \/ TransferError(t)
      PROVE  TypeInv'
    <2>1. TableUnchanged /\ UNCHANGED <<ptask, hcd, portq>>
        BY <1>6 DEF TransferOk, TransferError, BelowUnchanged
    <2>2. bus' \in [attached : BOOLEAN, addr : Addrs, count : 0 .. MaxConnections]
             /\ bus'.count = bus.count
        BY <1>1, <1>6 DEF TransferOk, TransferError, BelowUnchanged, ClientRecord
    <2>3. PICK r \in {"ok", "error"} : client' = [client EXCEPT ![t].result = r]
        BY <1>6 DEF TransferOk, TransferError
    <2>4. ClientOK([client[t] EXCEPT !.result = r])
        BY <1>1, ClientsOK DEF ClientOK, ClientRecord
    <2>5. /\ DOMAIN client' = Clients /\ client' = [u \in Clients |-> client'[u]]
          /\ \A u \in Clients : client'[u] = client[u] \/ ClientOK(client'[u])
        BY <1>1, <2>3, <2>4
    <2> QED BY <1>1, <1>2, <2>1, <2>2, <2>5, TypesBeside
<1> QED BY <1>3, <1>4, <1>5, <1>6 DEF BusNext

\* What a table of open pipes has in its fields.
LEMMA Tables ==
    ASSUME TypeInv
    PROVE  /\ open_pipes \in [Slots -> Entry] /\ num_opened \in 0 .. MaxConnections
           /\ Empty \in Entry
           /\ FreeSlots # {} => Max(FreeSlots) \in FreeSlots
           /\ ControlSlots # {} => Max(ControlSlots) \in ControlSlots
           /\ ControlSlots # {} => Min(ControlSlots) \in ControlSlots
           /\ FreeAddrs # {} => Min(FreeAddrs) \in FreeAddrs
           /\ FreeSlots \subseteq Slots /\ ControlSlots \subseteq Slots /\ FreeAddrs \subseteq Addrs
<1>1. FreeSlots \in SUBSET (1 .. MAX_PIPES) /\ ControlSlots \in SUBSET (1 .. MAX_PIPES)
    BY DEF FreeSlots, ControlSlots, Used, Slots
<1>2. FreeAddrs \in SUBSET (0 .. MAX_PIPES - 1)
    BY DEF FreeAddrs, Addrs
<1>3. 1 \in Nat /\ 0 \in Nat /\ MAX_PIPES \in Nat /\ MAX_PIPES - 1 \in Nat
    BY Numbers
<1>4. Empty \in Entry
    BY Numbers DEF Empty, Entry
<1> QED BY <1>1, <1>2, <1>3, <1>4, MinMax DEF TypeInv, UsbhTypeOK, Slots, Addrs

\* An entry is added, changed or cleared.
LEMMA RegisteredTyped ==
    ASSUME TypeInv, FreeSlots # {}, NEW p \in Handle, NEW control \in BOOLEAN, NEW a \in Addrs,
           Registered(p, control, a), control => num_opened < MaxConnections
    PROVE  /\ open_pipes' \in [Slots -> Entry]
           /\ num_opened' = IF control THEN num_opened + 1 ELSE num_opened
<1>1. num_opened' = IF control THEN num_opened + 1 ELSE num_opened
    BY DEF Registered
<1>2. num_opened' \in 0 .. MaxConnections
    BY <1>1, Tables, Numbers
<1>3. [pipe |-> p, nth_open |-> num_opened', is_control |-> control, addr |-> a] \in Entry
    BY <1>2 DEF Entry, Handle
<1> QED BY <1>1, <1>3, Tables DEF Registered

\* xesp_usbh_close_device keeps the types.
LEMMA CloseTyped ==
    ASSUME TypeInv, CloseDevice
    PROVE  open_pipes' \in [Slots -> Entry] /\ hcd' \in HcdRecord
<1>1. open_pipes' \in [Slots -> Entry]
    BY Tables DEF CloseDevice, Cleared
<1>2. [p \in Pipes |-> IF p \in ClosedPipes THEN [state |-> "FREE", addr |-> 0]
                       ELSE hcd.pipe[p]]
         \in [Pipes -> [state : {"FREE", "ACTIVE", "INVALID"}, addr : Addrs]]
    BY Numbers DEF TypeInv, UsbhTypeOK, HcdRecord
<1> QED BY <1>1, <1>2 DEF CloseDevice, FreePipes, TypeInv, UsbhTypeOK, HcdRecord

\* A client that is told of the end of its transfer stays in one piece.
LEMMA ToldTyped ==
    ASSUME TypeInv, NEW S
    PROVE  \A t \in Clients : ClientOK(Told(client[t], S))
    BY ClientsOK DEF ClientOK, ClientRecord, Told, Valid, Handle

\* hcd_pipe_alloc keeps the types of the driver.
LEMMA NewPipeTyped ==
    ASSUME TypeInv, NEW p \in Pipes, NEW a \in Addrs, NewPipe(p, a)
    PROVE  hcd' \in HcdRecord
<1> DEFINE PipeRecord == [state : {"FREE", "ACTIVE", "INVALID"}, addr : Addrs]
<1>1. hcd \in HcdRecord /\ hcd.pipe \in [Pipes -> PipeRecord]
    BY DEF TypeInv, UsbhTypeOK, HcdRecord
<1>2. [state |-> "ACTIVE", addr |-> a] \in PipeRecord
    OBVIOUS
<1>3. [hcd.pipe EXCEPT ![p] = [state |-> "ACTIVE", addr |-> a]] \in [Pipes -> PipeRecord]
    BY <1>1, <1>2
<1>4. hcd' = [hcd EXCEPT !.pipe = [hcd.pipe EXCEPT ![p] = [state |-> "ACTIVE", addr |-> a]]]
    BY <1>1 DEF NewPipe, HcdRecord
<1> QED BY <1>1, <1>3, <1>4 DEF HcdRecord

\* Every step of the port event task keeps the types.
LEMMA PortTyped ==
    ASSUME TypeInv, PortNext
    PROVE  TypeInv'
<1>1. /\ hcd \in HcdRecord /\ portq \in Seq(PortEvents) /\ ptask \in TaskRecord
      /\ bus \in [attached : BOOLEAN, addr : Addrs, count : 0 .. MaxConnections]
      /\ connect \in BOOLEAN /\ mutex \in Clients \cup {PortTask, NoTask}
      /\ open_pipes \in [Slots -> Entry] /\ num_opened \in 0 .. MaxConnections
      /\ Cardinality(ConnectionsIn(portq)) \in Nat
      /\ bus.count \in Nat /\ num_opened \in Nat /\ bus.count <= MaxConnections
    BY ConnectionsFinite, Numbers DEF TypeInv, UsbhTypeOK
<1>2. /\ ptask.at \notin {"idle", "stopped"} => ptask.event \in PortEvents
      /\ ptask.at \in {"lookup", "alloc", "register"} => ptask.event = "CONNECTION"
    BY DEF TypeInv, PlaceInv
<1>3. DOMAIN client = Clients /\ client = [t \in Clients |-> client[t]]
    BY ClientsOK
<1>4. num_opened + Cardinality(ConnectionsIn(portq)) + (IF Connecting THEN 1 ELSE 0) <= bus.count
    BY DEF TypeInv, Counted
<1>5. CASE PortReceive
    <2>1. UNCHANGED <<hcd, bus, client, open_pipes, num_opened, connect, mutex>>
        BY <1>5 DEF PortReceive, TableUnchanged
    <2>2. /\ portq' \in Seq(PortEvents)
          /\ ptask'.event \in PortEvents /\ ptask'.at = "find" /\ ptask' \in TaskRecord
          /\ Cardinality(ConnectionsIn(portq')) + (IF Connecting' THEN 1 ELSE 0) =
                Cardinality(ConnectionsIn(portq))
          /\ Cardinality(ConnectionsIn(portq')) \in Nat
        <3>1. portq # <<>> /\ portq' = Tail(portq) /\ ptask.at = "idle"
              /\ ptask' = [Idle EXCEPT !.at = "find", !.event = Head(portq)]
            BY <1>5 DEF PortReceive
        <3>2. portq' \in Seq(PortEvents) /\ Head(portq) \in PortEvents
            BY <1>1, <3>1
        <3>3. ptask'.event = Head(portq) /\ ptask'.at = "find" /\ ptask' \in TaskRecord
            BY <3>1, <3>2 DEF Idle, TaskRecord, Handle, PortStates
        <3>4. Connecting' <=> Head(portq) = "CONNECTION"
            BY <3>3 DEF Connecting
        <3> QED BY <1>1, <3>1, <3>2, <3>3, <3>4, ConnectionsTail, ConnectionsFinite
    <2>3. ~Connecting
        BY <1>5 DEF PortReceive, Connecting
    <2>4. Counted'
        BY <1>1, <1>4, <2>1, <2>2, <2>3 DEF Counted
    <2> QED BY <1>1, <1>3, <2>1, <2>2, <2>4, TypesFrom
<1>6. ASSUME UNCHANGED <<open_pipes, num_opened, connect, mutex, portq>>,
             bus' \in [attached : BOOLEAN, addr : Addrs, count : 0 .. MaxConnections],
             bus'.count = bus.count,
             hcd' \in HcdRecord,
             DOMAIN client' = Clients, client' = [t \in Clients |-> client'[t]],
             \A t \in Clients : client'[t] = client[t] \/ ClientOK(client'[t]),
             ptask' \in TaskRecord,
             ptask'.event = ptask.event,
             ptask.at \notin {"idle", "stopped"},
             ptask'.at \in {"find", "handle", "reset", "lookup", "alloc", "register"} =>
                 ptask.at \in {"find", "handle", "reset", "lookup", "alloc", "register"},
             ptask'.at \in {"lookup", "alloc", "register"} => ptask.event = "CONNECTION"
      PROVE  TypeInv'
    <2>1. Connecting' => Connecting
        BY <1>6 DEF Connecting
    <2>2. Counted'
        BY <1>1, <1>4, <1>6, <2>1 DEF Counted
    <2> QED BY <1>1, <1>2, <1>6, <2>2, TypesFrom
<1>7. CASE PortFind
    <2>1. /\ UNCHANGED <<open_pipes, num_opened, connect, mutex, portq, client, hcd, bus>>
          /\ ptask.at = "find" /\ ptask'.at = "handle" /\ ptask'.event = ptask.event
        BY <1>1, <1>7 DEF PortFind, TableUnchanged, BelowUnchanged, TaskRecord
    <2>2. (IF ControlSlots = {} THEN NoPipe ELSE open_pipes[Max(ControlSlots)].pipe) \in Handle
        BY Tables DEF Handle, Entry
    <2>3. ptask' \in TaskRecord
        BY <1>1, <1>7, <2>2 DEF PortFind, TaskRecord, HcdRecord
    <2> QED BY <1>1, <1>3, <1>6, <2>1, <2>3
<1>8. CASE PortHandle
    <2>1. /\ UNCHANGED <<open_pipes, num_opened, connect, mutex, portq, bus>>
          /\ ptask.at = "handle" /\ ptask'.event = ptask.event /\ ptask' \in TaskRecord
          /\ ptask'.at \in {"reset", "close", "idle"}
        BY <1>1, <1>2, <1>8 DEF PortHandle, TableUnchanged, TaskRecord, PortGoes, PortEvents
    <2>2. hcd' \in HcdRecord
        <3>1. CASE HandleLoss
            <4>1. Invalidated \in [Pipes -> [state : {"FREE", "ACTIVE", "INVALID"}, addr : Addrs]]
                BY <1>1 DEF HcdRecord, Invalidated
            <4> QED BY <1>1, <3>1, <4>1 DEF HandleLoss, HcdRecord
        <3>2. CASE HandleConnection
            <4>1. Debounced \in HcdRecord
                BY <1>1 DEF HcdRecord, PortStates, Debounced
            <4> QED BY <3>2, <4>1 DEF HandleConnection, HcdRecord
        <3> QED BY <1>1, <1>8, <3>1, <3>2 DEF PortHandle, HandleNothing
    <2>3. /\ DOMAIN client' = Clients /\ client' = [t \in Clients |-> client'[t]]
          /\ \A t \in Clients : client'[t] = client[t] \/ ClientOK(client'[t])
        <3>1. CASE HandleLoss
            BY <3>1, ClientsOK DEF HandleLoss, ClientOK, ClientRecord
        <3> QED BY <1>3, <1>8, <3>1 DEF PortHandle, HandleConnection, HandleNothing
    <2> QED BY <1>1, <1>6, <2>1, <2>2, <2>3
<1>9. CASE PortReset
    <2>1. /\ UNCHANGED <<open_pipes, num_opened, connect, mutex, portq, client>>
          /\ ptask.at = "reset" /\ ptask'.event = ptask.event /\ ptask' \in TaskRecord
          /\ ptask'.at = IF ptask.event = "CONNECTION" THEN "lookup" ELSE "sudden"
        BY <1>1, <1>9 DEF PortReset, TableUnchanged, TaskRecord, PortGoes
    <2>2. /\ hcd' \in HcdRecord
          /\ bus' \in [attached : BOOLEAN, addr : Addrs, count : 0 .. MaxConnections]
          /\ bus'.count = bus.count
        <3>1. /\ [hcd EXCEPT !.state = "ENABLED", !.conn = TRUE] \in HcdRecord
              /\ [hcd EXCEPT !.state = "RESETTING", !.conn = FALSE] \in HcdRecord
            BY <1>1 DEF HcdRecord, PortStates
        <3>2. /\ [bus EXCEPT !.addr = 0]
                    \in [attached : BOOLEAN, addr : Addrs, count : 0 .. MaxConnections]
              /\ [bus EXCEPT !.addr = 0].count = bus.count
            BY <1>1, Numbers
        <3>3. CASE Enables
            BY <1>1, <3>1, <3>2, <3>3 DEF Enables
        <3>4. CASE UNCHANGED <<hcd, bus>>
            BY <1>1, <3>4
        <3> QED BY <1>9, <3>3, <3>4 DEF PortReset, ResetPort
    <2> QED BY <1>1, <1>3, <1>6, <2>1, <2>2
<1>10. CASE PortLookup
    <2>1. /\ UNCHANGED <<open_pipes, num_opened, connect, mutex, portq, client, hcd, bus>>
          /\ ptask.at = "lookup" /\ ptask'.event = ptask.event /\ ptask' \in TaskRecord
          /\ ptask'.at \in {"idle", "stopped", "alloc"}
        BY <1>1, <1>10 DEF PortLookup, TableUnchanged, BelowUnchanged, TaskRecord, PortGoes,
           PortStops
    <2> QED BY <1>1, <1>2, <1>3, <1>6, <2>1
<1>11. CASE PortAlloc
    <2>1. /\ UNCHANGED <<open_pipes, num_opened, connect, mutex, portq, client, bus>>
          /\ ptask.at = "alloc" /\ ptask'.event = ptask.event /\ ptask' \in TaskRecord
          /\ ptask'.at \in {"connect", "register"}
        BY <1>1, <1>11 DEF PortAlloc, TableUnchanged, TaskRecord, PortGoes, Handle
    <2>2. hcd' \in HcdRecord
        BY <1>1, <1>11, Numbers, NewPipeTyped DEF PortAlloc
    <2> QED BY <1>1, <1>2, <1>3, <1>6, <2>1, <2>2
<1>12. CASE PortRegister
    <2>1. /\ UNCHANGED <<connect, mutex, portq, client, hcd, bus>>
          /\ ptask.at = "register" /\ ptask' \in TaskRecord /\ ptask'.event = ptask.event
          /\ ptask'.at = "connect"
        BY <1>1, <1>12 DEF PortRegister, BelowUnchanged, TaskRecord, Handle
    <2>2. Connecting /\ ~Connecting'
        BY <1>2, <2>1 DEF Connecting
    <2>3. num_opened < MaxConnections
        BY <1>1, <1>4, <2>2, Numbers
    <2>4. /\ open_pipes' \in [Slots -> Entry]
          /\ num_opened' \in Nat
          /\ num_opened' <= num_opened + 1
        <3>1. CASE FreeSlots = {}
            BY <1>1, <1>12, <3>1 DEF PortRegister
        <3>2. CASE FreeSlots # {}
            <4>1. ptask.pipe \in Handle /\ 0 \in Addrs
                BY <1>1, Numbers DEF TaskRecord
            <4>2. Registered(ptask.pipe, TRUE, 0)
                BY <1>12, <3>2 DEF PortRegister
            <4>3. open_pipes' \in [Slots -> Entry] /\ num_opened' = num_opened + 1
                BY <2>3, <3>2, <4>1, <4>2, RegisteredTyped
            <4> QED BY <1>1, <4>3
        <3> QED BY <3>1, <3>2
    <2>5. Counted'
        BY <1>1, <1>4, <2>1, <2>2, <2>4 DEF Counted
    <2> QED BY <1>1, <1>2, <1>3, <2>1, <2>4, <2>5, TypesFrom
<1>13. CASE PortConnect
    <2>1. /\ UNCHANGED <<open_pipes, num_opened, mutex, portq, hcd, bus>>
          /\ connect' \in BOOLEAN
          /\ ptask.at = "connect" /\ ptask' \in TaskRecord /\ ptask'.event = ptask.event
          /\ ptask'.at = "idle"
        BY <1>1, <1>13 DEF PortConnect, BelowUnchanged, TaskRecord, PortGoes
    <2>2. /\ DOMAIN client' = Clients /\ client' = [t \in Clients |-> client'[t]]
          /\ \A t \in Clients : client'[t] = client[t] \/ ClientOK(client'[t])
        BY <1>13, ClientsOK DEF PortConnect, Woken, ClientOK, ClientRecord, ClientPlaces,
           AssignPlaces
    <2>3. ~Connecting'
        BY <2>1 DEF Connecting
    <2>4. Counted'
        BY <1>1, <1>4, <2>1, <2>3 DEF Counted
    <2> QED BY <1>1, <2>1, <2>2, <2>4, TypesFrom
<1>14. CASE PortSudden
    <2>1. /\ UNCHANGED <<open_pipes, num_opened, connect, mutex, portq, client, hcd, bus>>
          /\ ptask.at = "sudden" /\ ptask'.event = ptask.event /\ ptask' \in TaskRecord
          /\ ptask'.at \in {"close", "idle", "stopped"}
        BY <1>1, <1>14 DEF PortSudden, TableUnchanged, BelowUnchanged, TaskRecord, PortGoes,
           PortStops
    <2> QED BY <1>1, <1>3, <1>6, <2>1
<1>15. CASE PortClose
    <2>1. /\ UNCHANGED <<num_opened, connect, mutex, bus, portq>>
          /\ ptask.at = "close" /\ ptask'.event = ptask.event /\ ptask' \in TaskRecord
          /\ ptask'.at \in {"off", "recover", "on"}
          /\ client' = [t \in Clients |-> Told(client[t], ClosedPipes)]
        BY <1>1, <1>15 DEF PortClose, TaskRecord, PortGoes
    <2>2. open_pipes' \in [Slots -> Entry] /\ hcd' \in HcdRecord
        BY <1>15, CloseTyped DEF PortClose
    <2>3. ~Connecting'
        BY <2>1 DEF Connecting
    <2>4. Counted'
        BY <1>1, <1>4, <2>1, <2>3 DEF Counted
    <2> QED BY <1>1, <1>2, <2>1, <2>2, <2>4, TypesFrom, ToldTyped
<1>16. CASE PortOff \/ PortRecover \/ PortOn
    <2>1. /\ UNCHANGED <<open_pipes, num_opened, connect, mutex, portq, client, bus>>
          /\ ptask.at \in {"off", "recover", "on"} /\ ptask'.event = ptask.event
          /\ ptask' \in TaskRecord /\ ptask'.at \in {"idle", "on"}
        BY <1>1, <1>16 DEF PortOff, PortRecover, PortOn, TableUnchanged, TaskRecord, PortGoes
    <2>2. hcd' \in HcdRecord
        BY <1>1, <1>16 DEF PortOff, PortRecover, PortOn, HcdRecord, PortStates
    <2> QED BY <1>1, <1>3, <1>6, <2>1, <2>2
<1> QED BY <1>5, <1>7, <1>8, <1>9, <1>10, <1>11, <1>12, <1>13, <1>14, <1>15, <1>16 DEF PortNext

\* hcd_pipe_update keeps the types of the driver.
LEMMA UpdateTyped ==
    ASSUME TypeInv, NEW p \in Handle, NEW a \in Addrs, Update(p, a)
    PROVE  hcd' \in HcdRecord
<1> DEFINE PipeRecord == [state : {"FREE", "ACTIVE", "INVALID"}, addr : Addrs]
<1>1. hcd \in HcdRecord /\ hcd.pipe \in [Pipes -> PipeRecord]
    BY DEF TypeInv, UsbhTypeOK, HcdRecord
<1>2. [hcd.pipe EXCEPT ![p] = [hcd.pipe[p] EXCEPT !.addr = a]] \in [Pipes -> PipeRecord]
    <2>1. CASE p \in Pipes
        BY <1>1, <2>1
    <2>2. CASE p \notin Pipes
        BY <1>1, <2>2
    <2> QED BY <2>1, <2>2
<1>3. [hcd EXCEPT !.pipe[p].addr = a] =
          [hcd EXCEPT !.pipe = [hcd.pipe EXCEPT ![p] = [hcd.pipe[p] EXCEPT !.addr = a]]]
    BY <1>1 DEF HcdRecord
<1>4. [hcd EXCEPT !.pipe[p].addr = a] \in HcdRecord
    BY <1>1, <1>2, <1>3 DEF HcdRecord
<1> QED BY <1>1, <1>4 DEF Update

\* Every step of a client keeps the types.
LEMMA ClientTyped ==
    ASSUME TypeInv, NEW t \in Clients, ClientCall(t) \/ ClientNext(t)
    PROVE  TypeInv'
<1>1. /\ hcd \in HcdRecord /\ portq \in Seq(PortEvents) /\ ptask \in TaskRecord
      /\ bus \in [attached : BOOLEAN, addr : Addrs, count : 0 .. MaxConnections]
      /\ connect \in BOOLEAN /\ mutex \in Clients \cup {PortTask, NoTask}
      /\ open_pipes \in [Slots -> Entry] /\ num_opened \in 0 .. MaxConnections
      /\ client \in [Clients -> ClientRecord]
      /\ ClientOK(client[t])
      /\ num_opened \in Nat
    BY ClientsOK, Numbers DEF TypeInv, UsbhTypeOK
<1>2. /\ ptask.at \notin {"idle", "stopped"} => ptask.event \in PortEvents
      /\ ptask.at \in {"lookup", "alloc", "register"} => ptask.event = "CONNECTION"
    BY DEF TypeInv, PlaceInv
<1>3. ASSUME open_pipes' \in [Slots -> Entry], connect' \in BOOLEAN,
             mutex' \in Clients \cup {PortTask, NoTask}, hcd' \in HcdRecord,
             UNCHANGED <<ptask, bus, portq, num_opened>>,
             DOMAIN client' = Clients, client' = [u \in Clients |-> client'[u]],
             \A u \in Clients : client'[u] = client[u] \/ ClientOK(client'[u])
      PROVE  TypeInv'
    <2>1. Counted'
        BY <1>3 DEF TypeInv, Counted, Connecting
    <2> QED BY <1>1, <1>2, <1>3, <2>1, TypesFrom
\* A step that changes one client and no more than its own places in the table.
<1>4. ASSUME NEW c, ClientOK(c), client' = [client EXCEPT ![t] = c],
             open_pipes' \in [Slots -> Entry], connect' \in BOOLEAN,
             mutex' \in Clients \cup {PortTask, NoTask}, hcd' \in HcdRecord,
             UNCHANGED <<ptask, bus, portq, num_opened>>
      PROVE  TypeInv'
    <2>1. \A u \in Clients : client'[u] = client[u] \/ ClientOK(client'[u])
        BY <1>1, <1>4
    <2>2. DOMAIN client' = Clients /\ client' = [u \in Clients |-> client'[u]]
        BY <1>1, <1>4
    <2> QED BY <1>3, <1>4, <2>1, <2>2
<1>5. ASSUME NEW c, ClientOK(c), client' = [client EXCEPT ![t] = c],
             TableUnchanged, ClientStep
      PROVE  TypeInv'
    BY <1>1, <1>4, <1>5 DEF TableUnchanged, ClientStep, BelowUnchanged
\* A client goes to another place.
<1>6. ASSUME NEW place \in ClientPlaces, client' = [client EXCEPT ![t].at = place],
             place \in AssignPlaces => client[t].at \in AssignPlaces,
             open_pipes' \in [Slots -> Entry], connect' \in BOOLEAN,
             mutex' \in Clients \cup {PortTask, NoTask}, hcd' \in HcdRecord,
             UNCHANGED <<ptask, bus, portq, num_opened>>
      PROVE  TypeInv'
    <2>1. client' = [client EXCEPT ![t] = [client[t] EXCEPT !.at = place]]
        BY <1>1, <1>6
    <2>2. ClientOK([client[t] EXCEPT !.at = place])
        BY <1>1, <1>6 DEF ClientOK, ClientRecord
    <2> QED BY <1>4, <1>6, <2>1, <2>2
<1>7. ASSUME NEW place \in ClientPlaces, Goes(t, place), place \notin AssignPlaces,
             TableUnchanged, ClientStep
      PROVE  TypeInv'
    BY <1>1, <1>6, <1>7 DEF Goes, TableUnchanged, ClientStep, BelowUnchanged
\* A transfer begins.
<1>8. ASSUME NEW p \in Handle, NEW place \in ClientPlaces, Transfer(t, p, place),
             place \in AssignPlaces => client[t].at \in AssignPlaces,
             TableUnchanged, ClientStep
      PROVE  TypeInv'
    <2>1. CASE Stops(t)
        <3>1. client' = [client EXCEPT ![t] = [client[t] EXCEPT !.at = "stopped"]]
            BY <1>1, <2>1 DEF Stops
        <3>2. ClientOK([client[t] EXCEPT !.at = "stopped"])
            BY <1>1 DEF ClientOK, ClientRecord, ClientPlaces, AssignPlaces
        <3> QED BY <1>5, <1>8, <3>1, <3>2
    <2>2. CASE client' = [client EXCEPT ![t] = Begun(@, p, place)]
        <3>1. ClientOK(Begun(client[t], p, place))
            BY <1>1, <1>8 DEF ClientOK, ClientRecord, Begun
        <3>2. client' = [client EXCEPT ![t] = Begun(client[t], p, place)]
            BY <1>1, <2>2
        <3> QED BY <1>5, <1>8, <3>1, <3>2
    <2> QED BY <1>8, <2>1, <2>2 DEF Transfer
<1>9. CASE OpenBegin(t) \/ OpenAgain(t)
    <2>1. PICK place \in {"wait", "search", "open"} : Goes(t, place)
        BY <1>9 DEF OpenBegin, OpenAgain
    <2>2. TableUnchanged /\ ClientStep
        BY <1>9 DEF OpenBegin, OpenAgain
    <2> QED BY <1>7, <2>1, <2>2 DEF ClientPlaces, AssignPlaces
<1>10. CASE OpenWait(t)
    <2>1. PICK place \in {"search", "blocked"} : Goes(t, place)
        BY <1>10 DEF OpenWait
    <2>2. UNCHANGED <<open_pipes, num_opened, mutex, ptask, hcd, bus, portq>> /\ connect' = FALSE
        BY <1>10 DEF OpenWait, ClientStep, BelowUnchanged
    <2> QED BY <1>1, <1>6, <2>1, <2>2 DEF Goes, ClientPlaces, AssignPlaces
<1>11. CASE OpenSearch(t)
    <2> DEFINE d == [client[t] EXCEPT !.at = "found",
                        !.ctrl = open_pipes[Min(NotOpened(t))].pipe, !.ep = NoPipe]
               c == IF NotOpened(t) = {} THEN [client[t] EXCEPT !.at = "open"] ELSE d
    <2>1. client' = [client EXCEPT ![t] = c]
        BY <1>1, <1>11 DEF OpenSearch
    <2>2. NotOpened(t) # {} => open_pipes[Min(NotOpened(t))].pipe \in Handle
        <3>1. NotOpened(t) \in SUBSET (1 .. MAX_PIPES)
            BY Tables DEF NotOpened, Slots
        <3>2. NotOpened(t) # {} => Min(NotOpened(t)) \in Slots
            BY <3>1, MinMax, Numbers DEF Slots
        <3> QED BY <1>1, <3>2 DEF Entry, Handle
    <2>3. ClientOK(c)
        BY <1>1, <2>2 DEF ClientOK, ClientRecord, ClientPlaces, AssignPlaces, Handle
    <2>4. TableUnchanged /\ ClientStep
        BY <1>11 DEF OpenSearch
    <2> HIDE DEF c
    <2> QED BY <1>5, <2>1, <2>3, <2>4
<1>12. CASE OpenFound(t)
    <2>1. client' = [client EXCEPT ![t] = [client[t] EXCEPT !.at = "ready", !.idx = num_opened]]
        BY <1>1, <1>12 DEF OpenFound
    <2>2. ClientOK([client[t] EXCEPT !.at = "ready", !.idx = num_opened])
        BY <1>1 DEF ClientOK, ClientRecord, ClientPlaces, AssignPlaces
    <2>3. TableUnchanged /\ ClientStep
        BY <1>12 DEF OpenFound
    <2> QED BY <1>5, <2>1, <2>2, <2>3
<1>13. CASE XferBegin(t) \/ DescBegin(t)
    <2>1. PICK p \in Handle, place \in {"xfer", "desc"} : Transfer(t, p, place)
        BY <1>1, <1>13 DEF XferBegin, DescBegin, ClientRecord
    <2>2. TableUnchanged /\ ClientStep
        BY <1>13 DEF XferBegin, DescBegin
    <2> QED BY <1>8, <2>1, <2>2 DEF ClientPlaces, AssignPlaces
<1>14. CASE XferEnd(t) \/ DescEnd(t)
    <2>1. PICK place \in {"ready", "desc_lock"} :
              client' = [client EXCEPT ![t] = [client[t] EXCEPT !.at = place, !.on = NoPipe,
                                                                !.result = "none"]]
        BY <1>1, <1>14 DEF XferEnd, DescEnd
    <2>2. ClientOK([client[t] EXCEPT !.at = place, !.on = NoPipe, !.result = "none"])
        BY <1>1, <2>1 DEF ClientOK, ClientRecord, ClientPlaces, AssignPlaces, Handle
    <2>3. TableUnchanged /\ ClientStep
        BY <1>14 DEF XferEnd, DescEnd
    <2> QED BY <1>5, <2>1, <2>2, <2>3
<1>15. CASE DescInfo(t)
    <2>1. TableUnchanged /\ ClientStep
        BY <1>15 DEF DescInfo
    <2>2. CASE ControlSlots = {}
        BY <1>7, <1>15, <2>1, <2>2 DEF DescInfo, Stops, Goes, ClientPlaces, AssignPlaces
    <2>3. CASE ControlSlots # {}
        <3> DEFINE c == [client[t] EXCEPT !.at = "desc_addr", !.slot = Min(ControlSlots)]
        <3>1. client' = [client EXCEPT ![t] = c]
            BY <1>1, <1>15, <2>3 DEF DescInfo
        <3>2. ClientOK(c)
            BY <1>1, <2>3, Tables DEF ClientOK, ClientRecord, ClientPlaces, AssignPlaces
        <3> QED BY <1>5, <2>1, <3>1, <3>2
    <2> QED BY <2>2, <2>3
<1>16. CASE DescAddr(t)
    <2>1. PICK place \in {"ready", "addr_lock"} :
              client' = [client EXCEPT ![t] = [client[t] EXCEPT !.at = place, !.slot = 0]]
        BY <1>1, <1>16 DEF DescAddr
    <2>2. ClientOK([client[t] EXCEPT !.at = place, !.slot = 0])
        BY <1>1, <2>1 DEF ClientOK, ClientRecord, ClientPlaces, AssignPlaces
    <2>3. TableUnchanged /\ ClientStep
        BY <1>16 DEF DescAddr
    <2> QED BY <1>5, <2>1, <2>2, <2>3
<1>17. CASE SetAddr(t)
    <2> DEFINE info == Min(ControlSlots)
    <2>1. UNCHANGED <<num_opened, connect, ptask, hcd, bus, portq>>
        BY <1>17 DEF SetAddr, ClientStep, BelowUnchanged
    <2>2. CASE ControlSlots = {} \/ (open_pipes[info].addr = 0 /\ FreeAddrs = {})
        <3>1. mutex' = t /\ Goes(t, "ready") /\ UNCHANGED open_pipes
            BY <1>17, <2>2 DEF SetAddr
        <3> QED BY <1>1, <1>6, <2>1, <3>1 DEF Goes, ClientPlaces, AssignPlaces
    <2>3. CASE ~(ControlSlots = {} \/ (open_pipes[info].addr = 0 /\ FreeAddrs = {}))
               /\ open_pipes[info].addr # 0
        <3>1. Goes(t, "ready") /\ UNCHANGED <<mutex, open_pipes>>
            BY <1>17, <2>3 DEF SetAddr
        <3> QED BY <1>1, <1>6, <2>1, <3>1 DEF Goes, ClientPlaces, AssignPlaces
    <2>4. CASE ~(ControlSlots = {} \/ (open_pipes[info].addr = 0 /\ FreeAddrs = {}))
               /\ open_pipes[info].addr = 0
        <3> DEFINE a == Min(FreeAddrs)
                   c == [client[t] EXCEPT !.at = "addr_start", !.slot = info, !.addr = a]
        <3>1. info \in Slots /\ a \in Addrs
            BY <2>4, Tables
        <3>2. /\ mutex' = t /\ open_pipes' = [open_pipes EXCEPT ![info].addr = a]
              /\ client' = [client EXCEPT ![t] = c]
            BY <1>1, <1>17, <2>4 DEF SetAddr
        <3>3. open_pipes' \in [Slots -> Entry]
            BY <1>1, <3>1, <3>2 DEF Entry
        <3>4. ClientOK(c)
            BY <1>1, <3>1 DEF ClientOK, ClientRecord, ClientPlaces, AssignPlaces
        <3> HIDE DEF c
        <3> QED BY <1>1, <1>4, <2>1, <3>2, <3>3, <3>4
    <2> QED BY <2>2, <2>3, <2>4
<1>18. CASE SetAddrBegin(t)
    <2>1. client[t].slot \in Slots
        BY <1>1, <1>18 DEF SetAddrBegin, ClientOK, AssignPlaces
    <2>2. open_pipes[client[t].slot].pipe \in Handle
        BY <1>1, <2>1 DEF Entry, Handle
    <2> QED BY <1>8, <1>18, <2>2 DEF SetAddrBegin, ClientPlaces, AssignPlaces
<1>19. CASE SetAddrEnd(t)
    BY <1>1, <1>6, <1>19 DEF SetAddrEnd, Ended, Goes, ClientPlaces, AssignPlaces, TableUnchanged,
       ClientStep, BelowUnchanged
<1>20. CASE SetAddrUpdate(t)
    <2> DEFINE c == [client[t] EXCEPT !.at = "ready", !.on = NoPipe, !.slot = 0, !.addr = 0,
                                      !.result = "none"]
    <2>1. client' = [client EXCEPT ![t] = c]
        BY <1>1, <1>20 DEF SetAddrUpdate
    <2>2. ClientOK(c)
        BY <1>1, Numbers DEF ClientOK, ClientRecord, ClientPlaces, AssignPlaces, Handle
    <2>3. UNCHANGED <<num_opened, connect, ptask, bus, portq>> /\ mutex' = NoTask
        BY <1>20 DEF SetAddrUpdate
    <2>4. open_pipes' \in [Slots -> Entry]
        <3>1. client[t].slot \in Slots
            BY <1>1, <1>20 DEF SetAddrUpdate, ClientOK, AssignPlaces
        <3>2. [open_pipes[client[t].slot] EXCEPT !.addr = 0] \in Entry
            BY <1>1, <3>1, Numbers DEF Entry
        <3>3. \/ open_pipes' = open_pipes
              \/ open_pipes' = [open_pipes EXCEPT ![client[t].slot] =
                                    [open_pipes[client[t].slot] EXCEPT !.addr = 0]]
            BY <1>1, <1>20, <3>1 DEF SetAddrUpdate
        <3> QED BY <1>1, <3>2, <3>3
    <2>5. hcd' \in HcdRecord
        <3>1. client[t].addr \in Addrs
            BY <1>1 DEF ClientOK, ClientRecord
        <3>2. Update(client[t].on, client[t].addr)
            BY <1>20 DEF SetAddrUpdate
        <3>3. client[t].on \in Handle
            BY <1>1 DEF ClientOK, ClientRecord
        <3> QED BY <3>1, <3>2, <3>3, UpdateTyped
    <2> HIDE DEF c
    <2> QED BY <1>1, <1>4, <2>1, <2>2, <2>3, <2>4, <2>5
<1>21. CASE EpLookup(t)
    <2>1. PICK a \in Addrs :
              client' = [client EXCEPT ![t] = [client[t] EXCEPT !.at = "ep_alloc", !.addr = a]]
        BY <1>1, <1>21 DEF EpLookup, InfoOf, Entry
    <2>2. ClientOK([client[t] EXCEPT !.at = "ep_alloc", !.addr = a])
        BY <1>1, <2>1 DEF ClientOK, ClientRecord, ClientPlaces, AssignPlaces
    <2>3. TableUnchanged /\ ClientStep
        BY <1>21 DEF EpLookup
    <2> QED BY <1>5, <2>1, <2>2, <2>3
<1>22. CASE EpAlloc(t)
    <2>1. UNCHANGED <<open_pipes, num_opened, connect, mutex, ptask, bus, portq>>
        BY <1>22 DEF EpAlloc, TableUnchanged
    <2>2. client[t].addr \in Addrs /\ client[t].at = "ep_alloc"
        BY <1>1, <1>22 DEF ClientOK, ClientRecord, EpAlloc
    <2>3. CASE CanAlloc
        <3>1. PICK p \in Pipes :
                  /\ NewPipe(p, client[t].addr)
                  /\ client' = [client EXCEPT ![t] = [client[t] EXCEPT !.at = "ep_reg", !.on = p]]
            BY <1>22, <2>3 DEF EpAlloc
        <3>2. ClientOK([client[t] EXCEPT !.at = "ep_reg", !.on = p])
            BY <1>1, <3>1 DEF ClientOK, ClientRecord, ClientPlaces, AssignPlaces, Handle
        <3>3. hcd' \in HcdRecord
            BY <2>2, <3>1, NewPipeTyped
        <3> QED BY <1>1, <1>4, <2>1, <3>1, <3>2, <3>3
    <2>4. CASE ~CanAlloc
        <3>1. /\ client' = [client EXCEPT ![t] = [client[t] EXCEPT !.at = "ready", !.addr = 0]]
              /\ UNCHANGED hcd
            BY <1>22, <2>4 DEF EpAlloc
        <3>2. ClientOK([client[t] EXCEPT !.at = "ready", !.addr = 0])
            BY <1>1, Numbers DEF ClientOK, ClientRecord, ClientPlaces, AssignPlaces
        <3> QED BY <1>1, <1>4, <2>1, <3>1, <3>2
    <2> QED BY <2>3, <2>4
<1>23. CASE EpRegister(t)
    <2> DEFINE c == [client[t] EXCEPT !.at = "ready", !.on = NoPipe, !.addr = 0,
                        !.ep = IF FreeSlots = {} THEN NoPipe ELSE client[t].on]
    <2>1. client' = [client EXCEPT ![t] = c]
        BY <1>23 DEF EpRegister
    <2>2. ClientOK(c)
        BY <1>1, Numbers DEF ClientOK, ClientRecord, ClientPlaces, AssignPlaces, Handle
    <2>3. UNCHANGED <<connect, mutex, ptask, hcd, bus, portq>>
        BY <1>23 DEF EpRegister, ClientStep, BelowUnchanged
    <2>4. open_pipes' \in [Slots -> Entry] /\ num_opened' = num_opened
        <3>1. CASE FreeSlots = {}
            BY <1>1, <1>23, <3>1 DEF EpRegister
        <3>2. CASE FreeSlots # {}
            <4>1. Registered(client[t].on, FALSE, client[t].addr)
                BY <1>23, <3>2 DEF EpRegister
            <4>2. client[t].on \in Handle /\ client[t].addr \in Addrs
                BY <1>1 DEF ClientOK, ClientRecord
            <4> QED BY <3>2, <4>1, <4>2, RegisteredTyped
        <3> QED BY <3>1, <3>2
    <2> HIDE DEF c
    <2> QED BY <1>1, <1>4, <2>1, <2>2, <2>3, <2>4
<1>24. CASE EpClose(t)
    <2> DEFINE p == client[t].ep
    <2>1. UNCHANGED <<num_opened, connect, mutex, ptask, bus, portq>>
        BY <1>24 DEF EpClose
    <2>2. CASE Freed(p)
        <3>1. Stops(t) /\ UNCHANGED <<hcd, open_pipes>>
            BY <1>24, <2>2 DEF EpClose
        <3> QED BY <1>1, <1>6, <2>1, <3>1 DEF Stops, ClientPlaces, AssignPlaces
    <2>3. CASE ~Freed(p) /\ CanClose(p)
        <3>1. /\ FreePipes({p}) /\ open_pipes' = Cleared(InfoOf(p))
              /\ client' = [client EXCEPT ![t].ep = NoPipe]
            BY <1>24, <2>3 DEF EpClose
        <3>2. client' = [client EXCEPT ![t] = [client[t] EXCEPT !.ep = NoPipe]]
            BY <1>1, <3>1
        <3>3. ClientOK([client[t] EXCEPT !.ep = NoPipe])
            BY <1>1 DEF ClientOK, ClientRecord, AssignPlaces, Handle
        <3>4. open_pipes' \in [Slots -> Entry]
            BY <1>1, <3>1, Tables DEF Cleared
        <3>5. hcd' \in HcdRecord
            <4>1. [q \in Pipes |-> IF q \in {p} THEN [state |-> "FREE", addr |-> 0]
                                   ELSE hcd.pipe[q]]
                     \in [Pipes -> [state : {"FREE", "ACTIVE", "INVALID"}, addr : Addrs]]
                BY <1>1, Numbers DEF HcdRecord
            <4> QED BY <1>1, <3>1, <4>1 DEF FreePipes, HcdRecord
        <3> QED BY <1>1, <1>4, <2>1, <3>2, <3>3, <3>4, <3>5
    <2>4. CASE ~Freed(p) /\ ~CanClose(p)
        <3>1. UNCHANGED <<hcd, open_pipes, client>>
            BY <1>24, <2>4 DEF EpClose
        <3> QED BY <1>1, <1>3, <2>1, <3>1, ClientsOK
    <2> QED BY <2>2, <2>3, <2>4
<1>25. CASE DeviceClose(t)
    <2>1. UNCHANGED <<num_opened, connect, mutex, ptask, bus, portq>>
        BY <1>25 DEF DeviceClose
    <2>2. open_pipes' \in [Slots -> Entry] /\ hcd' \in HcdRecord
        BY <1>25, CloseTyped DEF DeviceClose
    <2> DEFINE told == [u \in Clients |-> Told(client[u], ClosedPipes)]
    <2>3. client' = [told EXCEPT ![t] = [told[t] EXCEPT !.at = "open", !.ctrl = NoPipe,
                                                        !.ep = NoPipe]]
        BY <1>25 DEF DeviceClose
    <2>4. \A u \in Clients : ClientOK(told[u])
        BY ToldTyped
    <2>5. ClientOK([told[t] EXCEPT !.at = "open", !.ctrl = NoPipe, !.ep = NoPipe])
        <3> HIDE DEF told
        <3> QED BY <2>4 DEF ClientOK, ClientRecord, ClientPlaces, AssignPlaces, Handle
    <2>6. \A u \in Clients : client'[u] = client[u] \/ ClientOK(client'[u])
        BY <2>3, <2>4, <2>5
    <2>7. DOMAIN client' = Clients /\ client' = [u \in Clients |-> client'[u]]
        BY <2>3
    <2> HIDE DEF told
    <2> QED BY <1>1, <1>3, <2>1, <2>2, <2>6, <2>7
<1> QED BY <1>9, <1>10, <1>11, <1>12, <1>13, <1>14, <1>15, <1>16, <1>17, <1>18, <1>19, <1>20,
           <1>21, <1>22, <1>23, <1>24, <1>25 DEF ClientCall, ClientNext

\* The types hold whatever goes wrong on the bus, and with no rule at all.
THEOREM TypesKept == UsbhSpec => []TypeInv
<1>1. UsbhInit => TypeInv
    <2> SUFFICES ASSUME UsbhInit
                 PROVE  TypeInv
        OBVIOUS
    <2>1. UsbhTypeOK
        <3>1. Empty \in Entry /\ Idle \in TaskRecord /\ NewClient \in ClientRecord
              /\ PoweredPort \in HcdRecord
            BY Numbers DEF Empty, Entry, Idle, TaskRecord, NewClient, ClientRecord, PoweredPort,
               HcdRecord, PortStates, Handle, ClientPlaces
        <3>2. <<>> \in Seq(PortEvents) /\ 0 \in 0 .. MaxConnections
            BY Numbers
        <3> QED BY <3>1, <3>2, Numbers DEF UsbhInit, UsbhTypeOK
    <2>2. Cardinality(ConnectionsIn(portq)) = 0
        <3>1. ConnectionsIn(<<>>) = {}
            BY DEF ConnectionsIn
        <3> QED BY <3>1, FS_EmptySet DEF UsbhInit
    <2>3. Counted
        BY <2>2 DEF UsbhInit, Counted, Connecting, Idle
    <2>4. PlaceInv
        BY DEF UsbhInit, PlaceInv, Idle, NewClient
    <2> QED BY <2>1, <2>3, <2>4 DEF TypeInv
<1>2. TypeInv /\ [UsbhNext]_usbhVars => TypeInv'
    <2> SUFFICES ASSUME TypeInv, [UsbhNext]_usbhVars
                 PROVE  TypeInv'
        OBVIOUS
    <2>1. CASE UNCHANGED usbhVars
        BY <2>1 DEF usbhVars, TypeInv, UsbhTypeOK, Counted, Connecting, PlaceInv
    <2> QED BY <2>1, BusTyped, PortTyped, ClientTyped DEF UsbhNext
<1> QED BY <1>1, <1>2, PTL DEF UsbhSpec

\* Every reachable state has the types of UsbhTypeOK, whatever goes wrong on the bus and
\* whichever rules the clients keep.
THEOREM DeviceTypeCorrect == UsbhSpec => []UsbhTypeOK
<1>1. TypeInv => UsbhTypeOK
    BY DEF TypeInv
<1> QED BY <1>1, TypesKept, PTL

-----------------------------------------------------------------------------
(* The table of open pipes *)

\* Where an allocated pipe is: in the table, or in the hands of a task that has allocated it
\* and is about to enter it.
InTable(p) == \E i \in Slots : open_pipes[i].pipe = p
AtPort(p) == ptask.at = "register" /\ ptask.pipe = p
AtClient(t, p) == client[t].at = "ep_reg" /\ client[t].on = p

\* It is in one of these places, and the endpoint of a client that keeps rule "own" is in
\* the table and its own.
TableInv ==
    /\ \A p \in Pipes : ~Freed(p) <=> InTable(p) \/ AtPort(p) \/ \E t \in Clients : AtClient(t, p)
    /\ \A i, j \in Slots :
          open_pipes[i].pipe = open_pipes[j].pipe /\ open_pipes[i].pipe # NoPipe => i = j
    /\ \A i \in Slots : open_pipes[i].pipe = NoPipe => open_pipes[i] = Empty
    /\ \A p \in Pipes : AtPort(p) => ~InTable(p) /\ \A t \in Clients : ~AtClient(t, p)
    /\ \A p \in Pipes, t \in Clients : AtClient(t, p) => ~InTable(p)
    /\ \A p \in Pipes, t, u \in Clients : AtClient(t, p) /\ AtClient(u, p) => t = u
    /\ ptask.at = "register" => ptask.pipe \in Pipes
    /\ \A t \in Clients : client[t].at = "ep_reg" => client[t].on \in Pipes
    /\ \A t \in Clients : client[t].ep # NoPipe => InTable(client[t].ep)
    /\ \A t, u \in Clients : client[t].ep = client[u].ep /\ client[t].ep # NoPipe => t = u

\* What a step leaves as it is.
PipesKept == \A p \in Pipes : Freed(p)' <=> Freed(p)
SlotsKept ==
    \A i \in Slots : /\ open_pipes'[i].pipe = open_pipes[i].pipe
                     /\ open_pipes[i].pipe = NoPipe => open_pipes'[i] = open_pipes[i]
PortKept ==
    /\ ptask'.at = "register" <=> ptask.at = "register"
    /\ ptask.at = "register" => ptask'.pipe = ptask.pipe
PlaceKept(t) ==
    /\ client'[t].at = "ep_reg" <=> client[t].at = "ep_reg"
    /\ client[t].at = "ep_reg" => client'[t].on = client[t].on
ClientKept(t) == PlaceKept(t) /\ client'[t].ep \in {client[t].ep, NoPipe}
ClientsKept == \A t \in Clients : ClientKept(t)

\* A step that leaves pipes, slots, port task and clients where they are keeps the table.
LEMMA TableKept ==
    ASSUME TypeInv, TableInv, PipesKept, SlotsKept, PortKept, ClientsKept
    PROVE  TableInv'
<1>1. \A p \in Pipes : InTable(p)' <=> InTable(p)
    BY DEF SlotsKept, InTable
<1>2. \A p \in Pipes : AtPort(p)' <=> AtPort(p)
    BY DEF PortKept, AtPort
<1>3. \A p \in Pipes, t \in Clients : AtClient(t, p)' <=> AtClient(t, p)
    BY DEF ClientsKept, ClientKept, PlaceKept, AtClient
<1>4. \A p \in Pipes : Freed(p)' <=> Freed(p)
    BY DEF PipesKept
<1>5. /\ \A i, j \in Slots :
             open_pipes'[i].pipe = open_pipes'[j].pipe /\ open_pipes'[i].pipe # NoPipe => i = j
      /\ \A i \in Slots : open_pipes'[i].pipe = NoPipe => open_pipes'[i] = Empty
    BY DEF SlotsKept, TableInv
<1>6. /\ ptask'.at = "register" => ptask'.pipe \in Pipes
      /\ \A t \in Clients : client'[t].at = "ep_reg" => client'[t].on \in Pipes
    BY DEF PortKept, ClientsKept, ClientKept, PlaceKept, TableInv
<1>7. /\ \A t \in Clients : client'[t].ep # NoPipe => InTable(client[t].ep)'
      /\ \A t, u \in Clients : client'[t].ep = client'[u].ep /\ client'[t].ep # NoPipe => t = u
    <2>1. \A t \in Clients : client[t].ep # NoPipe => client[t].ep \in Pipes
        BY DEF TypeInv, UsbhTypeOK, ClientRecord, Handle
    <2>2. \A t \in Clients : client'[t].ep # NoPipe => client'[t].ep = client[t].ep
        BY DEF ClientsKept, ClientKept
    <2>3. \A t \in Clients : client'[t].ep # NoPipe => InTable(client[t].ep)'
        <3> SUFFICES ASSUME NEW t \in Clients, client'[t].ep # NoPipe
                     PROVE  InTable(client[t].ep)'
            OBVIOUS
        <3>1. \E i \in Slots : open_pipes[i].pipe = client[t].ep
            BY <2>2 DEF TableInv, InTable
        <3>2. \E i \in Slots : open_pipes'[i].pipe = client'[t].ep
            BY <2>2, <3>1 DEF SlotsKept
        <3> QED BY <3>2 DEF InTable
    <2>4. \A t, u \in Clients : client'[t].ep = client'[u].ep /\ client'[t].ep # NoPipe => t = u
        BY <2>2 DEF TableInv
    <2> QED BY <2>3, <2>4
<1>8. /\ \A p \in Pipes :
             ~Freed(p)' <=> InTable(p)' \/ AtPort(p)' \/ \E t \in Clients : AtClient(t, p)'
      /\ \A p \in Pipes : AtPort(p)' => ~InTable(p)' /\ \A t \in Clients : ~AtClient(t, p)'
      /\ \A p \in Pipes, t \in Clients : AtClient(t, p)' => ~InTable(p)'
      /\ \A p \in Pipes, t, u \in Clients : AtClient(t, p)' /\ AtClient(u, p)' => t = u
    BY <1>1, <1>2, <1>3, <1>4 DEF TableInv
<1> QED BY <1>5, <1>6, <1>7, <1>8 DEF TableInv

\* There is a slot for every pipe that is not in the table, for there are no more channels
\* than slots.
LEMMA SlotLeft ==
    ASSUME TypeInv, TableInv, NEW p \in Pipes, ~InTable(p)
    PROVE  FreeSlots # {} /\ Max(FreeSlots) \in Slots /\ open_pipes[Max(FreeSlots)].pipe = NoPipe
<1> DEFINE f == [i \in Slots |-> open_pipes[i].pipe]
<1>1. FreeSlots # {}
    <2> SUFFICES ASSUME FreeSlots = {}
                 PROVE  FALSE
        OBVIOUS
    <2>1. \A i \in Slots : open_pipes[i].pipe \in Pipes \ {p}
        BY DEF FreeSlots, Used, InTable, TypeInv, UsbhTypeOK, Entry
    <2>2. f \in [Slots -> Pipes \ {p}]
        BY <2>1
    <2>3. \A i, j \in Slots : f[i] = f[j] => i = j
        BY <2>1, Numbers DEF TableInv
    <2>4. f \in Injection(Slots, Pipes \ {p})
        <3> HIDE DEF f
        <3> QED BY <2>2, <2>3, Fun_IsInj
    <2>5. IsFiniteSet(Pipes) /\ Cardinality(Pipes) <= MAX_PIPES
        BY UsbhAssumption
    <2>6. /\ IsFiniteSet(Pipes \ {p})
          /\ Cardinality(Pipes \ {p}) = Cardinality(Pipes) - 1
          /\ Cardinality(Pipes) \in Nat
        BY <2>5, FS_RemoveElement, FS_CardinalityType
    <2>7. Cardinality(Slots) = MAX_PIPES /\ MAX_PIPES \in Nat
        BY Numbers, FS_Interval DEF Slots
    <2>8. Cardinality(Slots) <= Cardinality(Pipes \ {p})
        BY <2>4, <2>6, FS_Injection
    <2> QED BY <2>5, <2>6, <2>7, <2>8
<1>2. Max(FreeSlots) \in FreeSlots
    BY <1>1, Tables
<1> QED BY <1>1, <1>2 DEF FreeSlots, Used

\* A pipe enters the table.
LEMMA Enters ==
    ASSUME TypeInv, TableInv, NEW p \in Pipes, NEW control, NEW a,
           FreeSlots # {} => Registered(p, control, a),
           PipesKept,
           AtPort(p) \/ \E t \in Clients : AtClient(t, p)
    PROVE  /\ FreeSlots # {}
           /\ \A q \in Pipes : InTable(q)' <=> InTable(q) \/ q = p
           /\ \A i, j \in Slots :
                 open_pipes'[i].pipe = open_pipes'[j].pipe /\ open_pipes'[i].pipe # NoPipe => i = j
           /\ \A i \in Slots : open_pipes'[i].pipe = NoPipe => open_pipes'[i] = Empty
<1>1. ~InTable(p)
    BY DEF TableInv
<1> DEFINE k == Max(FreeSlots)
<1>2. FreeSlots # {} /\ k \in Slots /\ open_pipes[k].pipe = NoPipe
    BY <1>1, SlotLeft
<1>3. /\ open_pipes'[k].pipe = p
      /\ \A i \in Slots : i # k => open_pipes'[i] = open_pipes[i]
    BY <1>2 DEF Registered, TypeInv, UsbhTypeOK
<1> HIDE DEF k
<1>4. p # NoPipe
    BY Numbers
<1>5. \A q \in Pipes : InTable(q)' <=> InTable(q) \/ q = p
    BY <1>2, <1>3, Numbers DEF InTable
<1>6. /\ \A i, j \in Slots :
             open_pipes'[i].pipe = open_pipes'[j].pipe /\ open_pipes'[i].pipe # NoPipe => i = j
      /\ \A i \in Slots : open_pipes'[i].pipe = NoPipe => open_pipes'[i] = Empty
    BY <1>1, <1>2, <1>3, <1>4 DEF TableInv, InTable
<1> QED BY <1>2, <1>5, <1>6

\* Entries leave the table together with their pipes, and nobody keeps an endpoint of theirs.
LEMMA Leaves ==
    ASSUME TypeInv, TableInv, NEW S \in SUBSET Used, NEW P,
           P = {open_pipes[i].pipe : i \in S},
           open_pipes' = Cleared(S), FreePipes(P), PortKept, ClientsKept,
           \A t \in Clients : client'[t].ep \notin P
    PROVE  TableInv'
<1>1. \A i \in Slots : /\ i \in S => open_pipes'[i] = Empty
                       /\ i \notin S => open_pipes'[i] = open_pipes[i]
    BY DEF Cleared
<1>2. Empty.pipe = NoPipe
    BY DEF Empty
<1>3. S \subseteq Slots /\ P \subseteq Pipes
    BY DEF Used, TypeInv, UsbhTypeOK, Entry
<1>4. \A i \in Slots : open_pipes[i].pipe \in P <=> i \in S
    <2>1. \A i \in S : open_pipes[i].pipe # NoPipe
        BY DEF Used
    <2>2. ASSUME NEW i \in Slots, open_pipes[i].pipe \in P
          PROVE  i \in S
        <3>1. PICK j \in S : open_pipes[i].pipe = open_pipes[j].pipe
            BY <2>2
        <3> QED BY <1>3, <2>1, <3>1 DEF TableInv
    <2> QED BY <2>2
<1>5. \A p \in Pipes : InTable(p)' <=> InTable(p) /\ p \notin P
    BY <1>1, <1>2, <1>4, Numbers DEF InTable
<1>6. \A p \in Pipes : Freed(p)' <=> Freed(p) \/ p \in P
    BY DEF FreePipes, Freed, TypeInv, UsbhTypeOK, HcdRecord
<1>7. \A p \in P : InTable(p)
    BY <1>3 DEF InTable
<1>8. \A p \in Pipes : AtPort(p)' <=> AtPort(p)
    BY DEF PortKept, AtPort
<1>9. \A p \in Pipes, t \in Clients : AtClient(t, p)' <=> AtClient(t, p)
    BY DEF ClientsKept, ClientKept, PlaceKept, AtClient
<1>10. /\ \A i, j \in Slots :
              open_pipes'[i].pipe = open_pipes'[j].pipe /\ open_pipes'[i].pipe # NoPipe => i = j
       /\ \A i \in Slots : open_pipes'[i].pipe = NoPipe => open_pipes'[i] = Empty
    BY <1>1, <1>2 DEF TableInv
<1>11. /\ ptask'.at = "register" => ptask'.pipe \in Pipes
       /\ \A t \in Clients : client'[t].at = "ep_reg" => client'[t].on \in Pipes
    BY DEF PortKept, ClientsKept, ClientKept, PlaceKept, TableInv
<1>12. /\ \A t \in Clients : client'[t].ep # NoPipe => InTable(client[t].ep)'
       /\ \A t, u \in Clients : client'[t].ep = client'[u].ep /\ client'[t].ep # NoPipe => t = u
    <2>1. \A t \in Clients : client'[t].ep # NoPipe => client'[t].ep = client[t].ep
        BY DEF ClientsKept, ClientKept
    <2>2. ASSUME NEW t \in Clients, client'[t].ep # NoPipe
          PROVE  InTable(client[t].ep)'
        <3>1. PICK i \in Slots : open_pipes[i].pipe = client[t].ep
            BY <2>1, <2>2 DEF TableInv, InTable
        <3>2. i \notin S
            BY <1>4, <2>1, <2>2, <3>1
        <3>3. open_pipes'[i].pipe = client'[t].ep
            BY <1>1, <2>1, <2>2, <3>1, <3>2
        <3> QED BY <3>3 DEF InTable
    <2>3. \A t, u \in Clients : client'[t].ep = client'[u].ep /\ client'[t].ep # NoPipe => t = u
        BY <2>1 DEF TableInv
    <2> QED BY <2>2, <2>3
<1>13. \A p \in P : ~AtPort(p) /\ \A t \in Clients : ~AtClient(t, p)
    BY <1>3, <1>7 DEF TableInv
<1>14. /\ \A p \in Pipes :
              ~Freed(p)' <=> InTable(p)' \/ AtPort(p)' \/ \E t \in Clients : AtClient(t, p)'
       /\ \A p \in Pipes : AtPort(p)' => ~InTable(p)' /\ \A t \in Clients : ~AtClient(t, p)'
       /\ \A p \in Pipes, t \in Clients : AtClient(t, p)' => ~InTable(p)'
       /\ \A p \in Pipes, t, u \in Clients : AtClient(t, p)' /\ AtClient(u, p)' => t = u
    BY <1>5, <1>6, <1>8, <1>9, <1>13 DEF TableInv
<1> QED BY <1>10, <1>11, <1>12, <1>14 DEF TableInv

\* A device is closed, and its clients keep the rule "own".
LEMMA CloseTable ==
    ASSUME TypeInv, TableInv, "own" \in Rules, CloseDevice, PortKept,
           \A t \in Clients : PlaceKept(t) /\ client'[t].ep \in {Told(client[t], ClosedPipes).ep, NoPipe}
    PROVE  TableInv'
<1>1. Closed \in SUBSET Used /\ ClosedPipes \subseteq Pipes
    BY DEF Closed, ClosedPipes, Used, TypeInv, UsbhTypeOK, Entry
<1>2. \A t \in Clients : client'[t].ep \in {client[t].ep, NoPipe} /\ client'[t].ep \notin ClosedPipes
    <2> SUFFICES ASSUME NEW t \in Clients
                 PROVE  client'[t].ep \in {client[t].ep, NoPipe} /\ client'[t].ep \notin ClosedPipes
        OBVIOUS
    <2>1. Told(client[t], ClosedPipes).ep = Valid(client[t].ep, ClosedPipes)
        BY DEF Told, TypeInv, UsbhTypeOK, ClientRecord
    <2> QED BY <1>1, <2>1, Numbers DEF Valid
<1>3. ClientsKept
    BY <1>2 DEF ClientsKept, ClientKept
<1> QED BY <1>1, <1>2, <1>3, Leaves DEF CloseDevice, ClosedPipes

\* The bus keeps the table.
LEMMA BusTable ==
    ASSUME TypeInv, TableInv, BusNext
    PROVE  TableInv'
<1>1. hcd \in HcdRecord /\ client \in [Clients -> ClientRecord]
    BY DEF TypeInv, UsbhTypeOK
<1>2. SlotsKept /\ PortKept
    <2>1. UNCHANGED <<open_pipes, ptask>>
        BY DEF BusNext, Plug, Unplug, IsrConnection, IsrDisconnection, IsrError, TransferOk,
           TransferError, BusStep, TableUnchanged
    <2> QED BY <2>1 DEF SlotsKept, PortKept
<1>3. PipesKept
    <2>1. hcd'.pipe = hcd.pipe
        BY <1>1 DEF BusNext, Plug, Unplug, IsrConnection, IsrDisconnection, IsrError, TransferOk,
           TransferError, BelowUnchanged, Event, HcdRecord
    <2> QED BY <2>1 DEF PipesKept, Freed
<1>4. ClientsKept
    <2>1. \/ client' = client
          \/ \E t \in Clients, r \in {"ok", "error"} : client' = [client EXCEPT ![t].result = r]
        BY DEF BusNext, Plug, Unplug, IsrConnection, IsrDisconnection, IsrError, TransferOk,
           TransferError, BusStep
    <2> QED BY <1>1, <2>1 DEF ClientsKept, ClientKept, PlaceKept, ClientRecord
<1> QED BY <1>2, <1>3, <1>4, TableKept

\* Every step of the port event task keeps the table.
LEMMA PortTable ==
    ASSUME TypeInv, TableInv, "own" \in Rules, PortNext
    PROVE  TableInv'
<1>1. /\ hcd \in HcdRecord /\ client \in [Clients -> ClientRecord] /\ ptask \in TaskRecord
      /\ open_pipes \in [Slots -> Entry]
    BY DEF TypeInv, UsbhTypeOK
<1>2. ASSUME UNCHANGED open_pipes
      PROVE  SlotsKept
    BY <1>2 DEF SlotsKept
<1>3. ASSUME UNCHANGED client
      PROVE  ClientsKept
    BY <1>3 DEF ClientsKept, ClientKept, PlaceKept
<1>4. ASSUME hcd'.pipe = hcd.pipe
      PROVE  PipesKept
    BY <1>4 DEF PipesKept, Freed
<1>5. ASSUME ptask'.at # "register", ptask.at # "register"
      PROVE  PortKept
    BY <1>5 DEF PortKept
<1>6. CASE PortReceive \/ PortFind \/ PortReset \/ PortLookup \/ PortSudden \/ PortOff
           \/ PortRecover \/ PortOn
    <2>1. UNCHANGED <<open_pipes, client>>
        BY <1>6 DEF PortReceive, PortFind, PortReset, PortLookup, PortSudden, PortOff, PortRecover,
           PortOn, TableUnchanged
    <2>2. ptask'.at # "register" /\ ptask.at # "register"
        BY <1>1, <1>6 DEF PortReceive, PortFind, PortReset, PortLookup, PortSudden, PortOff,
           PortRecover, PortOn, PortGoes, PortStops, TaskRecord, Idle
    <2>3. hcd'.pipe = hcd.pipe
        BY <1>1, <1>6 DEF PortReceive, PortFind, PortReset, PortLookup, PortSudden, PortOff,
           PortRecover, PortOn, BelowUnchanged, ResetPort, Enables, HcdRecord
    <2> QED BY <1>2, <1>3, <1>4, <1>5, <2>1, <2>2, <2>3, TableKept
<1>7. CASE PortHandle
    <2>1. UNCHANGED open_pipes /\ ptask'.at # "register" /\ ptask.at # "register"
        <3>1. ptask.at = "handle" /\ ptask.event \in PortEvents
            BY <1>7 DEF PortHandle, TypeInv, PlaceInv
        <3> QED BY <1>1, <1>7, <3>1 DEF PortHandle, PortGoes, TaskRecord, TableUnchanged, PortEvents
    <2>2. PipesKept
        <3>1. CASE HandleLoss
            BY <1>1, <3>1 DEF HandleLoss, Invalidated, PipesKept, Freed, HcdRecord
        <3>2. CASE HandleConnection
            BY <1>1, <1>4, <3>2 DEF HandleConnection, Debounced, HcdRecord
        <3> QED BY <1>4, <1>7, <3>1, <3>2 DEF PortHandle, HandleNothing
    <2>3. ClientsKept
        <3>1. CASE HandleLoss
            BY <1>1, <3>1 DEF HandleLoss, ClientsKept, ClientKept, PlaceKept, ClientRecord
        <3> QED BY <1>3, <1>7, <3>1 DEF PortHandle, HandleConnection, HandleNothing
    <2> QED BY <1>2, <1>5, <2>1, <2>2, <2>3, TableKept
<1>8. CASE PortAlloc
    <2>1. UNCHANGED <<open_pipes, client>> /\ ptask.at = "alloc"
        BY <1>8 DEF PortAlloc, TableUnchanged
    <2>2. CASE ~CanAlloc
        <3>1. UNCHANGED hcd /\ ptask'.at # "register"
            BY <1>1, <1>8, <2>2 DEF PortAlloc, PortGoes, TaskRecord
        <3> QED BY <1>2, <1>3, <1>4, <1>5, <2>1, <3>1, TableKept
    <2>3. CASE CanAlloc
        <3>1. PICK p \in Pipes : /\ Freed(p) /\ NewPipe(p, 0)
                                 /\ ptask' = [ptask EXCEPT !.at = "register", !.pipe = p]
            BY <1>8, <2>3 DEF PortAlloc
        <3>2. ptask'.at = "register" /\ ptask'.pipe = p
            BY <1>1, <3>1 DEF TaskRecord
        <3>3. \A q \in Pipes : Freed(q)' <=> Freed(q) /\ q # p
            BY <1>1, <3>1 DEF NewPipe, Freed, HcdRecord
        <3>4. \A q \in Pipes : /\ InTable(q)' <=> InTable(q)
                               /\ ~AtPort(q)
                               /\ AtPort(q)' <=> q = p
                               /\ \A t \in Clients : AtClient(t, q)' <=> AtClient(t, q)
            BY <2>1, <3>2 DEF InTable, AtPort, AtClient
        <3>5. ~InTable(p) /\ \A t \in Clients : ~AtClient(t, p)
            BY <3>1 DEF TableInv
        <3>6. /\ \A q \in Pipes :
                     ~Freed(q)' <=> InTable(q)' \/ AtPort(q)' \/ \E t \in Clients : AtClient(t, q)'
              /\ \A q \in Pipes : AtPort(q)' => ~InTable(q)' /\ \A t \in Clients : ~AtClient(t, q)'
              /\ \A q \in Pipes, t \in Clients : AtClient(t, q)' => ~InTable(q)'
              /\ \A q \in Pipes, t, u \in Clients : AtClient(t, q)' /\ AtClient(u, q)' => t = u
            BY <3>3, <3>4, <3>5 DEF TableInv
        <3>7. /\ \A i, j \in Slots : open_pipes'[i].pipe = open_pipes'[j].pipe
                                        /\ open_pipes'[i].pipe # NoPipe => i = j
              /\ \A i \in Slots : open_pipes'[i].pipe = NoPipe => open_pipes'[i] = Empty
              /\ \A t \in Clients : client'[t].at = "ep_reg" => client'[t].on \in Pipes
              /\ \A t \in Clients : client'[t].ep # NoPipe => InTable(client[t].ep)'
              /\ \A t, u \in Clients : client'[t].ep = client'[u].ep /\ client'[t].ep # NoPipe => t = u
            BY <2>1 DEF TableInv, InTable
        <3> QED BY <3>2, <3>6, <3>7 DEF TableInv
    <2> QED BY <2>2, <2>3
<1>9. CASE PortRegister
    <2> DEFINE p == ptask.pipe
    <2>1. UNCHANGED <<hcd, client>> /\ ptask.at = "register" /\ ptask'.at = "connect"
        BY <1>1, <1>9 DEF PortRegister, BelowUnchanged, TaskRecord
    <2>2. p \in Pipes /\ AtPort(p) /\ ~InTable(p) /\ (\A t \in Clients : ~AtClient(t, p))
              /\ \A q \in Pipes : AtPort(q) <=> q = p
        BY <2>1 DEF TableInv, AtPort
    <2>3. FreeSlots # {} => Registered(p, TRUE, 0)
        BY <1>9 DEF PortRegister
    <2>4. PipesKept
        BY <1>4, <2>1
    <2> HIDE DEF p
    <2>5. /\ \A q \in Pipes : InTable(q)' <=> InTable(q) \/ q = p
          /\ \A i, j \in Slots :
                open_pipes'[i].pipe = open_pipes'[j].pipe /\ open_pipes'[i].pipe # NoPipe => i = j
          /\ \A i \in Slots : open_pipes'[i].pipe = NoPipe => open_pipes'[i] = Empty
        BY <2>2, <2>3, <2>4, Enters
    <2>6. \A q \in Pipes : /\ ~AtPort(q)'
                           /\ \A t \in Clients : AtClient(t, q)' <=> AtClient(t, q)
                           /\ Freed(q)' <=> Freed(q)
        BY <2>1 DEF AtPort, AtClient, Freed
    <2>7. /\ \A q \in Pipes :
                 ~Freed(q)' <=> InTable(q)' \/ AtPort(q)' \/ \E t \in Clients : AtClient(t, q)'
          /\ \A q \in Pipes : AtPort(q)' => ~InTable(q)' /\ \A t \in Clients : ~AtClient(t, q)'
          /\ \A q \in Pipes, t \in Clients : AtClient(t, q)' => ~InTable(q)'
          /\ \A q \in Pipes, t, u \in Clients : AtClient(t, q)' /\ AtClient(u, q)' => t = u
        BY <2>2, <2>5, <2>6 DEF TableInv
    <2>8. /\ \A t \in Clients : client'[t].at = "ep_reg" => client'[t].on \in Pipes
          /\ \A t, u \in Clients : client'[t].ep = client'[u].ep /\ client'[t].ep # NoPipe => t = u
        BY <2>1 DEF TableInv
    <2>9. \A t \in Clients : client'[t].ep # NoPipe => InTable(client[t].ep)'
        <3> SUFFICES ASSUME NEW t \in Clients, client[t].ep # NoPipe
                     PROVE  InTable(client[t].ep)'
            BY <2>1
        <3>1. client[t].ep \in Pipes /\ InTable(client[t].ep)
            BY <1>1 DEF TableInv, ClientRecord, Handle
        <3>2. \A q \in Pipes : InTable(q) => \E i \in Slots : open_pipes'[i].pipe = q
            BY <2>5 DEF InTable
        <3> QED BY <2>1, <3>1, <3>2 DEF InTable
    <2> QED BY <2>1, <2>5, <2>7, <2>8, <2>9 DEF TableInv
<1>10. CASE PortConnect
    <2>1. UNCHANGED <<open_pipes, hcd>> /\ ptask.at # "register" /\ ptask'.at # "register"
        BY <1>1, <1>10 DEF PortConnect, BelowUnchanged, PortGoes, TaskRecord
    <2>2. ClientsKept
        BY <1>1, <1>10 DEF PortConnect, Woken, Blocked, ClientsKept, ClientKept, PlaceKept,
           ClientRecord
    <2> QED BY <1>2, <1>4, <1>5, <2>1, <2>2, TableKept
<1>11. CASE PortClose
    <2>1. ptask.at # "register" /\ ptask'.at # "register"
        BY <1>1, <1>11 DEF PortClose, PortGoes, TaskRecord
    <2>2. \A t \in Clients : client'[t] = Told(client[t], ClosedPipes)
        BY <1>11 DEF PortClose
    <2>3. \A t \in Clients : PlaceKept(t)
        <3> SUFFICES ASSUME NEW t \in Clients
                     PROVE  PlaceKept(t)
            OBVIOUS
        <3>1. Told(client[t], ClosedPipes).at = client[t].at
              /\ Told(client[t], ClosedPipes).on = client[t].on
            BY <1>1 DEF Told, ClientRecord
        <3> QED BY <2>2, <3>1 DEF PlaceKept
    <2> QED BY <1>5, <1>11, <2>1, <2>2, <2>3, CloseTable DEF PortClose
<1> QED BY <1>6, <1>7, <1>8, <1>9, <1>10, <1>11 DEF PortNext

\* Every step of a client keeps the table.
LEMMA ClientTable ==
    ASSUME TypeInv, TableInv, "own" \in Rules, NEW t \in Clients, ClientCall(t) \/ ClientNext(t)
    PROVE  TableInv'
<1>1. /\ hcd \in HcdRecord /\ client \in [Clients -> ClientRecord] /\ ptask \in TaskRecord
      /\ open_pipes \in [Slots -> Entry] /\ ClientOK(client[t])
    BY ClientsOK DEF TypeInv, UsbhTypeOK
<1>2. PortKept
    <2>1. UNCHANGED ptask
        BY DEF ClientCall, ClientNext, OpenBegin, OpenWait, OpenSearch, OpenFound, OpenAgain,
           XferBegin, XferEnd, DescBegin, DescEnd, DescInfo, DescAddr, SetAddr, SetAddrBegin,
           SetAddrEnd, SetAddrUpdate, EpLookup, EpAlloc, EpRegister, EpClose, DeviceClose,
           ClientStep
    <2> QED BY <2>1 DEF PortKept
<1>3. ASSUME UNCHANGED open_pipes
      PROVE  SlotsKept
    BY <1>3 DEF SlotsKept
<1>4. ASSUME hcd'.pipe = hcd.pipe
      PROVE  PipesKept
    BY <1>4 DEF PipesKept, Freed
<1>5. ASSUME NEW c, client' = [client EXCEPT ![t] = c],
             client[t].at # "ep_reg", c.at # "ep_reg", c.ep \in {client[t].ep, NoPipe}
      PROVE  ClientsKept
    BY <1>1, <1>5 DEF ClientsKept, ClientKept, PlaceKept
<1>6. ASSUME NEW place \in ClientPlaces, Goes(t, place), client[t].at # "ep_reg",
             place # "ep_reg"
      PROVE  ClientsKept
    <2>1. client' = [client EXCEPT ![t] = [client[t] EXCEPT !.at = place]]
        BY <1>1, <1>6 DEF Goes
    <2>2. [client[t] EXCEPT !.at = place].at = place
              /\ [client[t] EXCEPT !.at = place].ep = client[t].ep
        BY <1>1 DEF ClientRecord
    <2> QED BY <1>5, <1>6, <2>1, <2>2
<1>7. ASSUME TableUnchanged, ClientStep, ClientsKept
      PROVE  TableInv'
    BY <1>2, <1>3, <1>4, <1>7, TableKept DEF TableUnchanged, ClientStep, BelowUnchanged
\* The steps that leave the table and the pipes alone.
<1>8. CASE OpenBegin(t) \/ OpenAgain(t)
    <2>1. \E place \in {"wait", "search", "open"} : Goes(t, place)
        BY <1>8 DEF OpenBegin, OpenAgain
    <2>2. client[t].at # "ep_reg" /\ TableUnchanged /\ ClientStep
        BY <1>8 DEF OpenBegin, OpenAgain
    <2> QED BY <1>6, <1>7, <2>1, <2>2 DEF ClientPlaces
<1>9. CASE OpenWait(t)
    <2>1. \E place \in {"search", "blocked"} : Goes(t, place)
        BY <1>9 DEF OpenWait
    <2>2. client[t].at # "ep_reg" /\ UNCHANGED <<open_pipes, hcd>>
        BY <1>9 DEF OpenWait, ClientStep, BelowUnchanged
    <2> QED BY <1>2, <1>3, <1>4, <1>6, <2>1, <2>2, TableKept DEF ClientPlaces
<1>10. CASE OpenSearch(t) \/ OpenFound(t) \/ XferEnd(t) \/ DescEnd(t) \/ DescAddr(t) \/ EpLookup(t)
    <2>1. \E c : /\ client' = [client EXCEPT ![t] = c]
                 /\ client[t].at # "ep_reg" /\ c.at # "ep_reg" /\ c.ep \in {client[t].ep, NoPipe}
        <3>1. CASE OpenSearch(t)
            <4> DEFINE d == [client[t] EXCEPT !.at = "found",
                                !.ctrl = open_pipes[Min(NotOpened(t))].pipe, !.ep = NoPipe]
                       c == IF NotOpened(t) = {} THEN [client[t] EXCEPT !.at = "open"] ELSE d
            <4>1. client' = [client EXCEPT ![t] = c] /\ client[t].at # "ep_reg"
                BY <1>1, <3>1 DEF OpenSearch
            <4>2. c.at # "ep_reg" /\ c.ep \in {client[t].ep, NoPipe}
                BY <1>1 DEF ClientRecord
            <4> QED BY <4>1, <4>2
        <3>2. CASE OpenFound(t)
            <4> DEFINE c == [client[t] EXCEPT !.at = "ready", !.idx = num_opened]
            <4>1. client' = [client EXCEPT ![t] = c] /\ client[t].at # "ep_reg"
                BY <1>1, <3>2 DEF OpenFound
            <4>2. c.at # "ep_reg" /\ c.ep \in {client[t].ep, NoPipe}
                BY <1>1 DEF ClientRecord
            <4> QED BY <4>1, <4>2
        <3>3. CASE XferEnd(t) \/ DescEnd(t)
            <4>1. PICK place \in {"ready", "desc_lock"} :
                      client' = [client EXCEPT ![t] = [client[t] EXCEPT !.at = place, !.on = NoPipe,
                                                                        !.result = "none"]]
                BY <1>1, <3>3 DEF XferEnd, DescEnd
            <4> DEFINE c == [client[t] EXCEPT !.at = place, !.on = NoPipe, !.result = "none"]
            <4>2. c.at # "ep_reg" /\ c.ep \in {client[t].ep, NoPipe} /\ client[t].at # "ep_reg"
                BY <1>1, <3>3 DEF ClientRecord, XferEnd, DescEnd, Ended
            <4> QED BY <4>1, <4>2
        <3>4. CASE DescAddr(t)
            <4>1. PICK place \in {"ready", "addr_lock"} :
                      client' = [client EXCEPT ![t] = [client[t] EXCEPT !.at = place, !.slot = 0]]
                BY <1>1, <3>4 DEF DescAddr
            <4> DEFINE c == [client[t] EXCEPT !.at = place, !.slot = 0]
            <4>2. c.at # "ep_reg" /\ c.ep \in {client[t].ep, NoPipe} /\ client[t].at # "ep_reg"
                BY <1>1, <3>4 DEF ClientRecord, DescAddr
            <4> QED BY <4>1, <4>2
        <3>5. CASE EpLookup(t)
            <4>1. PICK a \in Addrs :
                      client' = [client EXCEPT ![t] = [client[t] EXCEPT !.at = "ep_alloc", !.addr = a]]
                BY <1>1, <3>5 DEF EpLookup, InfoOf, Entry
            <4> DEFINE c == [client[t] EXCEPT !.at = "ep_alloc", !.addr = a]
            <4>2. c.at # "ep_reg" /\ c.ep \in {client[t].ep, NoPipe} /\ client[t].at # "ep_reg"
                BY <1>1, <3>5 DEF ClientRecord, EpLookup
            <4> QED BY <4>1, <4>2
        <3> QED BY <1>10, <3>1, <3>2, <3>3, <3>4, <3>5
    <2>2. TableUnchanged /\ ClientStep
        BY <1>10 DEF OpenSearch, OpenFound, XferEnd, DescEnd, DescAddr, EpLookup
    <2> QED BY <1>5, <1>7, <2>1, <2>2
<1>11. CASE XferBegin(t) \/ DescBegin(t) \/ SetAddrBegin(t) \/ SetAddrEnd(t) \/ DescInfo(t)
    <2>1. TableUnchanged /\ ClientStep /\ client[t].at # "ep_reg"
        BY <1>11 DEF XferBegin, DescBegin, SetAddrBegin, SetAddrEnd, DescInfo, Ended
    <2>2. \/ \E p, place : Transfer(t, p, place) /\ place # "ep_reg"
          \/ \E place \in ClientPlaces : Goes(t, place) /\ place # "ep_reg"
          \/ client' = [client EXCEPT ![t] = [client[t] EXCEPT !.at = "desc_addr",
                                                               !.slot = Min(ControlSlots)]]
        BY <1>1, <1>11 DEF XferBegin, DescBegin, SetAddrBegin, SetAddrEnd, DescInfo, Stops, Goes,
           ClientPlaces
    <2>3. ASSUME NEW p, NEW place, Transfer(t, p, place), place # "ep_reg"
          PROVE  ClientsKept
        <3>1. CASE Stops(t)
            BY <1>6, <2>1, <3>1 DEF Stops, Goes, ClientPlaces
        <3>2. CASE client' = [client EXCEPT ![t] = Begun(@, p, place)]
            <4>1. client' = [client EXCEPT ![t] = Begun(client[t], p, place)]
                BY <1>1, <3>2
            <4>2. Begun(client[t], p, place).at = place /\ Begun(client[t], p, place).ep = client[t].ep
                BY <1>1 DEF Begun, ClientRecord
            <4> QED BY <1>5, <2>1, <2>3, <4>1, <4>2
        <3> QED BY <2>3, <3>1, <3>2 DEF Transfer
    <2>4. ASSUME client' = [client EXCEPT ![t] = [client[t] EXCEPT !.at = "desc_addr",
                                                                   !.slot = Min(ControlSlots)]]
          PROVE  ClientsKept
        <3> DEFINE c == [client[t] EXCEPT !.at = "desc_addr", !.slot = Min(ControlSlots)]
        <3>1. c.at # "ep_reg" /\ c.ep = client[t].ep
            BY <1>1 DEF ClientRecord
        <3> QED BY <1>5, <2>1, <2>4, <3>1
    <2> QED BY <1>6, <1>7, <2>1, <2>2, <2>3, <2>4
\* The steps that write addresses.
<1>12. CASE SetAddr(t)
    <2> DEFINE info == Min(ControlSlots)
               a == Min(FreeAddrs)
               c == [client[t] EXCEPT !.at = "addr_start", !.slot = info, !.addr = a]
    <2>1. UNCHANGED hcd /\ client[t].at # "ep_reg"
        BY <1>12 DEF SetAddr, ClientStep, BelowUnchanged
    <2>2. \/ Goes(t, "ready") /\ UNCHANGED open_pipes
          \/ /\ ControlSlots # {}
             /\ open_pipes' = [open_pipes EXCEPT ![info].addr = a]
             /\ client' = [client EXCEPT ![t] = c]
        BY <1>1, <1>12 DEF SetAddr
    <2>3. c.at # "ep_reg" /\ c.ep = client[t].ep
        BY <1>1 DEF ClientRecord
    <2>4. ControlSlots # {} => info \in Used
        BY Tables DEF ControlSlots
    <2> HIDE DEF c, info, a
    <2>5. SlotsKept
        BY <1>1, <1>3, <2>2, <2>4 DEF SlotsKept, Used, Entry
    <2>6. ClientsKept
        BY <1>5, <1>6, <2>1, <2>2, <2>3 DEF ClientPlaces
    <2> QED BY <1>2, <1>4, <2>1, <2>5, <2>6, TableKept
<1>13. CASE SetAddrUpdate(t)
    <2> DEFINE c == [client[t] EXCEPT !.at = "ready", !.on = NoPipe, !.slot = 0, !.addr = 0,
                                      !.result = "none"]
    <2>1. client' = [client EXCEPT ![t] = c] /\ client[t].at = "addr_update"
        BY <1>1, <1>13 DEF SetAddrUpdate
    <2>2. c.at # "ep_reg" /\ c.ep = client[t].ep
        BY <1>1 DEF ClientRecord
    <2>3. PipesKept
        <3>1. Update(client[t].on, client[t].addr)
            BY <1>13 DEF SetAddrUpdate
        <3> QED BY <1>1, <3>1 DEF Update, PipesKept, Freed, HcdRecord
    <2>4. SlotsKept
        <3>1. client[t].slot \in Slots
            BY <1>1, <2>1 DEF ClientOK, AssignPlaces
        <3>2. \/ open_pipes' = open_pipes
              \/ open_pipes' = [open_pipes EXCEPT ![client[t].slot].addr = 0]
            BY <1>13 DEF SetAddrUpdate
        <3>3. \A i \in Slots : open_pipes[i].pipe = NoPipe =>
                  open_pipes[i] = Empty /\ [open_pipes[i] EXCEPT !.addr = 0] = Empty
            <4>1. [Empty EXCEPT !.addr = 0] = Empty
                <5>1. \A r \in [pipe : {NoPipe}, nth_open : {0}, is_control : {FALSE}, addr : {0}] :
                          r.addr = 0 => [r EXCEPT !.addr = 0] = r
                    OBVIOUS
                <5>2. Empty \in [pipe : {NoPipe}, nth_open : {0}, is_control : {FALSE}, addr : {0}]
                    BY DEF Empty
                <5>3. Empty.addr = 0
                    BY DEF Empty
                <5> QED BY <5>1, <5>2, <5>3
            <4>2. \A i \in Slots : open_pipes[i].pipe = NoPipe => open_pipes[i] = Empty
                BY DEF TableInv
            <4> QED BY <4>1, <4>2
        <3>4. \A i \in Slots : [open_pipes[i] EXCEPT !.addr = 0].pipe = open_pipes[i].pipe
            BY <1>1 DEF Entry
        <3> QED BY <1>1, <3>1, <3>2, <3>3, <3>4 DEF SlotsKept
    <2> HIDE DEF c
    <2>5. ClientsKept
        BY <1>5, <2>1, <2>2
    <2> QED BY <1>2, <2>3, <2>4, <2>5, TableKept
\* The steps that allocate, enter and free pipes.
<1>14. CASE EpAlloc(t)
    <2>1. UNCHANGED <<open_pipes, ptask>> /\ client[t].at = "ep_alloc"
        BY <1>14 DEF EpAlloc, TableUnchanged
    <2>2. CASE ~CanAlloc
        <3> DEFINE c == [client[t] EXCEPT !.at = "ready", !.addr = 0]
        <3>1. UNCHANGED hcd /\ client' = [client EXCEPT ![t] = c]
            BY <1>14, <2>2 DEF EpAlloc
        <3>2. c.at # "ep_reg" /\ c.ep = client[t].ep
            BY <1>1 DEF ClientRecord
        <3> HIDE DEF c
        <3> QED BY <1>2, <1>3, <1>4, <1>5, <2>1, <3>1, <3>2, TableKept
    <2>3. CASE CanAlloc
        <3>1. PICK p \in Pipes :
                  /\ Freed(p) /\ NewPipe(p, client[t].addr)
                  /\ client' = [client EXCEPT ![t] = [client[t] EXCEPT !.at = "ep_reg", !.on = p]]
            BY <1>14, <2>3 DEF EpAlloc
        <3>2. /\ client'[t].at = "ep_reg" /\ client'[t].on = p
              /\ \A u \in Clients : client'[u].ep = client[u].ep
              /\ \A u \in Clients : u # t => client'[u] = client[u]
            BY <1>1, <3>1 DEF ClientRecord
        <3>3. \A q \in Pipes : Freed(q)' <=> Freed(q) /\ q # p
            BY <1>1, <3>1 DEF NewPipe, Freed, HcdRecord
        <3>4. \A q \in Pipes : /\ InTable(q)' <=> InTable(q)
                               /\ AtPort(q)' <=> AtPort(q)
                               /\ ~AtClient(t, q)
                               /\ AtClient(t, q)' <=> q = p
                               /\ \A u \in Clients : u # t => (AtClient(u, q)' <=> AtClient(u, q))
            BY <2>1, <3>2 DEF InTable, AtPort, AtClient
        <3>5. ~InTable(p) /\ ~AtPort(p) /\ \A u \in Clients : ~AtClient(u, p)
            BY <3>1 DEF TableInv
        <3>6. /\ \A q \in Pipes :
                     ~Freed(q)' <=> InTable(q)' \/ AtPort(q)' \/ \E u \in Clients : AtClient(u, q)'
              /\ \A q \in Pipes : AtPort(q)' => ~InTable(q)' /\ \A u \in Clients : ~AtClient(u, q)'
              /\ \A q \in Pipes, u \in Clients : AtClient(u, q)' => ~InTable(q)'
              /\ \A q \in Pipes, v, u \in Clients : AtClient(v, q)' /\ AtClient(u, q)' => v = u
            <4>1. \A q \in Pipes :
                     ~Freed(q)' <=> InTable(q)' \/ AtPort(q)' \/ \E u \in Clients : AtClient(u, q)'
                BY <3>3, <3>4, <3>5 DEF TableInv
            <4>2. \A q \in Pipes : AtPort(q)' => ~InTable(q)' /\ \A u \in Clients : ~AtClient(u, q)'
                BY <3>3, <3>4, <3>5 DEF TableInv
            <4>3. \A q \in Pipes, u \in Clients : AtClient(u, q)' => ~InTable(q)'
                BY <3>3, <3>4, <3>5 DEF TableInv
            <4>4. \A q \in Pipes, v, u \in Clients : AtClient(v, q)' /\ AtClient(u, q)' => v = u
                BY <3>3, <3>4, <3>5 DEF TableInv
            <4> QED BY <4>1, <4>2, <4>3, <4>4
        <3>7. /\ \A i, j \in Slots : open_pipes'[i].pipe = open_pipes'[j].pipe
                                        /\ open_pipes'[i].pipe # NoPipe => i = j
              /\ \A i \in Slots : open_pipes'[i].pipe = NoPipe => open_pipes'[i] = Empty
              /\ ptask'.at = "register" => ptask'.pipe \in Pipes
              /\ \A u \in Clients : client'[u].at = "ep_reg" => client'[u].on \in Pipes
              /\ \A u, v \in Clients : client'[u].ep = client'[v].ep /\ client'[u].ep # NoPipe => u = v
            BY <2>1, <3>2 DEF TableInv
        <3>8. \A u \in Clients : client'[u].ep # NoPipe => InTable(client[u].ep)'
            BY <2>1, <3>2 DEF TableInv, InTable
        <3> QED BY <3>6, <3>7, <3>8 DEF TableInv
    <2> QED BY <2>2, <2>3
<1>15. CASE EpRegister(t)
    <2> DEFINE p == client[t].on
    <2>1. UNCHANGED <<hcd, ptask>> /\ client[t].at = "ep_reg"
        BY <1>15 DEF EpRegister, ClientStep, BelowUnchanged
    <2>2. p \in Pipes /\ AtClient(t, p) /\ ~InTable(p) /\ ~AtPort(p)
              /\ \A q \in Pipes : AtClient(t, q) <=> q = p
        BY <2>1 DEF TableInv, AtClient
    <2>3. FreeSlots # {} => Registered(p, FALSE, client[t].addr)
        BY <1>15 DEF EpRegister
    <2>4. PipesKept
        BY <1>4, <2>1
    <2> DEFINE c == [client[t] EXCEPT !.at = "ready", !.on = NoPipe, !.addr = 0,
                        !.ep = IF FreeSlots = {} THEN NoPipe ELSE p]
    <2>5. client' = [client EXCEPT ![t] = c]
        BY <1>15 DEF EpRegister
    <2> HIDE DEF p, c
    <2>6. /\ \A q \in Pipes : InTable(q)' <=> InTable(q) \/ q = p
          /\ \A i, j \in Slots :
                open_pipes'[i].pipe = open_pipes'[j].pipe /\ open_pipes'[i].pipe # NoPipe => i = j
          /\ \A i \in Slots : open_pipes'[i].pipe = NoPipe => open_pipes'[i] = Empty
          /\ FreeSlots # {}
        BY <2>2, <2>3, <2>4, Enters
    <2>7. c.at = "ready" /\ c.ep = p
        BY <1>1, <2>6 DEF c, ClientRecord
    <2>8. /\ client'[t].at = "ready" /\ client'[t].ep = p
          /\ \A u \in Clients : u # t => client'[u] = client[u]
        BY <1>1, <2>5, <2>7
    <2>9. \A q \in Pipes : /\ AtPort(q)' <=> AtPort(q)
                           /\ ~AtClient(t, q)'
                           /\ \A u \in Clients : u # t => (AtClient(u, q)' <=> AtClient(u, q))
                           /\ Freed(q)' <=> Freed(q)
        BY <2>1, <2>8 DEF AtPort, AtClient, Freed
    <2>10. /\ \A q \in Pipes :
                  ~Freed(q)' <=> InTable(q)' \/ AtPort(q)' \/ \E u \in Clients : AtClient(u, q)'
           /\ \A q \in Pipes : AtPort(q)' => ~InTable(q)' /\ \A u \in Clients : ~AtClient(u, q)'
           /\ \A q \in Pipes, u \in Clients : AtClient(u, q)' => ~InTable(q)'
           /\ \A q \in Pipes, v, u \in Clients : AtClient(v, q)' /\ AtClient(u, q)' => v = u
        <3>1. \A q \in Pipes :
                  ~Freed(q)' <=> InTable(q)' \/ AtPort(q)' \/ \E u \in Clients : AtClient(u, q)'
            BY <2>2, <2>6, <2>9 DEF TableInv
        <3>2. \A q \in Pipes : AtPort(q)' => ~InTable(q)' /\ \A u \in Clients : ~AtClient(u, q)'
            BY <2>2, <2>6, <2>9 DEF TableInv
        <3>3. \A q \in Pipes, u \in Clients : AtClient(u, q)' => ~InTable(q)'
            BY <2>2, <2>6, <2>9 DEF TableInv
        <3>4. \A q \in Pipes, v, u \in Clients : AtClient(v, q)' /\ AtClient(u, q)' => v = u
            BY <2>2, <2>6, <2>9 DEF TableInv
        <3> QED BY <3>1, <3>2, <3>3, <3>4
    <2>11. /\ ptask'.at = "register" => ptask'.pipe \in Pipes
           /\ \A u \in Clients : client'[u].at = "ep_reg" => client'[u].on \in Pipes
        BY <2>1, <2>8 DEF TableInv
    <2>12. \A u \in Clients : client[u].ep # NoPipe => client[u].ep \in Pipes /\ InTable(client[u].ep)
        BY <1>1 DEF TableInv, ClientRecord, Handle
    <2>13. \A u, v \in Clients : client'[u].ep = client'[v].ep /\ client'[u].ep # NoPipe => u = v
        BY <2>2, <2>8, <2>12 DEF TableInv
    <2>14. \A u \in Clients : client'[u].ep # NoPipe => \E i \in Slots : open_pipes'[i].pipe = client'[u].ep
        <3>1. \A q \in Pipes : InTable(q) \/ q = p => \E i \in Slots : open_pipes'[i].pipe = q
            BY <2>6 DEF InTable
        <3> QED BY <2>2, <2>8, <2>12, <3>1
    <2> QED BY <2>6, <2>10, <2>11, <2>13, <2>14 DEF TableInv, InTable
<1>16. CASE EpClose(t)
    <2> DEFINE p == client[t].ep
    <2>1. client[t].at = "ready" /\ p # NoPipe
        BY <1>16 DEF EpClose
    <2>2. CASE Freed(p)
        <3>1. Stops(t) /\ UNCHANGED <<hcd, open_pipes>>
            BY <1>16, <2>2 DEF EpClose
        <3> QED BY <1>2, <1>3, <1>4, <1>6, <2>1, <3>1, TableKept DEF Stops, Goes, ClientPlaces
    <2>3. CASE ~Freed(p) /\ CanClose(p)
        <3>1. /\ FreePipes({p}) /\ open_pipes' = Cleared(InfoOf(p))
              /\ client' = [client EXCEPT ![t].ep = NoPipe]
            BY <1>16, <2>3 DEF EpClose
        <3>2. InfoOf(p) \in SUBSET Used /\ InfoOf(p) # {}
            BY <2>1 DEF InfoOf, Used, TableInv, InTable
        <3>3. {p} = {open_pipes[i].pipe : i \in InfoOf(p)}
            BY <3>2 DEF InfoOf
        <3>4. ClientsKept
            BY <1>1, <3>1 DEF ClientsKept, ClientKept, PlaceKept, ClientRecord
        <3>5. \A u \in Clients : client'[u].ep \notin {p}
            BY <1>1, <2>1, <3>1 DEF TableInv, ClientRecord
        <3> HIDE DEF p
        <3> QED BY <1>2, <3>1, <3>2, <3>3, <3>4, <3>5, Leaves
    <2>4. CASE ~Freed(p) /\ ~CanClose(p)
        <3>1. UNCHANGED <<hcd, open_pipes, client>>
            BY <1>16, <2>4 DEF EpClose
        <3>2. ClientsKept
            BY <3>1 DEF ClientsKept, ClientKept, PlaceKept
        <3> QED BY <1>2, <1>3, <1>4, <3>1, <3>2, TableKept
    <2> QED BY <2>2, <2>3, <2>4
<1>17. CASE DeviceClose(t)
    <2> DEFINE told == [u \in Clients |-> Told(client[u], ClosedPipes)]
    <2>1. CloseDevice /\ client[t].at = "ready"
        BY <1>17 DEF DeviceClose
    <2>2. client' = [told EXCEPT ![t] = [told[t] EXCEPT !.at = "open", !.ctrl = NoPipe,
                                                        !.ep = NoPipe]]
        BY <1>17 DEF DeviceClose
    <2>3. \A u \in Clients : /\ told[u] = Told(client[u], ClosedPipes)
                             /\ told[u] \in ClientRecord
                             /\ told[u].at = client[u].at /\ told[u].on = client[u].on
        BY <1>1, ToldTyped DEF ClientOK, Told, ClientRecord
    <2>4. [told[t] EXCEPT !.at = "open", !.ctrl = NoPipe, !.ep = NoPipe].at = "open"
          /\ [told[t] EXCEPT !.at = "open", !.ctrl = NoPipe, !.ep = NoPipe].ep = NoPipe
        <3>1. told[t] \in ClientRecord
            BY <2>3
        <3> HIDE DEF told
        <3> QED BY <3>1 DEF ClientRecord
    <2>5. DOMAIN told = Clients
        OBVIOUS
    <2> HIDE DEF told
    <2>6. /\ client'[t].at = "open" /\ client'[t].ep = NoPipe
          /\ \A u \in Clients : u # t => client'[u] = told[u]
        BY <2>2, <2>4, <2>5
    <2>7. \A u \in Clients : /\ PlaceKept(u)
                             /\ client'[u].ep \in {Told(client[u], ClosedPipes).ep, NoPipe}
        BY <2>1, <2>3, <2>6 DEF PlaceKept
    <2> QED BY <1>2, <2>1, <2>7, CloseTable
<1> QED BY <1>8, <1>9, <1>10, <1>11, <1>12, <1>13, <1>14, <1>15, <1>16, <1>17
        DEF ClientCall, ClientNext

\* With the rule "own" the table is exact in every history, whatever happens to the device
\* while pipes are opened and closed: a pipe is in it once, or a task is about to enter it.
THEOREM TableKeptExact ==
    ASSUME "own" \in Rules
    PROVE  UsbhSpec => []TableInv
<1>1. UsbhInit => TableInv
    <2> SUFFICES ASSUME UsbhInit
                 PROVE  TableInv
        OBVIOUS
    <2>1. /\ \A i \in Slots : open_pipes[i] = Empty
          /\ \A p \in Pipes : Freed(p)
          /\ ptask.at = "idle"
          /\ \A t \in Clients : client[t].at = "open" /\ client[t].ep = NoPipe
        BY DEF UsbhInit, PoweredPort, Freed, Idle, NewClient
    <2>2. Empty.pipe = NoPipe
        BY DEF Empty
    <2>3. \A p \in Pipes : ~InTable(p) /\ ~AtPort(p) /\ \A t \in Clients : ~AtClient(t, p)
        BY <2>1, <2>2, Numbers DEF InTable, AtPort, AtClient
    <2> QED BY <2>1, <2>2, <2>3 DEF TableInv
<1>2. TypeInv /\ TableInv /\ [UsbhNext]_usbhVars => TableInv'
    <2> SUFFICES ASSUME TypeInv, TableInv, [UsbhNext]_usbhVars
                 PROVE  TableInv'
        OBVIOUS
    <2>1. CASE UNCHANGED usbhVars
        BY <2>1, TableKept DEF usbhVars, PipesKept, SlotsKept, PortKept, ClientsKept, ClientKept,
           PlaceKept, Freed
    <2> QED BY <2>1, BusTable, PortTable, ClientTable DEF UsbhNext
<1> QED BY <1>1, <1>2, TypesKept, PTL DEF UsbhSpec

\* What a pipe is in, and who names it, makes the table exact.
LEMMA TableInvExact ==
    ASSUME TypeInv, TableInv
    PROVE  TableExact
<1>1. \A p \in Pipes : /\ p \in {open_pipes[i].pipe : i \in Used} <=> InTable(p)
                       /\ p \in Registering <=> AtPort(p) \/ \E t \in Clients : AtClient(t, p)
    BY Numbers DEF Used, InTable, Registering, AtPort, AtClient
<1>2. {open_pipes[i].pipe : i \in Used} \subseteq Pipes
    BY DEF Used, TypeInv, UsbhTypeOK, Entry
<1>3. Registering \subseteq Pipes
    BY DEF Registering, TableInv
<1>4. {open_pipes[i].pipe : i \in Used} \cup Registering = {p \in Pipes : ~Freed(p)}
    BY <1>1, <1>2, <1>3 DEF TableInv
<1>5. ASSUME NEW i \in Used
      PROVE  InfoOf(open_pipes[i].pipe) = {i} /\ open_pipes[i].pipe \notin Registering
    <2>1. i \in Slots /\ open_pipes[i].pipe \in Pipes /\ InTable(open_pipes[i].pipe)
        BY <1>2 DEF Used, InTable
    <2>2. InfoOf(open_pipes[i].pipe) = {i}
        BY <2>1, Numbers DEF InfoOf, TableInv
    <2> QED BY <1>1, <2>1, <2>2 DEF TableInv
<1>6. \A i \in FreeSlots : open_pipes[i] = Empty
    BY DEF FreeSlots, Used, TableInv
<1> QED BY <1>4, <1>5, <1>6 DEF TableExact

\* If a client does not use a handle after its pipe was freed, the table of open pipes
\* (xesp_usbh.c:53) holds what TableExact says of it: the pipes of the driver, each once.
THEOREM TableIsExact ==
    ASSUME "own" \in Rules
    PROVE  UsbhSpec => []TableExact
<1>1. TypeInv /\ TableInv => TableExact
    BY TableInvExact
<1> QED BY <1>1, TypesKept, TableKeptExact, PTL

-----------------------------------------------------------------------------
(* One port event at a time *)

\* With the rule "slow" the bus reports nothing before the last event was handled.  So the
\* event in the slot is the one in the queue, or the one the port task is about to handle.
LossEvents == {"SUDDEN_DISCONN", "ERROR"}
SlotInv ==
    /\ portq # <<>> => portq = <<hcd.event>> /\ hcd.event # "NONE"
    /\ ptask.at \in {"find", "handle"} =>
          portq = <<>> /\ ptask.event = hcd.event /\ hcd.event # "NONE"
    /\ hcd.event # "NONE" => portq = <<hcd.event>> \/ ptask.at \in {"find", "handle"}

\* What the port knows of the bus.
StateInv ==
    /\ hcd.conn <=> hcd.state = "ENABLED"
    /\ hcd.conn => hcd.seen /\ ~hcd.lock /\ hcd.event = "NONE"
    /\ hcd.state = "RECOVERY" => hcd.lock /\ hcd.event \in {"NONE", "SUDDEN_DISCONN"}
    /\ hcd.event = "SUDDEN_DISCONN" => hcd.state = "RECOVERY"
    /\ hcd.event = "ERROR" => hcd.seen
    /\ hcd.event = "CONNECTION" => hcd.seen /\ hcd.state # "NOT_POWERED"
    /\ hcd.powered => hcd.state # "NOT_POWERED"

\* What the port task may rely on at each of its places.
TaskInv ==
    /\ ptask.at \in {"reset", "sudden", "close", "off", "recover", "on"} =>
          ~hcd.conn /\ hcd.event \notin LossEvents
    /\ ptask.at = "reset" => ptask.event \in {"CONNECTION", "SUDDEN_DISCONN"}
    /\ ptask.at = "sudden" => ptask.event = "SUDDEN_DISCONN"
    /\ ptask.at = "reset" /\ ptask.event = "CONNECTION" /\ hcd.event = "NONE" =>
          hcd.seen /\ ~hcd.lock
    /\ ptask.at \in {"reset", "sudden"} /\ ptask.event = "SUDDEN_DISCONN" =>
          hcd.state = "RECOVERY"
    /\ ptask.at = "close" /\ ptask.event = "DISCONNECTION" => hcd.state # "RECOVERY"
    /\ ptask.at = "off" => hcd.state # "RECOVERY"
    /\ ptask.at \in {"alloc", "register"} => hcd.conn \/ hcd.event \in LossEvents

\* A transfer is in flight only while the device is there, or its loss is to be handled.
BusyInv ==
    \A t \in Clients : client[t].result = "busy" => hcd.conn \/ hcd.event \in LossEvents

PhaseInv == SlotInv /\ StateInv /\ TaskInv /\ BusyInv

\* What most steps leave as it is.
PortSame ==
    /\ hcd'.state = hcd.state /\ hcd'.conn = hcd.conn /\ hcd'.event = hcd.event
    /\ hcd'.powered = hcd.powered /\ hcd'.seen = hcd.seen /\ hcd'.lock = hcd.lock

\* A step beside port, device and events keeps the phase.
LEMMA PhaseBeside ==
    ASSUME PhaseInv, PortSame, UNCHANGED <<portq, ptask>>,
           \A t \in Clients : client'[t].result = "busy" =>
               client[t].result = "busy" \/ hcd.state = "ENABLED"
    PROVE  PhaseInv'
<1>1. SlotInv' /\ StateInv' /\ TaskInv'
    BY DEF PhaseInv, SlotInv, StateInv, TaskInv, PortSame, LossEvents
<1>2. BusyInv'
    BY DEF PhaseInv, BusyInv, StateInv, PortSame, LossEvents
<1> QED BY <1>1, <1>2 DEF PhaseInv

\* The steps of the port task that leave the port and the transfers as they are.
LEMMA PhaseTask ==
    ASSUME PhaseInv, PortSame, UNCHANGED portq,
           ptask.at \notin {"find", "handle"}, ptask'.at \notin {"find", "handle"},
           TaskInv',
           \A t \in Clients : client'[t].result = "busy" => client[t].result = "busy"
    PROVE  PhaseInv'
<1>1. SlotInv' /\ StateInv'
    BY DEF PhaseInv, SlotInv, StateInv, PortSame
<1>2. BusyInv'
    BY DEF PhaseInv, BusyInv, PortSame, LossEvents
<1> QED BY <1>1, <1>2 DEF PhaseInv

\* The interrupt sends an event: the phase goes on by one.
LEMMA EventPhase ==
    ASSUME TypeInv, "slow" \in Rules, PhaseInv, NEW h \in HcdRecord, NEW e \in PortEvents,
           Event(h, e), UNCHANGED ptask
    PROVE  /\ hcd.event = "NONE" /\ hcd'.event = e
           /\ hcd'.state = h.state /\ hcd'.conn = h.conn /\ hcd'.powered = h.powered
           /\ hcd'.seen = h.seen /\ hcd'.lock = h.lock
           /\ SlotInv'
<1>1. hcd.event = "NONE" /\ portq = <<>> /\ ptask.at \notin {"find", "handle"}
    BY DEF Event, Keeps, PhaseInv, SlotInv
<1>2. portq' = <<e>>
    <2>1. Len(portq) < QueueLen
        BY <1>1, UsbhAssumption
    <2>2. Append(portq, e) = <<e>>
        BY <1>1
    <2> QED BY <2>1, <2>2 DEF Event
<1>3. /\ hcd'.event = e
      /\ hcd'.state = h.state /\ hcd'.conn = h.conn /\ hcd'.powered = h.powered
      /\ hcd'.seen = h.seen /\ hcd'.lock = h.lock
    BY DEF Event, HcdRecord
<1>4. e # "NONE" /\ portq' # <<>>
    BY <1>2 DEF PortEvents
<1> QED BY <1>1, <1>2, <1>3, <1>4 DEF SlotInv

\* The bus keeps the phase: it does not change before the port has handled the last event.
LEMMA BusPhase ==
    ASSUME TypeInv, "slow" \in Rules, PhaseInv, BusNext
    PROVE  PhaseInv'
<1>1. hcd \in HcdRecord
    BY DEF TypeInv, UsbhTypeOK
<1>2. CASE Plug \/ Unplug
    <2>1. UNCHANGED <<hcd, portq, ptask, client>>
        BY <1>2 DEF Plug, Unplug, BusStep
    <2> QED BY <2>1, PhaseBeside DEF PortSame
<1>3. CASE IsrConnection
    <2> DEFINE h == [hcd EXCEPT !.seen = TRUE, !.lock = TRUE]
    <2>1. /\ h \in HcdRecord
          /\ h.state = hcd.state /\ h.conn = hcd.conn /\ h.powered = hcd.powered
          /\ h.seen = TRUE /\ h.lock = TRUE
        BY <1>1 DEF HcdRecord
    <2>2. /\ UNCHANGED <<ptask, client>> /\ hcd.powered /\ ~hcd.seen /\ ~hcd.lock
          /\ Event(h, "CONNECTION")
        BY <1>3 DEF IsrConnection, BusStep, Connects, Line
    <2> HIDE DEF h
    <2>3. /\ hcd.event = "NONE" /\ hcd'.event = "CONNECTION"
          /\ hcd'.state = hcd.state /\ hcd'.conn = hcd.conn /\ hcd'.powered = hcd.powered
          /\ hcd'.seen = TRUE /\ hcd'.lock = TRUE
          /\ SlotInv'
        BY <2>1, <2>2, EventPhase DEF PortEvents
    <2>4. ~hcd.conn /\ hcd.state # "RECOVERY" /\ hcd.state # "NOT_POWERED"
        BY <2>2 DEF PhaseInv, StateInv
    <2>5. StateInv'
        BY <2>3, <2>4 DEF PhaseInv, StateInv
    <2>6. TaskInv' /\ BusyInv'
        BY <2>2, <2>3, <2>4 DEF PhaseInv, TaskInv, BusyInv, LossEvents
    <2> QED BY <2>3, <2>5, <2>6 DEF PhaseInv
<1>4. CASE IsrDisconnection
    <2> DEFINE g == [hcd EXCEPT !.seen = FALSE, !.lock = TRUE]
               h == IF hcd.conn THEN [g EXCEPT !.state = "RECOVERY", !.conn = FALSE] ELSE g
               e == IF hcd.conn THEN "SUDDEN_DISCONN" ELSE "DISCONNECTION"
    <2>1. /\ h \in HcdRecord /\ h.powered = hcd.powered /\ h.seen = FALSE /\ h.lock = TRUE
          /\ h.conn = FALSE /\ h.state = IF hcd.conn THEN "RECOVERY" ELSE hcd.state
          /\ e \in PortEvents
        BY <1>1 DEF HcdRecord, PortStates, PortEvents
    <2>2. UNCHANGED <<ptask, client>> /\ hcd.seen /\ ~hcd.lock /\ Event(h, e)
        BY <1>4 DEF IsrDisconnection, BusStep, Disconnects
    <2> HIDE DEF g, h
    <2>3. /\ hcd.event = "NONE" /\ hcd'.event = e
          /\ hcd'.state = IF hcd.conn THEN "RECOVERY" ELSE hcd.state
          /\ hcd'.conn = FALSE /\ hcd'.powered = hcd.powered
          /\ hcd'.seen = FALSE /\ hcd'.lock = TRUE
          /\ SlotInv'
        BY <2>1, <2>2, EventPhase
    <2>4. hcd.state # "RECOVERY" /\ (hcd.conn <=> hcd.state = "ENABLED")
        BY <2>2 DEF PhaseInv, StateInv
    <2>5. StateInv'
        BY <2>3, <2>4 DEF PhaseInv, StateInv
    <2>6. TaskInv' /\ BusyInv'
        BY <2>2, <2>3, <2>4 DEF PhaseInv, TaskInv, BusyInv, LossEvents
    <2> QED BY <2>3, <2>5, <2>6 DEF PhaseInv
<1>5. CASE IsrError
    <2> DEFINE h == [hcd EXCEPT !.state = "DISABLED", !.conn = FALSE]
    <2>1. /\ h \in HcdRecord /\ h.powered = hcd.powered /\ h.seen = hcd.seen
          /\ h.lock = hcd.lock /\ h.conn = FALSE /\ h.state = "DISABLED"
        BY <1>1 DEF HcdRecord, PortStates
    <2>2. UNCHANGED <<ptask, client>> /\ hcd.conn /\ Event(h, "ERROR")
        BY <1>5 DEF IsrError, BusStep
    <2> HIDE DEF h
    <2>3. /\ hcd.event = "NONE" /\ hcd'.event = "ERROR" /\ hcd'.state = "DISABLED"
          /\ hcd'.conn = FALSE /\ hcd'.powered = hcd.powered
          /\ hcd'.seen = hcd.seen /\ hcd'.lock = hcd.lock
          /\ SlotInv'
        BY <2>1, <2>2, EventPhase DEF PortEvents
    <2>4. hcd.seen
        BY <2>2 DEF PhaseInv, StateInv
    <2>5. StateInv'
        BY <2>3, <2>4 DEF PhaseInv, StateInv
    <2>6. TaskInv' /\ BusyInv'
        BY <2>2, <2>3, <2>4 DEF PhaseInv, TaskInv, BusyInv, LossEvents
    <2> QED BY <2>3, <2>5, <2>6 DEF PhaseInv
<1>6. ASSUME NEW t \in Clients, TransferOk(t) \/ TransferError(t)
      PROVE  PhaseInv'
    <2>1. UNCHANGED <<ptask, hcd, portq>>
        BY <1>6 DEF TransferOk, TransferError, BelowUnchanged
    <2>2. PICK r \in {"ok", "error"} : client' = [client EXCEPT ![t].result = r]
        BY <1>6 DEF TransferOk, TransferError
    <2>3. \A u \in Clients : client'[u].result = "busy" => client[u].result = "busy"
        BY <2>2, ClientsOK DEF ClientOK, ClientRecord
    <2> QED BY <2>1, <2>3, PhaseBeside DEF PortSame
<1> QED BY <1>2, <1>3, <1>4, <1>5, <1>6 DEF BusNext

\* The events the port task handles, one branch after the other.
LEMMA HandlePhase ==
    ASSUME TypeInv, PhaseInv, PortHandle
    PROVE  PhaseInv'
<1>1. /\ hcd \in HcdRecord /\ ptask \in TaskRecord
      /\ ptask.at = "handle" /\ portq' = portq /\ portq = <<>>
      /\ ptask.event = hcd.event /\ hcd.event # "NONE" /\ hcd.event \in PortEvents
    BY DEF TypeInv, UsbhTypeOK, PlaceInv, PhaseInv, SlotInv, PortHandle
<1>2. ~hcd.conn
    BY <1>1 DEF PhaseInv, StateInv
<1>3. CASE hcd.event \in LossEvents
    <2>1. HandleLoss
        BY <1>1, <1>3 DEF PortHandle, HandleConnection, HandleNothing, LossEvents
    <2>2. /\ hcd'.event = "NONE" /\ hcd'.state = hcd.state /\ hcd'.conn = hcd.conn
          /\ hcd'.powered = hcd.powered /\ hcd'.seen = hcd.seen /\ hcd'.lock = hcd.lock
        BY <1>1, <2>1 DEF HandleLoss, HcdRecord
    <2>3. /\ ptask'.event = ptask.event
          /\ ptask'.at = IF hcd.event = "ERROR" THEN "idle" ELSE "reset"
        BY <1>1, <1>3 DEF PortHandle, PortGoes, TaskRecord, LossEvents
    <2>4. SlotInv'
        BY <1>1, <2>2, <2>3 DEF SlotInv
    <2>5. StateInv'
        BY <1>2, <2>2 DEF PhaseInv, StateInv
    <2>6. TaskInv'
        BY <1>1, <1>2, <1>3, <2>2, <2>3 DEF PhaseInv, StateInv, TaskInv, LossEvents
    <2>7. \A t \in Clients : client'[t].result # "busy"
        BY <2>1, ClientsOK DEF HandleLoss, ClientOK, ClientRecord
    <2> QED BY <2>4, <2>5, <2>6, <2>7 DEF PhaseInv, BusyInv
<1>4. CASE hcd.event \in {"CONNECTION", "DISCONNECTION"}
    <2>1. HandleConnection
        BY <1>1, <1>4 DEF PortHandle, HandleLoss, HandleNothing
    <2>2. /\ hcd'.event = "NONE" /\ hcd'.conn = FALSE
          /\ hcd'.powered = hcd.powered /\ hcd'.seen = hcd.seen
          /\ hcd.state # "NOT_POWERED" =>
                hcd'.lock = FALSE /\ hcd'.state \in {"DISABLED", "DISCONNECTED"}
          /\ hcd.state = "NOT_POWERED" =>
                hcd'.lock = hcd.lock /\ hcd'.state \in {"NOT_POWERED", "DISCONNECTED"}
        BY <1>1, <1>2, <2>1 DEF HandleConnection, Debounced, HcdRecord
    <2>3. /\ ptask'.event = ptask.event
          /\ ptask'.at = IF hcd.event = "CONNECTION" THEN "reset" ELSE "close"
        BY <1>1, <1>4 DEF PortHandle, PortGoes, TaskRecord
    <2>4. hcd.event = "CONNECTION" => hcd.seen /\ hcd.state # "NOT_POWERED"
        BY DEF PhaseInv, StateInv
    <2>5. SlotInv'
        BY <1>1, <2>2, <2>3 DEF SlotInv
    <2>6. StateInv'
        BY <2>2 DEF PhaseInv, StateInv
    <2>7. TaskInv'
        BY <1>1, <1>4, <2>2, <2>3, <2>4 DEF TaskInv, LossEvents
    <2>8. client' = client
        BY <2>1 DEF HandleConnection
    <2>9. \A t \in Clients : client[t].result # "busy"
        BY <1>2, <1>4 DEF PhaseInv, BusyInv, LossEvents
    <2> QED BY <2>5, <2>6, <2>7, <2>8, <2>9 DEF PhaseInv, BusyInv
<1> QED BY <1>1, <1>3, <1>4 DEF PortEvents, LossEvents

\* The port is reset and the device enabled, or it is not.
LEMMA ResetPhase ==
    ASSUME TypeInv, PhaseInv, PortReset
    PROVE  PhaseInv'
<1>1. /\ hcd \in HcdRecord /\ ptask \in TaskRecord
      /\ ptask.at = "reset" /\ UNCHANGED <<portq, client>>
      /\ ptask'.event = ptask.event
      /\ ptask'.at = IF ptask.event = "CONNECTION" THEN "lookup" ELSE "sudden"
    BY DEF TypeInv, UsbhTypeOK, PortReset, PortGoes, TaskRecord
<1>2. /\ ~hcd.conn /\ hcd.event \notin LossEvents
      /\ ptask.event = "CONNECTION" /\ hcd.event = "NONE" => hcd.seen /\ ~hcd.lock
      /\ ptask.event # "CONNECTION" =>
            ptask.event = "SUDDEN_DISCONN" /\ hcd.state = "RECOVERY"
    BY <1>1 DEF PhaseInv, TaskInv
<1>3. CASE UNCHANGED hcd
    <2>1. TaskInv'
        BY <1>1, <1>2, <1>3 DEF TaskInv, LossEvents
    <2> QED BY <1>1, <1>3, <2>1, PhaseTask DEF PortSame
<1>4. CASE ~UNCHANGED hcd
    <2>1. /\ hcd.event = "NONE" /\ hcd.state \in {"DISABLED", "ENABLED"} /\ Enables
        BY <1>4 DEF PortReset, ResetPort
    <2>2. ptask.event = "CONNECTION" /\ hcd.seen /\ ~hcd.lock
        BY <1>2, <2>1
    <2>3. /\ hcd'.event = "NONE" /\ hcd'.powered = hcd.powered
          /\ hcd'.seen = hcd.seen /\ hcd'.lock = hcd.lock
          /\ \/ hcd'.state = "ENABLED" /\ hcd'.conn = TRUE
             \/ hcd'.state = "RESETTING" /\ hcd'.conn = FALSE
        BY <1>1, <2>1 DEF Enables, HcdRecord
    <2>4. SlotInv'
        BY <1>1, <2>1, <2>2, <2>3 DEF PhaseInv, SlotInv
    <2>5. StateInv'
        BY <2>2, <2>3 DEF StateInv
    <2>6. TaskInv'
        BY <1>1, <2>2 DEF TaskInv
    <2>7. BusyInv'
        BY <1>1, <1>2 DEF PhaseInv, BusyInv
    <2> QED BY <2>4, <2>5, <2>6, <2>7 DEF PhaseInv
<1> QED BY <1>3, <1>4

\* The power of the port is switched, and it recovers.
LEMMA PowerPhase ==
    ASSUME TypeInv, PhaseInv, PortOff \/ PortRecover \/ PortOn
    PROVE  PhaseInv'
<1>1. /\ hcd \in HcdRecord /\ ptask \in TaskRecord
      /\ UNCHANGED <<portq, client>> /\ ptask'.event = ptask.event
      /\ ptask.at \in {"off", "recover", "on"} /\ ptask'.at \in {"idle", "on"}
    BY DEF TypeInv, UsbhTypeOK, PortOff, PortRecover, PortOn, PortGoes, TaskRecord
<1>2. ~hcd.conn /\ hcd.event \notin LossEvents
    BY <1>1 DEF PhaseInv, TaskInv
<1>3. CASE UNCHANGED hcd
    <2>1. TaskInv'
        BY <1>1, <1>2, <1>3 DEF TaskInv, LossEvents
    <2> QED BY <1>1, <1>3, <2>1, PhaseTask DEF PortSame
<1>4. CASE ~UNCHANGED hcd
    <2>1. /\ hcd.event = "NONE" /\ hcd'.event = "NONE" /\ hcd'.conn = FALSE
          /\ \/ /\ hcd'.state = "NOT_POWERED" /\ hcd'.powered = FALSE
             \/ hcd'.state = "DISCONNECTED"
        BY <1>1, <1>2, <1>4 DEF PortOff, PortRecover, PortOn, CanRecover, HcdRecord
    <2>2. SlotInv'
        BY <1>1, <2>1 DEF PhaseInv, SlotInv
    <2>3. StateInv'
        BY <2>1 DEF StateInv
    <2>4. TaskInv'
        BY <1>1, <2>1 DEF TaskInv, LossEvents
    <2>5. BusyInv'
        BY <1>1, <1>2 DEF PhaseInv, BusyInv
    <2> QED BY <2>2, <2>3, <2>4, <2>5 DEF PhaseInv
<1> QED BY <1>3, <1>4

\* Every step of the port event task keeps the phase.
LEMMA PortPhase ==
    ASSUME TypeInv, PhaseInv, PortNext
    PROVE  PhaseInv'
<1>1. hcd \in HcdRecord /\ ptask \in TaskRecord /\ portq \in Seq(PortEvents)
    BY DEF TypeInv, UsbhTypeOK
<1>2. CASE PortReceive
    <2>1. /\ portq # <<>> /\ portq = <<hcd.event>> /\ hcd.event # "NONE" /\ UNCHANGED <<hcd, client>>
        BY <1>2 DEF PhaseInv, SlotInv, PortReceive
    <2>2. portq' = <<>> /\ ptask'.at = "find" /\ ptask'.event = hcd.event
        BY <1>2, <2>1 DEF PortReceive, Idle
    <2>3. SlotInv' /\ StateInv'
        BY <2>1, <2>2 DEF PhaseInv, SlotInv, StateInv
    <2>4. TaskInv' /\ BusyInv'
        BY <2>1, <2>2 DEF PhaseInv, TaskInv, BusyInv
    <2> QED BY <2>3, <2>4 DEF PhaseInv
<1>3. CASE PortFind
    <2>1. /\ UNCHANGED <<hcd, portq, client>> /\ ptask.at = "find" /\ ptask'.at = "handle"
          /\ ptask'.event = ptask.event
        BY <1>1, <1>3 DEF PortFind, BelowUnchanged, TaskRecord
    <2>2. SlotInv' /\ StateInv'
        BY <2>1 DEF PhaseInv, SlotInv, StateInv
    <2>3. TaskInv' /\ BusyInv'
        BY <2>1 DEF PhaseInv, TaskInv, BusyInv
    <2> QED BY <2>2, <2>3 DEF PhaseInv
<1>4. CASE PortLookup \/ PortAlloc \/ PortRegister \/ PortSudden
    <2>1. /\ UNCHANGED <<portq, client>> /\ PortSame
          /\ ptask'.event = ptask.event
          /\ ptask.at \in {"lookup", "alloc", "register", "sudden"}
          /\ ptask'.at \in {"idle", "stopped", "alloc", "register", "connect", "close"}
        BY <1>1, <1>4 DEF PortLookup, PortAlloc, PortRegister, PortSudden, BelowUnchanged,
           NewPipe, PortGoes, PortStops, TaskRecord, HcdRecord, PortSame
    <2>2. /\ ptask'.at = "close" => ptask.at = "sudden"
          /\ ptask'.at = "register" => ptask.at = "alloc"
          /\ ptask'.at = "alloc" => hcd.state = "ENABLED"
        BY <1>1, <1>4 DEF PortLookup, PortAlloc, PortRegister, PortSudden, PortGoes, PortStops,
           TaskRecord
    <2>3. ptask.at = "sudden" => ptask.event # "DISCONNECTION"
        BY DEF PhaseInv, TaskInv
    <2>4. TaskInv'
        BY <2>1, <2>2, <2>3 DEF PhaseInv, StateInv, TaskInv, PortSame, LossEvents
    <2> QED BY <2>1, <2>4, PhaseTask
<1>5. CASE PortConnect
    <2>1. /\ UNCHANGED <<hcd, portq>> /\ ptask.at = "connect" /\ ptask'.at = "idle"
          /\ \A t \in Clients : client'[t].result = client[t].result
        BY <1>1, <1>5, ClientsOK DEF PortConnect, BelowUnchanged, PortGoes, TaskRecord, Woken,
           ClientOK, ClientRecord
    <2>2. TaskInv'
        BY <2>1 DEF TaskInv
    <2> QED BY <2>1, <2>2, PhaseTask DEF PortSame
<1>6. CASE PortClose
    <2>1. /\ UNCHANGED portq /\ PortSame /\ ptask.at = "close" /\ ptask'.event = ptask.event
          /\ ptask'.at \in {"off", "recover", "on"}
          /\ ptask'.at = "off" => ptask.event = "DISCONNECTION"
        BY <1>1, <1>6 DEF PortClose, CloseDevice, FreePipes, PortGoes, TaskRecord, HcdRecord,
           PortSame
    <2>2. \A t \in Clients : client'[t].result = client[t].result
        BY <1>6, ClientsOK DEF PortClose, Told, ClientOK, ClientRecord
    <2>3. TaskInv'
        BY <2>1 DEF PhaseInv, TaskInv, PortSame, LossEvents
    <2> QED BY <2>1, <2>2, <2>3, PhaseTask
<1> QED BY <1>2, <1>3, <1>4, <1>5, <1>6, HandlePhase, ResetPhase, PowerPhase DEF PortNext

\* What a client does to the port: nothing, but for its pipes.  It begins a transfer only
\* while the port is enabled.
LEMMA ClientBelow ==
    ASSUME TypeInv, NEW t \in Clients, ClientCall(t) \/ ClientNext(t)
    PROVE  /\ UNCHANGED <<ptask, bus, portq>> /\ PortSame
           /\ \A u \in Clients : client'[u].result = "busy" =>
                  client[u].result = "busy" \/ hcd.state = "ENABLED"
<1>1. /\ hcd \in HcdRecord /\ DOMAIN client = Clients
      /\ \A u \in Clients : client[u] \in ClientRecord
    BY ClientsOK DEF TypeInv, UsbhTypeOK, ClientOK
<1>2. UNCHANGED <<ptask, bus, portq>> /\ PortSame
    BY <1>1 DEF ClientCall, ClientNext, OpenAgain, OpenBegin, OpenWait, OpenSearch, OpenFound,
       XferBegin, XferEnd, DescBegin, DescEnd, DescInfo, DescAddr, SetAddr, SetAddrBegin,
       SetAddrEnd, SetAddrUpdate, Update, EpLookup, EpAlloc, NewPipe, EpRegister, EpClose,
       DeviceClose, CloseDevice, FreePipes, ClientStep, BelowUnchanged, HcdRecord, PortSame
<1> SUFFICES ASSUME NEW u \in Clients, client'[u].result = "busy"
             PROVE  client[u].result = "busy" \/ hcd.state = "ENABLED"
    BY <1>2
<1>3. ASSUME NEW p, NEW place, Transfer(t, p, place)
      PROVE  client[u].result = "busy" \/ hcd.state = "ENABLED"
    <2>1. CASE Stops(t)
        BY <1>1, <2>1 DEF Stops, ClientRecord
    <2>2. CASE client' = [client EXCEPT ![t] = Begun(client[t], p, place)]
        <3>1. Begun(client[t], p, place).result = "busy" => hcd.state = "ENABLED"
            BY <1>1 DEF Begun, ClientRecord
        <3> QED BY <1>1, <2>2, <3>1
    <2> QED BY <1>3, <2>1, <2>2 DEF Transfer
<1>4. CASE XferBegin(t) \/ DescBegin(t) \/ SetAddrBegin(t)
    BY <1>3, <1>4 DEF XferBegin, DescBegin, SetAddrBegin
<1>5. ASSUME NEW place, Goes(t, place)
      PROVE  client[u].result = "busy" \/ hcd.state = "ENABLED"
    BY <1>1, <1>5 DEF Goes, ClientRecord
<1>6. ASSUME NEW c, c.result \in {"none", client[t].result}, client' = [client EXCEPT ![t] = c]
      PROVE  client[u].result = "busy" \/ hcd.state = "ENABLED"
    BY <1>1, <1>6
<1>7. CASE OpenAgain(t) \/ OpenBegin(t) \/ OpenWait(t) \/ SetAddrEnd(t)
    BY <1>5, <1>7 DEF OpenAgain, OpenBegin, OpenWait, SetAddrEnd
<1>8. CASE OpenSearch(t) \/ OpenFound(t) \/ XferEnd(t) \/ DescEnd(t)
    <2>1. CASE OpenSearch(t)
        <3>1. PICK c : /\ client' = [client EXCEPT ![t] = c]
                       /\ \/ c = [client[t] EXCEPT !.at = "open"]
                          \/ \E p : c = [client[t] EXCEPT !.at = "found", !.ctrl = p, !.ep = NoPipe]
            BY <1>1, <2>1 DEF OpenSearch
        <3>2. c.result = client[t].result
            BY <1>1, <3>1 DEF ClientRecord
        <3>3. c.result \in {"none", client[t].result} /\ client' = [client EXCEPT ![t] = c]
            BY <3>1, <3>2
        <3> QED BY <1>6, <3>3
    <2>2. CASE OpenFound(t)
        <3> DEFINE c == [client[t] EXCEPT !.at = "ready", !.idx = num_opened]
        <3>1. c.result = client[t].result /\ client' = [client EXCEPT ![t] = c]
            BY <1>1, <2>2 DEF OpenFound, ClientRecord
        <3> HIDE DEF c
        <3> QED BY <1>6, <3>1
    <2>3. CASE XferEnd(t) \/ DescEnd(t)
        <3>1. PICK place : client' = [client EXCEPT ![t] =
                              [client[t] EXCEPT !.at = place, !.on = NoPipe, !.result = "none"]]
            BY <1>1, <2>3 DEF XferEnd, DescEnd
        <3> DEFINE c == [client[t] EXCEPT !.at = place, !.on = NoPipe, !.result = "none"]
        <3>2. c.result = "none" /\ client' = [client EXCEPT ![t] = c]
            BY <1>1, <3>1 DEF ClientRecord
        <3> HIDE DEF c
        <3> QED BY <1>6, <3>2
    <2> QED BY <1>8, <2>1, <2>2, <2>3
<1>9. CASE DescInfo(t) \/ DescAddr(t) \/ SetAddr(t) \/ SetAddrUpdate(t)
    <2>1. CASE Stops(t)
        BY <1>1, <2>1 DEF Stops, ClientRecord
    <2>2. CASE Goes(t, "ready")
        BY <1>5, <2>2
    <2>3. CASE DescInfo(t)
        <3> DEFINE c == [client[t] EXCEPT !.at = "desc_addr", !.slot = Min(ControlSlots)]
        <3>1. c.result = client[t].result
            BY <1>1 DEF ClientRecord
        <3>2. Stops(t) \/ client' = [client EXCEPT ![t] = c]
            BY <2>3 DEF DescInfo
        <3> HIDE DEF c
        <3> QED BY <1>6, <2>1, <3>1, <3>2
    <2>4. CASE DescAddr(t)
        <3>1. PICK place : client' = [client EXCEPT ![t] =
                              [client[t] EXCEPT !.at = place, !.slot = 0]]
            BY <1>1, <2>4 DEF DescAddr
        <3> DEFINE c == [client[t] EXCEPT !.at = place, !.slot = 0]
        <3>2. c.result = client[t].result /\ client' = [client EXCEPT ![t] = c]
            BY <1>1, <3>1 DEF ClientRecord
        <3> HIDE DEF c
        <3> QED BY <1>6, <3>2
    <2>5. CASE SetAddr(t)
        <3> DEFINE c == [client[t] EXCEPT !.at = "addr_start", !.slot = Min(ControlSlots),
                                          !.addr = Min(FreeAddrs)]
        <3>1. c.result = client[t].result
            BY <1>1 DEF ClientRecord
        <3>2. Goes(t, "ready") \/ client' = [client EXCEPT ![t] = c]
            BY <2>5 DEF SetAddr
        <3> HIDE DEF c
        <3> QED BY <1>6, <2>2, <3>1, <3>2
    <2>6. CASE SetAddrUpdate(t)
        <3> DEFINE c == [client[t] EXCEPT !.at = "ready", !.on = NoPipe, !.slot = 0, !.addr = 0,
                                          !.result = "none"]
        <3>1. c.result = "none" /\ client' = [client EXCEPT ![t] = c]
            BY <1>1, <2>6 DEF SetAddrUpdate, ClientRecord
        <3> HIDE DEF c
        <3> QED BY <1>6, <3>1
    <2> QED BY <1>9, <2>3, <2>4, <2>5, <2>6
<1>10. CASE EpLookup(t) \/ EpAlloc(t) \/ EpRegister(t)
    <2>1. CASE EpLookup(t)
        <3>1. PICK a : client' = [client EXCEPT ![t] =
                          [client[t] EXCEPT !.at = "ep_alloc", !.addr = a]]
            BY <2>1 DEF EpLookup
        <3> DEFINE c == [client[t] EXCEPT !.at = "ep_alloc", !.addr = a]
        <3>2. c.result = client[t].result /\ client' = [client EXCEPT ![t] = c]
            BY <1>1, <3>1 DEF ClientRecord
        <3> HIDE DEF c
        <3> QED BY <1>6, <3>2
    <2>2. CASE EpAlloc(t)
        <3>1. PICK c : /\ client' = [client EXCEPT ![t] = c]
                       /\ \/ c = [client[t] EXCEPT !.at = "ready", !.addr = 0]
                          \/ \E p : c = [client[t] EXCEPT !.at = "ep_reg", !.on = p]
            BY <2>2 DEF EpAlloc
        <3>2. c.result = client[t].result
            BY <1>1, <3>1 DEF ClientRecord
        <3>3. c.result \in {"none", client[t].result} /\ client' = [client EXCEPT ![t] = c]
            BY <3>1, <3>2
        <3> QED BY <1>6, <3>3
    <2>3. CASE EpRegister(t)
        <3>1. PICK p : client' = [client EXCEPT ![t] =
                          [client[t] EXCEPT !.at = "ready", !.on = NoPipe, !.addr = 0, !.ep = p]]
            BY <2>3 DEF EpRegister
        <3> DEFINE c == [client[t] EXCEPT !.at = "ready", !.on = NoPipe, !.addr = 0, !.ep = p]
        <3>2. c.result = client[t].result /\ client' = [client EXCEPT ![t] = c]
            BY <1>1, <3>1 DEF ClientRecord
        <3> HIDE DEF c
        <3> QED BY <1>6, <3>2
    <2> QED BY <1>10, <2>1, <2>2, <2>3
<1>11. CASE EpClose(t)
    BY <1>1, <1>11 DEF EpClose, Stops, ClientRecord
<1>12. CASE DeviceClose(t)
    BY <1>1, <1>12 DEF DeviceClose, Told, ClientRecord
<1> QED BY <1>4, <1>7, <1>8, <1>9, <1>10, <1>11, <1>12 DEF ClientCall, ClientNext

\* Where the bus waits for the port to handle its events, the port, the device and the
\* event on its way are in one of the phases of PhaseInv, one event at a time.
THEOREM PhaseKept ==
    ASSUME "slow" \in Rules
    PROVE  UsbhSpec => []PhaseInv
<1>1. UsbhInit => PhaseInv
    <2> SUFFICES ASSUME UsbhInit
                 PROVE  PhaseInv
        OBVIOUS
    <2>1. /\ portq = <<>> /\ ptask.at = "idle" /\ hcd.event = "NONE" /\ hcd.conn = FALSE
          /\ hcd.state = "DISCONNECTED" /\ \A t \in Clients : client[t].result = "none"
        BY DEF UsbhInit, Idle, PoweredPort, NewClient
    <2> QED BY <2>1 DEF PhaseInv, SlotInv, StateInv, TaskInv, BusyInv
<1>2. TypeInv /\ PhaseInv /\ [UsbhNext]_usbhVars => PhaseInv'
    <2> SUFFICES ASSUME TypeInv, PhaseInv, [UsbhNext]_usbhVars
                 PROVE  PhaseInv'
        OBVIOUS
    <2>1. CASE UNCHANGED usbhVars
        BY <2>1 DEF usbhVars, PhaseInv, SlotInv, StateInv, TaskInv, BusyInv
    <2>2. ASSUME NEW t \in Clients, ClientCall(t) \/ ClientNext(t)
          PROVE  PhaseInv'
        BY <2>2, ClientBelow, PhaseBeside
    <2> QED BY <2>1, <2>2, BusPhase, PortPhase DEF UsbhNext
<1> QED BY <1>1, <1>2, TypesKept, PTL DEF UsbhSpec

-----------------------------------------------------------------------------
(* One control pipe *)

\* When pipes of a device may be left: it is there, its loss is to be handled, it was
\* disabled by an error, or the task is about to close it.
MayHavePipes ==
    \/ hcd.event \in {"DISCONNECTION", "ERROR", "SUDDEN_DISCONN"}
    \/ hcd.seen /\ hcd.event = "NONE"
    \/ ptask.at = "close" /\ ptask.event = "DISCONNECTION"
    \/ hcd.state = "RECOVERY"

ControlInv ==
    /\ ControlSlots # {} => MayHavePipes
    /\ ptask.at \in {"lookup", "alloc", "register", "recover"} => ControlSlots = {}
    /\ ptask.at = "reset" /\ ptask.event = "CONNECTION" => ControlSlots = {}
    /\ \A i, j \in ControlSlots : i = j

\* That is so until the task closes them, or the port recovers.
LEMMA MayStay ==
    ASSUME TypeInv, "slow" \in Rules, PhaseInv, UsbhNext, MayHavePipes,
           ~PortClose, ~(PortRecover /\ CanRecover)
    PROVE  MayHavePipes'
<1>1. hcd \in HcdRecord /\ ptask \in TaskRecord
    BY DEF TypeInv, UsbhTypeOK
<1>2. ASSUME PortSame, UNCHANGED ptask \/ ptask.at # "close"
      PROVE  MayHavePipes'
    BY <1>2 DEF MayHavePipes, PortSame
<1>3. CASE BusNext
    <2>1. CASE Plug \/ Unplug \/ \E t \in Clients : TransferOk(t) \/ TransferError(t)
        <3>1. UNCHANGED <<hcd, ptask>>
            BY <2>1 DEF Plug, Unplug, BusStep, TransferOk, TransferError, BelowUnchanged
        <3> QED BY <1>2, <3>1 DEF PortSame
    <2>2. CASE IsrConnection
        <3>1. UNCHANGED ptask /\ ~hcd.seen /\ hcd.event = "NONE" /\ hcd'.state = hcd.state
            BY <1>1, <2>2 DEF IsrConnection, Connects, BusStep, Event, Keeps, HcdRecord
        <3> QED BY <3>1 DEF MayHavePipes
    <2>3. CASE IsrDisconnection \/ IsrError
        <3>1. hcd'.event \in {"DISCONNECTION", "ERROR", "SUDDEN_DISCONN"}
            BY <1>1, <2>3 DEF IsrDisconnection, IsrError, Event, HcdRecord
        <3> QED BY <3>1 DEF MayHavePipes
    <2> QED BY <1>3, <2>1, <2>2, <2>3 DEF BusNext
<1>4. CASE PortNext
    <2>1. CASE PortReceive \/ PortFind \/ PortConnect \/ PortLookup \/ PortAlloc
               \/ PortRegister \/ PortSudden
        <3>1. PortSame /\ ptask.at # "close"
            BY <1>1, <2>1 DEF PortReceive, PortFind, PortConnect, PortLookup, PortAlloc,
               PortRegister, PortSudden, BelowUnchanged, NewPipe, PortSame, HcdRecord
        <3> QED BY <1>2, <3>1
    <2>2. CASE PortHandle
        <3>1. /\ ptask.at = "handle" /\ ptask.event = hcd.event /\ hcd.event \in PortEvents
            BY <1>1, <2>2 DEF PortHandle, PhaseInv, SlotInv, HcdRecord
        <3>2. hcd.event # "CONNECTION"
            BY <3>1 DEF MayHavePipes, PhaseInv, StateInv
        <3>3. CASE hcd.event = "DISCONNECTION"
            <4>1. ptask'.at = "close" /\ ptask'.event = "DISCONNECTION"
                BY <1>1, <2>2, <3>1, <3>3 DEF PortHandle, PortGoes, TaskRecord
            <4> QED BY <4>1 DEF MayHavePipes
        <3>4. CASE hcd.event \in LossEvents
            <4>1. hcd'.event = "NONE" /\ hcd'.state = hcd.state /\ hcd'.seen = hcd.seen
                BY <1>1, <2>2, <3>4 DEF PortHandle, HandleLoss, HandleConnection, HandleNothing,
                   HcdRecord, LossEvents
            <4> QED BY <3>4, <4>1 DEF MayHavePipes, PhaseInv, StateInv, LossEvents
        <3> QED BY <3>1, <3>2, <3>3, <3>4 DEF PortEvents, LossEvents
    <2>3. CASE PortReset
        <3>1. CASE UNCHANGED hcd
            BY <1>2, <2>3, <3>1 DEF PortReset, PortSame
        <3>2. CASE ~UNCHANGED hcd
            <4>1. hcd.event = "NONE" /\ hcd.state \in {"DISABLED", "ENABLED"} /\ Enables
                BY <2>3, <3>2 DEF PortReset, ResetPort
            <4>2. hcd'.event = hcd.event /\ hcd'.seen = hcd.seen
                BY <1>1, <4>1 DEF Enables, HcdRecord
            <4>3. ptask.at = "reset"
                BY <2>3 DEF PortReset
            <4> QED BY <4>1, <4>2, <4>3 DEF MayHavePipes
        <3> QED BY <3>1, <3>2
    <2>4. CASE PortOff \/ PortRecover \/ PortOn
        <3>1. ptask.at \in {"off", "recover", "on"}
            BY <2>4 DEF PortOff, PortRecover, PortOn
        <3>2. CASE UNCHANGED hcd
            BY <1>2, <3>1, <3>2 DEF PortSame
        <3>3. CASE ~UNCHANGED hcd
            <4>1. hcd.event = "NONE" /\ hcd'.event = hcd.event /\ hcd'.seen = hcd.seen
                BY <1>1, <2>4, <3>3 DEF PortOff, PortRecover, PortOn, HcdRecord
            <4>2. hcd.state # "RECOVERY"
                BY <2>4, <3>3 DEF PortOff, PortRecover, PortOn, PhaseInv, TaskInv
            <4> QED BY <3>1, <4>1, <4>2 DEF MayHavePipes
        <3> QED BY <3>2, <3>3
    <2> QED BY <1>4, <2>1, <2>2, <2>3, <2>4 DEF PortNext
<1>5. ASSUME NEW t \in Clients, ClientCall(t) \/ ClientNext(t)
      PROVE  MayHavePipes'
    BY <1>2, <1>5, ClientBelow
<1> QED BY <1>3, <1>4, <1>5 DEF UsbhNext

\* Once the loss is handled no transfer is left, so the whole device is closed.
LEMMA ClosesAll ==
    ASSUME TypeInv, PhaseInv, PortClose
    PROVE  Closed = Used /\ \A i \in Slots : open_pipes'[i].pipe = NoPipe
<1>1. \A t \in Clients : client[t].result # "busy"
    BY DEF PortClose, PhaseInv, TaskInv, BusyInv
<1>2. Closed = Used
    BY <1>1 DEF Closed, CanClose, Waiting
<1>3. \A i \in Slots \ Used : open_pipes[i].pipe = NoPipe
    BY DEF Used
<1> QED BY <1>2, <1>3 DEF PortClose, CloseDevice, Cleared, Empty

\* Control pipes are only entered by the port task.
LEMMA ControlKept ==
    ASSUME TypeInv, UsbhNext, ~PortRegister
    PROVE  ControlSlots' \subseteq ControlSlots
<1>1. open_pipes \in [Slots -> Entry] /\ NoPipe \notin Pipes
    BY UsbhAssumption DEF TypeInv, UsbhTypeOK
<1>2. ASSUME UNCHANGED open_pipes
      PROVE  ControlSlots' \subseteq ControlSlots
    BY <1>2 DEF ControlSlots, Used
<1>3. ASSUME NEW S, open_pipes' = Cleared(S)
      PROVE  ControlSlots' \subseteq ControlSlots
    BY <1>3 DEF ControlSlots, Used, Cleared, Empty
<1>4. ASSUME NEW i \in Slots, NEW a, open_pipes' = [open_pipes EXCEPT ![i].addr = a]
      PROVE  ControlSlots' \subseteq ControlSlots
    BY <1>1, <1>4 DEF ControlSlots, Used, Entry
<1>5. CASE BusNext
    <2>1. UNCHANGED open_pipes
        BY <1>5 DEF BusNext, Plug, Unplug, IsrConnection, IsrDisconnection, IsrError,
           TransferOk, TransferError, BusStep, TableUnchanged
    <2> QED BY <1>2, <2>1
<1>6. CASE PortNext
    <2>1. UNCHANGED open_pipes \/ open_pipes' = Cleared(Closed)
        BY <1>6 DEF PortNext, PortReceive, PortFind, PortHandle, PortReset, PortLookup,
           PortAlloc, PortConnect, PortSudden, PortClose, CloseDevice, PortOff,
           PortRecover, PortOn, TableUnchanged
    <2> QED BY <1>2, <1>3, <2>1
<1>7. ASSUME NEW t \in Clients, ClientCall(t) \/ ClientNext(t)
      PROVE  ControlSlots' \subseteq ControlSlots
    <2>1. CASE EpClose(t) \/ DeviceClose(t)
        BY <1>2, <1>3, <2>1 DEF EpClose, DeviceClose, CloseDevice
    <2>2. CASE SetAddr(t)
        <3>1. \/ UNCHANGED open_pipes
              \/ /\ ControlSlots # {}
                 /\ open_pipes' = [open_pipes EXCEPT ![Min(ControlSlots)].addr = Min(FreeAddrs)]
            BY <2>2 DEF SetAddr
        <3> QED BY <1>2, <1>4, <3>1, Tables
    <2>3. CASE SetAddrUpdate(t)
        <3>1. client[t].slot \in Slots
            BY <2>3, ClientsOK DEF SetAddrUpdate, ClientOK, AssignPlaces
        <3> QED BY <1>2, <1>4, <2>3, <3>1 DEF SetAddrUpdate
    <2>4. CASE EpRegister(t) /\ FreeSlots # {}
        <3>1. /\ Max(FreeSlots) \in Slots
              /\ open_pipes' = [open_pipes EXCEPT ![Max(FreeSlots)] =
                    [pipe |-> client[t].on, nth_open |-> num_opened, is_control |-> FALSE,
                     addr |-> client[t].addr]]
            BY <2>4, Tables DEF EpRegister, Registered
        <3>2. open_pipes'[Max(FreeSlots)].is_control = FALSE
            BY <1>1, <3>1
        <3>3. \A i \in Slots : i # Max(FreeSlots) => open_pipes'[i] = open_pipes[i]
            BY <1>1, <3>1
        <3> QED BY <3>2, <3>3 DEF ControlSlots, Used
    <2>5. CASE EpRegister(t) /\ FreeSlots = {}
        BY <1>2, <2>5 DEF EpRegister
    <2>6. CASE ~(EpClose(t) \/ DeviceClose(t) \/ SetAddr(t) \/ SetAddrUpdate(t) \/ EpRegister(t))
        <3>1. UNCHANGED open_pipes
            BY <1>7, <2>6 DEF ClientCall, ClientNext, OpenAgain, OpenBegin, OpenWait,
               OpenSearch, OpenFound, XferBegin, XferEnd, DescBegin, DescEnd, DescInfo, DescAddr,
               SetAddrBegin, SetAddrEnd, EpLookup, EpAlloc, TableUnchanged
        <3> QED BY <1>2, <3>1
    <2> QED BY <2>1, <2>2, <2>3, <2>4, <2>5, <2>6
<1> QED BY <1>5, <1>6, <1>7 DEF UsbhNext

\* Where the port task is after a step of its own.
LEMMA TaskGoes ==
    ASSUME TypeInv, UsbhNext
    PROVE  \/ UNCHANGED ptask
           \/ ptask'.at \in {"idle", "find", "handle", "sudden", "close", "on", "off", "connect",
                            "stopped"}
           \/ ptask.at = "handle" /\ ptask'.at = "reset" /\ PortHandle
                 /\ ptask'.event = ptask.event
           \/ ptask.at = "reset" /\ ptask'.at = "lookup" /\ ptask.event = "CONNECTION"
           \/ ptask.at = "lookup" /\ ptask'.at = "alloc"
           \/ ptask.at = "alloc" /\ ptask'.at = "register" /\ PortAlloc
           \/ ptask'.at = "recover" /\ PortClose
<1>1. ptask \in TaskRecord
    BY DEF TypeInv, UsbhTypeOK
<1>2. CASE BusNext
    BY <1>2 DEF BusNext, Plug, Unplug, IsrConnection, IsrDisconnection, IsrError, TransferOk,
       TransferError, BusStep
<1>3. ASSUME NEW t \in Clients, ClientCall(t) \/ ClientNext(t)
      PROVE  UNCHANGED ptask
    BY <1>3, ClientBelow
<1>4. CASE PortNext
    <2>1. CASE PortReceive \/ PortFind \/ PortConnect \/ PortRegister \/ PortSudden
        BY <1>1, <2>1 DEF PortReceive, PortFind, PortConnect, PortRegister, PortSudden, PortGoes,
           PortStops, TaskRecord, Idle
    <2>2. CASE PortHandle
        BY <1>1, <2>2 DEF PortHandle, PortGoes, TaskRecord, TypeInv, PlaceInv, PortEvents
    <2>3. CASE PortReset \/ PortLookup \/ PortAlloc
        BY <1>1, <2>3 DEF PortReset, PortLookup, PortAlloc, PortGoes, PortStops, TaskRecord
    <2>4. CASE PortClose \/ PortOff \/ PortRecover \/ PortOn
        BY <1>1, <2>4 DEF PortClose, PortOff, PortRecover, PortOn, PortGoes, TaskRecord
    <2> QED BY <1>4, <2>1, <2>2, <2>3, <2>4 DEF PortNext
<1> QED BY <1>2, <1>3, <1>4 DEF UsbhNext

\* With the rule "slow" alone, the device layer never has two control pipes.
THEOREM ControlKeptSingle ==
    ASSUME "slow" \in Rules
    PROVE  UsbhSpec => []ControlInv
<1>1. UsbhInit => ControlInv
    <2> SUFFICES ASSUME UsbhInit
                 PROVE  ControlInv
        OBVIOUS
    <2>1. ControlSlots = {}
        BY DEF UsbhInit, Empty, ControlSlots, Used
    <2> QED BY <2>1 DEF ControlInv
<1>2. TypeInv /\ PhaseInv /\ ControlInv /\ TypeInv' /\ PhaseInv' /\ [UsbhNext]_usbhVars
         => ControlInv'
    <2> SUFFICES ASSUME TypeInv, PhaseInv, ControlInv, TypeInv', PhaseInv', [UsbhNext]_usbhVars
                 PROVE  ControlInv'
        OBVIOUS
    <2>1. CASE UNCHANGED usbhVars
        BY <2>1 DEF usbhVars, ControlInv, ControlSlots, Used, MayHavePipes
    <2>2. CASE PortRegister
        <3>1. /\ ptask.at = "register" /\ ptask'.at = "connect" /\ UNCHANGED hcd
              /\ ControlSlots = {}
            BY <2>2 DEF PortRegister, BelowUnchanged, TypeInv, UsbhTypeOK, TaskRecord, ControlInv
        <3>2. MayHavePipes'
            BY <3>1 DEF PhaseInv, StateInv, TaskInv, LossEvents, MayHavePipes
        <3>3. \A i, j \in ControlSlots' : i = j
            <4>1. CASE FreeSlots = {}
                BY <2>2, <3>1, <4>1 DEF PortRegister, ControlSlots, Used
            <4>2. CASE FreeSlots # {}
                <5>1. \A i \in Slots : i # Max(FreeSlots) => open_pipes'[i] = open_pipes[i]
                    BY <2>2, <4>2, Tables DEF PortRegister, Registered
                <5> QED BY <3>1, <5>1 DEF ControlSlots, Used
            <4> QED BY <4>1, <4>2
        <3> QED BY <3>1, <3>2, <3>3 DEF ControlInv
    <2>3. CASE UsbhNext /\ ~PortRegister
        <3>1. ControlSlots' \subseteq ControlSlots
            BY <2>3, ControlKept
        <3>2. ControlSlots' # {} => MayHavePipes'
            <4>1. CASE PortClose
                BY <4>1, ClosesAll DEF ControlSlots, Used, Empty
            <4>2. CASE PortRecover
                BY <3>1, <4>2 DEF PortRecover, ControlInv
            <4> QED BY <2>3, <3>1, <4>1, <4>2, MayStay DEF ControlInv
        <3>3. /\ ptask'.at \in {"lookup", "alloc", "register", "recover"} => ControlSlots' = {}
              /\ ptask'.at = "reset" /\ ptask'.event = "CONNECTION" => ControlSlots' = {}
            <4>1. CASE PortClose
                BY <4>1, ClosesAll DEF ControlSlots, Used, Empty
            <4>2. CASE ~PortClose /\ PortHandle
                <5>1. ptask.at = "handle" /\ ptask.event = hcd.event
                    BY <4>2 DEF PortHandle, PhaseInv, SlotInv
                <5>2. hcd.event = "CONNECTION" => ControlSlots = {}
                    BY <5>1 DEF ControlInv, MayHavePipes, PhaseInv, StateInv
                <5> QED BY <2>3, <3>1, <4>2, <5>1, <5>2, TaskGoes
            <4>3. CASE ~PortClose /\ ~PortHandle
                BY <2>3, <3>1, <4>3, TaskGoes DEF ControlInv
            <4> QED BY <4>1, <4>2, <4>3
        <3> QED BY <3>1, <3>2, <3>3 DEF ControlInv
    <2> QED BY <2>1, <2>2, <2>3
<1> QED BY <1>1, <1>2, TypesKept, PhaseKept, PTL DEF UsbhSpec

\* With the rule "slow" there is at most one control pipe in every history: the one of a lost
\* device is closed before the next device is asked for its own.
THEOREM ControlPipeIsOne ==
    ASSUME "slow" \in Rules
    PROVE  UsbhSpec => []OneControlPipe
<1>1. TypeInv /\ ControlInv => OneControlPipe
    <2> SUFFICES ASSUME TypeInv, ControlInv
                 PROVE  OneControlPipe
        OBVIOUS
    <2>1. CASE ControlSlots = {}
        BY <2>1, FS_EmptySet DEF OneControlPipe
    <2>2. CASE ControlSlots # {}
        <3>1. PICK i \in ControlSlots : TRUE
            BY <2>2
        <3>2. ControlSlots = {i}
            BY <3>1 DEF ControlInv
        <3>3. Cardinality({i}) = 1
            BY FS_Singleton
        <3> QED BY <3>2, <3>3 DEF OneControlPipe
    <2> QED BY <2>1, <2>2
<1> QED BY <1>1, TypesKept, ControlKeptSingle, PTL

-----------------------------------------------------------------------------
(* No pipe of a lost device *)

\* A client is about to have another pipe.
Opening(t) == client[t].at \in {"ep_alloc", "ep_reg"}
AllClosed == (\A p \in Pipes : Freed(p)) /\ \A t \in Clients : ~Opening(t)

ClosedInv ==
    /\ ~AllClosed => MayHavePipes
    /\ ptask.at = "recover" => AllClosed
    /\ ptask.at = "reset" /\ ptask.event = "CONNECTION" => AllClosed
    /\ ConnectedIsValid

\* What a client's step does to its own place, and to the others.
LEMMA ClientGoes ==
    ASSUME TypeInv, NEW t \in Clients, ClientCall(t) \/ ClientNext(t)
    PROVE  /\ \A u \in Clients : u # t =>
                  /\ client'[u].at = client[u].at /\ client'[u].slot = client[u].slot
                  /\ client'[u].addr = client[u].addr /\ client'[u].on = client[u].on
                  /\ client'[u].result = client[u].result
           /\ \/ EpLookup(t) \/ EpAlloc(t) \/ SetAddr(t) \/ SetAddrBegin(t) \/ SetAddrEnd(t)
              \/ /\ client[t].at \in AssignPlaces => SetAddrUpdate(t)
                 /\ client'[t].at \notin AssignPlaces /\ ~Opening(t)'
<1>1. DOMAIN client = Clients /\ \A u \in Clients : client[u] \in ClientRecord
    BY ClientsOK DEF ClientOK
<1>2. ASSUME NEW c, client' = [client EXCEPT ![t] = c]
      PROVE  /\ \A u \in Clients : u # t => client'[u] = client[u]
             /\ client'[t] = c
    BY <1>1, <1>2
<1>3. ASSUME NEW place, Goes(t, place)
      PROVE  /\ \A u \in Clients : u # t => client'[u] = client[u]
             /\ client'[t].at = place
    BY <1>1, <1>3 DEF Goes, ClientRecord
<1>4. ASSUME Stops(t)
      PROVE  /\ \A u \in Clients : u # t => client'[u] = client[u]
             /\ client'[t].at = "stopped"
    BY <1>1, <1>4 DEF Stops, ClientRecord
<1>5. ASSUME NEW p, NEW place, Transfer(t, p, place)
      PROVE  /\ \A u \in Clients : u # t => client'[u] = client[u]
             /\ client'[t].at \in {"stopped", place}
    <2>1. CASE client' = [client EXCEPT ![t] = Begun(client[t], p, place)]
        <3>1. Begun(client[t], p, place).at = place
            BY <1>1 DEF Begun, ClientRecord
        <3> QED BY <1>2, <2>1, <3>1
    <2> QED BY <1>4, <1>5, <2>1 DEF Transfer
<1>6. CASE OpenAgain(t) \/ OpenBegin(t) \/ OpenWait(t)
    <2>1. PICK place \in {"open", "wait", "search", "blocked"} : Goes(t, place)
        BY <1>6 DEF OpenAgain, OpenBegin, OpenWait
    <2>2. client[t].at \notin AssignPlaces
        BY <1>6 DEF OpenAgain, OpenBegin, OpenWait, AssignPlaces
    <2> QED BY <1>3, <2>1, <2>2 DEF Opening, AssignPlaces
<1>7. CASE XferBegin(t) \/ DescBegin(t)
    <2>1. (\E p : Transfer(t, p, "xfer")) \/ Transfer(t, client[t].ctrl, "desc")
        BY <1>7 DEF XferBegin, DescBegin
    <2>2. client[t].at \notin AssignPlaces
        BY <1>7 DEF XferBegin, DescBegin, AssignPlaces
    <2> QED BY <1>5, <2>1, <2>2 DEF Opening, AssignPlaces
<1>8. CASE OpenSearch(t)
    <2>1. PICK c : /\ client' = [client EXCEPT ![t] = c]
                   /\ \/ c = [client[t] EXCEPT !.at = "open"]
                      \/ \E p : c = [client[t] EXCEPT !.at = "found", !.ctrl = p, !.ep = NoPipe]
        BY <1>1, <1>8 DEF OpenSearch
    <2>2. c.at \in {"open", "found"}
        BY <1>1, <2>1 DEF ClientRecord
    <2>3. client[t].at \notin AssignPlaces
        BY <1>8 DEF OpenSearch, AssignPlaces
    <2> QED BY <1>2, <2>1, <2>2, <2>3 DEF Opening, AssignPlaces
<1>9. CASE OpenFound(t)
    <2> DEFINE c == [client[t] EXCEPT !.at = "ready", !.idx = num_opened]
    <2>1. c.at = "ready" /\ client' = [client EXCEPT ![t] = c]
        BY <1>1, <1>9 DEF OpenFound, ClientRecord
    <2>2. client[t].at \notin AssignPlaces
        BY <1>9 DEF OpenFound, AssignPlaces
    <2> HIDE DEF c
    <2> QED BY <1>2, <2>1, <2>2 DEF Opening, AssignPlaces
<1>10. CASE XferEnd(t) \/ DescEnd(t)
    <2>1. PICK place \in {"ready", "desc_lock"} : client' = [client EXCEPT ![t] =
                          [client[t] EXCEPT !.at = place, !.on = NoPipe, !.result = "none"]]
        BY <1>1, <1>10 DEF XferEnd, DescEnd
    <2> DEFINE c == [client[t] EXCEPT !.at = place, !.on = NoPipe, !.result = "none"]
    <2>2. c.at = place /\ client' = [client EXCEPT ![t] = c]
        BY <1>1, <2>1 DEF ClientRecord
    <2>3. client[t].at \notin AssignPlaces
        BY <1>10 DEF XferEnd, DescEnd, Ended, AssignPlaces
    <2> HIDE DEF c
    <2> QED BY <1>2, <2>2, <2>3 DEF Opening, AssignPlaces
<1>11. CASE DescInfo(t)
    <2> DEFINE c == [client[t] EXCEPT !.at = "desc_addr", !.slot = Min(ControlSlots)]
    <2>1. c.at = "desc_addr"
        BY <1>1 DEF ClientRecord
    <2>2. Stops(t) \/ client' = [client EXCEPT ![t] = c]
        BY <1>11 DEF DescInfo
    <2>3. client[t].at \notin AssignPlaces
        BY <1>11 DEF DescInfo, AssignPlaces
    <2> HIDE DEF c
    <2> QED BY <1>2, <1>4, <2>1, <2>2, <2>3 DEF Opening, AssignPlaces
<1>12. CASE DescAddr(t)
    <2>1. PICK place \in {"ready", "addr_lock"} : client' = [client EXCEPT ![t] =
                          [client[t] EXCEPT !.at = place, !.slot = 0]]
        BY <1>1, <1>12 DEF DescAddr
    <2> DEFINE c == [client[t] EXCEPT !.at = place, !.slot = 0]
    <2>2. c.at = place /\ client' = [client EXCEPT ![t] = c]
        BY <1>1, <2>1 DEF ClientRecord
    <2>3. client[t].at \notin AssignPlaces
        BY <1>12 DEF DescAddr, AssignPlaces
    <2> HIDE DEF c
    <2> QED BY <1>2, <2>2, <2>3 DEF Opening, AssignPlaces
<1>13. CASE SetAddrUpdate(t)
    <2> DEFINE c == [client[t] EXCEPT !.at = "ready", !.on = NoPipe, !.slot = 0, !.addr = 0,
                                      !.result = "none"]
    <2>1. c.at = "ready" /\ client' = [client EXCEPT ![t] = c]
        BY <1>1, <1>13 DEF SetAddrUpdate, ClientRecord
    <2> HIDE DEF c
    <2> QED BY <1>2, <1>13, <2>1 DEF Opening, AssignPlaces
<1>14. CASE SetAddr(t) \/ EpLookup(t) \/ EpAlloc(t)
    <2>1. \A u \in Clients : u # t => client'[u] = client[u]
        BY <1>1, <1>14 DEF SetAddr, EpLookup, EpAlloc, Goes
    <2> QED BY <1>14, <2>1
<1>15. CASE SetAddrBegin(t) \/ SetAddrEnd(t)
    BY <1>3, <1>5, <1>15 DEF SetAddrBegin, SetAddrEnd
<1>16. CASE EpRegister(t)
    <2>1. PICK p : client' = [client EXCEPT ![t] =
                      [client[t] EXCEPT !.at = "ready", !.on = NoPipe, !.addr = 0, !.ep = p]]
        BY <1>16 DEF EpRegister
    <2> DEFINE c == [client[t] EXCEPT !.at = "ready", !.on = NoPipe, !.addr = 0, !.ep = p]
    <2>2. c.at = "ready" /\ client' = [client EXCEPT ![t] = c]
        BY <1>1, <2>1 DEF ClientRecord
    <2>3. client[t].at \notin AssignPlaces
        BY <1>16 DEF EpRegister, AssignPlaces
    <2> HIDE DEF c
    <2> QED BY <1>2, <2>2, <2>3 DEF Opening, AssignPlaces
<1>17. CASE EpClose(t)
    <2>1. client[t].at = "ready"
        BY <1>17 DEF EpClose
    <2>2. \/ Stops(t) \/ UNCHANGED client \/ client' = [client EXCEPT ![t].ep = NoPipe]
        BY <1>17 DEF EpClose
    <2>3. /\ \A u \in Clients : u # t => client'[u] = client[u]
          /\ client'[t].at \in {"ready", "stopped"}
        BY <1>1, <1>4, <2>1, <2>2 DEF ClientRecord
    <2> QED BY <2>1, <2>3 DEF Opening, AssignPlaces
<1>18. CASE DeviceClose(t)
    <2>1. /\ client[t].at = "ready" /\ client'[t].at = "open"
          /\ \A u \in Clients : u # t => client'[u] = Told(client[u], ClosedPipes)
        BY <1>1, <1>18 DEF DeviceClose, Told, ClientRecord
    <2>2. \A u \in Clients :
              LET d == Told(client[u], ClosedPipes)
              IN  /\ d.at = client[u].at /\ d.slot = client[u].slot /\ d.addr = client[u].addr
                  /\ d.on = client[u].on /\ d.result = client[u].result
        BY <1>1 DEF Told, ClientRecord
    <2> QED BY <2>1, <2>2 DEF Opening, AssignPlaces
<1> QED BY <1>6, <1>7, <1>8, <1>9, <1>10, <1>11, <1>12, <1>13, <1>14, <1>15, <1>16, <1>17, <1>18
        DEF ClientCall, ClientNext

\* When everything is closed, only the port task opens a pipe, for a device that is there.
LEMMA ClosedKept ==
    ASSUME TypeInv, TableInv, UsbhNext, AllClosed, ~(PortAlloc /\ CanAlloc)
    PROVE  AllClosed'
<1>1. /\ hcd \in HcdRecord /\ open_pipes \in [Slots -> Entry]
      /\ DOMAIN client = Clients /\ \A u \in Clients : client[u] \in ClientRecord
    BY ClientsOK DEF TypeInv, UsbhTypeOK, ClientOK
<1>2. /\ \A p \in Pipes : Freed(p)
      /\ \A u \in Clients : client[u].at \notin {"ep_alloc", "ep_reg"}
      /\ \A i \in Slots : open_pipes[i] = Empty
    BY <1>1 DEF AllClosed, Opening, TableInv, InTable, Entry
<1>3. ASSUME hcd'.pipe = hcd.pipe, \A u \in Clients : client'[u].at = client[u].at
      PROVE  AllClosed'
    BY <1>2, <1>3 DEF AllClosed, Opening, Freed
<1>4. CASE BusNext
    <2>1. CASE Plug \/ Unplug
        BY <1>3, <2>1 DEF Plug, Unplug, BusStep
    <2>2. CASE IsrConnection \/ IsrDisconnection \/ IsrError
        BY <1>1, <1>3, <2>2 DEF IsrConnection, IsrDisconnection, IsrError, Event, BusStep,
           HcdRecord
    <2>3. ASSUME NEW t \in Clients, TransferOk(t) \/ TransferError(t)
          PROVE  AllClosed'
        <3>1. UNCHANGED hcd /\ \E r : client' = [client EXCEPT ![t].result = r]
            BY <2>3 DEF TransferOk, TransferError, BelowUnchanged
        <3>2. \A u \in Clients : client'[u].at = client[u].at
            BY <1>1, <3>1 DEF ClientRecord
        <3> QED BY <1>3, <3>1, <3>2
    <2> QED BY <1>4, <2>1, <2>2, <2>3 DEF BusNext
<1>5. CASE PortNext
    <2>1. CASE PortReceive \/ PortFind \/ PortReset \/ PortLookup \/ PortRegister \/ PortSudden
               \/ PortOff \/ PortRecover \/ PortOn
        BY <1>1, <1>3, <2>1 DEF PortReceive, PortFind, PortReset, ResetPort, Enables, PortLookup,
           PortRegister, PortSudden, PortOff, PortRecover, PortOn, BelowUnchanged, HcdRecord
    <2>2. CASE PortHandle
        <3>1. hcd'.pipe = hcd.pipe \/ hcd'.pipe = Invalidated
            BY <1>1, <2>2 DEF PortHandle, HandleLoss, HandleConnection, HandleNothing, Debounced,
               HcdRecord
        <3>2. \A p \in Pipes : Invalidated[p] = hcd.pipe[p]
            BY <1>2 DEF Invalidated
        <3>3. \A u \in Clients : client'[u].at = client[u].at
            BY <1>1, <2>2 DEF PortHandle, HandleLoss, HandleConnection, HandleNothing, ClientRecord
        <3> QED BY <1>2, <3>1, <3>2, <3>3 DEF AllClosed, Opening, Freed
    <2>3. CASE PortAlloc
        BY <1>3, <2>3 DEF PortAlloc
    <2>4. CASE PortConnect
        <3>1. UNCHANGED hcd /\ client' = Woken
            BY <2>4 DEF PortConnect, BelowUnchanged
        <3>2. \A u \in Clients : Woken[u].at \in {"search", client[u].at}
            BY <1>1 DEF Woken, ClientRecord
        <3> QED BY <1>2, <3>1, <3>2 DEF AllClosed, Opening, Freed
    <2>5. CASE PortClose
        <3>1. \A p \in Pipes : Freed(p)'
            BY <1>1, <1>2, <2>5 DEF PortClose, CloseDevice, FreePipes, Freed, HcdRecord
        <3>2. \A u \in Clients : client'[u].at = client[u].at
            BY <1>1, <2>5 DEF PortClose, Told, ClientRecord
        <3> QED BY <1>2, <3>1, <3>2 DEF AllClosed, Opening
    <2> QED BY <1>5, <2>1, <2>2, <2>3, <2>4, <2>5 DEF PortNext
<1>6. ASSUME NEW t \in Clients, ClientCall(t) \/ ClientNext(t)
      PROVE  AllClosed'
    <2>1. ~EpAlloc(t) /\ ~EpRegister(t)
        BY <1>2 DEF EpAlloc, EpRegister
    <2>2. ~EpLookup(t)
        <3>1. \A i \in Slots : open_pipes[i].addr = 0
            BY <1>2 DEF Empty
        <3> QED BY <3>1 DEF EpLookup, InfoOf
    <2>3. \A u \in Clients : client'[u].at \notin {"ep_alloc", "ep_reg"}
        <3>1. client'[t].at \notin {"ep_alloc", "ep_reg"}
            <4>1. CASE SetAddr(t) \/ SetAddrEnd(t)
                <5> DEFINE c == [client[t] EXCEPT !.at = "addr_start", !.slot = Min(ControlSlots),
                                                  !.addr = Min(FreeAddrs)]
                <5>1. c.at = "addr_start"
                    BY <1>1 DEF ClientRecord
                <5>2. \/ \E place \in {"ready", "addr_update"} : Goes(t, place)
                      \/ client' = [client EXCEPT ![t] = c]
                    BY <4>1 DEF SetAddr, SetAddrEnd
                <5> HIDE DEF c
                <5> QED BY <1>1, <5>1, <5>2 DEF Goes, ClientRecord
            <4>2. CASE SetAddrBegin(t)
                BY <1>1, <4>2 DEF SetAddrBegin, Transfer, Stops, Begun, ClientRecord
            <4> QED BY <1>6, <2>1, <2>2, <4>1, <4>2, ClientGoes DEF Opening
        <3> QED BY <1>2, <1>6, <3>1, ClientGoes
    <2>4. \A p \in Pipes : Freed(p)'
        <3>1. CASE EpClose(t)
            BY <1>1, <1>2, <3>1 DEF EpClose, FreePipes, Freed, HcdRecord
        <3>2. CASE DeviceClose(t)
            BY <1>1, <1>2, <3>2 DEF DeviceClose, CloseDevice, FreePipes, Freed, HcdRecord
        <3>3. CASE SetAddrUpdate(t)
            BY <1>1, <1>2, <3>3 DEF SetAddrUpdate, Update, Freed, HcdRecord
        <3>4. CASE ~EpClose(t) /\ ~DeviceClose(t) /\ ~SetAddrUpdate(t)
            <4>1. UNCHANGED hcd
                BY <1>6, <2>1, <3>4 DEF ClientCall, ClientNext, OpenAgain, OpenBegin, OpenWait,
                   OpenSearch, OpenFound, XferBegin, XferEnd, DescBegin, DescEnd, DescInfo,
                   DescAddr, SetAddr, SetAddrBegin, SetAddrEnd, EpLookup, ClientStep, BelowUnchanged
            <4> QED BY <1>2, <4>1 DEF Freed
        <3> QED BY <3>1, <3>2, <3>3, <3>4
    <2> QED BY <2>3, <2>4 DEF AllClosed, Opening
<1> QED BY <1>4, <1>5, <1>6 DEF UsbhNext

\* With the rules "prompt" and "own" the task that closes a lost device leaves nothing of it.
LEMMA ClosesEverything ==
    ASSUME "prompt" \in Rules, TypeInv, PhaseInv, TableInv, PortClose
    PROVE  AllClosed'
<1>1. /\ hcd \in HcdRecord
      /\ DOMAIN client = Clients /\ \A u \in Clients : client[u] \in ClientRecord
    BY ClientsOK DEF TypeInv, UsbhTypeOK, ClientOK
<1>2. /\ ptask.at = "close"
      /\ \A t \in Clients : client[t].at \notin {"ep_alloc", "ep_reg"}
    BY DEF PortClose, CloseDevice, Keeps
<1>3. ClosedPipes = {open_pipes[i].pipe : i \in Used}
    BY ClosesAll DEF ClosedPipes
<1>4. \A p \in Pipes : Freed(p) \/ p \in ClosedPipes
    <2>1. \A p \in Pipes : ~AtPort(p) /\ \A t \in Clients : ~AtClient(t, p)
        BY <1>2 DEF AtPort, AtClient
    <2>2. \A p \in Pipes : InTable(p) => p \in ClosedPipes
        BY <1>3, UsbhAssumption DEF InTable, Used
    <2> QED BY <2>1, <2>2 DEF TableInv
<1>5. \A p \in Pipes : Freed(p)'
    BY <1>1, <1>4 DEF PortClose, CloseDevice, FreePipes, Freed, HcdRecord
<1>6. \A u \in Clients : client'[u].at = client[u].at
    BY <1>1 DEF PortClose, Told, ClientRecord
<1> QED BY <1>2, <1>5, <1>6 DEF AllClosed, Opening

\* A device is connected only when nothing of the former one is left, and pipes become invalid
\* only when it has gone.
LEMMA ValidKept ==
    ASSUME TypeInv, PhaseInv, ClosedInv, UsbhNext, PhaseInv'
    PROVE  ConnectedIsValid'
<1>1. /\ hcd \in HcdRecord /\ ptask \in TaskRecord
    BY DEF TypeInv, UsbhTypeOK
<1>2. CASE PortReset
    <2>1. UNCHANGED hcd.pipe
        BY <1>1, <1>2 DEF PortReset, ResetPort, Enables, HcdRecord
    <2>2. CASE UNCHANGED hcd
        BY <2>2 DEF ClosedInv, ConnectedIsValid
    <2>3. CASE ~UNCHANGED hcd
        <3>1. hcd.state # "RECOVERY" /\ ptask.at = "reset"
            BY <1>2, <2>3 DEF PortReset, ResetPort
        <3>2. AllClosed
            BY <3>1 DEF PhaseInv, TaskInv, ClosedInv
        <3> QED BY <2>1, <3>2 DEF AllClosed, ConnectedIsValid, Freed
    <2> QED BY <2>2, <2>3
<1>3. CASE PortHandle
    <2>1. ~hcd.conn
        BY <1>3 DEF PortHandle, PhaseInv, SlotInv, StateInv
    <2>2. hcd'.conn = hcd.conn
        BY <1>1, <1>3 DEF PortHandle, HandleLoss, HandleConnection, HandleNothing, Debounced,
           HcdRecord
    <2> QED BY <2>1, <2>2 DEF ConnectedIsValid
<1>4. ASSUME hcd'.conn => hcd.conn,
             \A p \in Pipes : hcd'.pipe[p].state \in {"FREE", "ACTIVE", hcd.pipe[p].state}
      PROVE  ConnectedIsValid'
    BY <1>4 DEF ClosedInv, ConnectedIsValid
<1>5. CASE BusNext
    <2>1. hcd'.conn => hcd.conn
        BY <1>1, <1>5 DEF BusNext, Plug, Unplug, IsrConnection, IsrDisconnection, IsrError, Event,
           TransferOk, TransferError, BelowUnchanged, HcdRecord
    <2>2. hcd'.pipe = hcd.pipe
        BY <1>1, <1>5 DEF BusNext, Plug, Unplug, IsrConnection, IsrDisconnection, IsrError, Event,
           TransferOk, TransferError, BelowUnchanged, HcdRecord
    <2> QED BY <1>4, <2>1, <2>2
<1>6. CASE PortNext /\ ~PortReset /\ ~PortHandle
    <2>1. CASE PortAlloc /\ CanAlloc
        <3>1. PICK p \in Pipes : NewPipe(p, 0)
            BY <2>1 DEF PortAlloc
        <3>2. /\ hcd'.conn = hcd.conn
              /\ \A q \in Pipes : hcd'.pipe[q].state \in {"ACTIVE", hcd.pipe[q].state}
            BY <1>1, <3>1 DEF NewPipe, HcdRecord
        <3> QED BY <1>4, <3>2
    <2>2. CASE PortClose
        <3>1. /\ hcd'.conn = hcd.conn
              /\ \A q \in Pipes : hcd'.pipe[q].state \in {"FREE", hcd.pipe[q].state}
            BY <1>1, <2>2 DEF PortClose, CloseDevice, FreePipes, HcdRecord
        <3> QED BY <1>4, <3>1
    <2>3. CASE ~(PortAlloc /\ CanAlloc) /\ ~PortClose
        <3>1. hcd'.conn = hcd.conn /\ hcd'.pipe = hcd.pipe
            BY <1>1, <1>6, <2>3 DEF PortNext, PortReceive, PortFind, PortLookup, PortAlloc,
               PortRegister, PortConnect, PortSudden, PortOff, PortRecover, PortOn,
               BelowUnchanged, HcdRecord
        <3> QED BY <1>4, <3>1
    <2> QED BY <2>1, <2>2, <2>3
<1>7. ASSUME NEW t \in Clients, ClientCall(t) \/ ClientNext(t)
      PROVE  ConnectedIsValid'
    <2>1. hcd'.conn = hcd.conn
        BY <1>7, ClientBelow DEF PortSame
    <2>2. \A q \in Pipes : hcd'.pipe[q].state \in {"FREE", "ACTIVE", hcd.pipe[q].state}
        <3>1. CASE EpClose(t)
            BY <1>1, <3>1 DEF EpClose, FreePipes, HcdRecord
        <3>2. CASE DeviceClose(t)
            BY <1>1, <3>2 DEF DeviceClose, CloseDevice, FreePipes, HcdRecord
        <3>3. CASE SetAddrUpdate(t)
            BY <1>1, <3>3 DEF SetAddrUpdate, Update, HcdRecord
        <3>4. CASE EpAlloc(t)
            <4>1. UNCHANGED hcd \/ \E p \in Pipes : NewPipe(p, client[t].addr)
                BY <3>4 DEF EpAlloc
            <4> QED BY <1>1, <4>1 DEF NewPipe, HcdRecord
        <3>5. CASE ~EpClose(t) /\ ~DeviceClose(t) /\ ~SetAddrUpdate(t) /\ ~EpAlloc(t)
            <4>1. UNCHANGED hcd
                BY <1>7, <3>5 DEF ClientCall, ClientNext, OpenAgain, OpenBegin, OpenWait,
                   OpenSearch, OpenFound, XferBegin, XferEnd, DescBegin, DescEnd, DescInfo,
                   DescAddr, SetAddr, SetAddrBegin, SetAddrEnd, EpLookup, EpRegister, ClientStep,
                   BelowUnchanged
            <4> QED BY <4>1
        <3> QED BY <3>1, <3>2, <3>3, <3>4, <3>5
    <2> QED BY <1>4, <2>1, <2>2
<1> QED BY <1>2, <1>3, <1>5, <1>6, <1>7 DEF UsbhNext

\* Nothing of a lost device is left when its loss has been handled, neither in the table
\* nor in the driver.
THEOREM ClosedKeptBetween ==
    ASSUME {"own", "prompt", "slow"} \subseteq Rules
    PROVE  UsbhSpec => []ClosedInv
<1>0. "own" \in Rules /\ "prompt" \in Rules /\ "slow" \in Rules
    OBVIOUS
<1>1. UsbhInit => ClosedInv
    <2> SUFFICES ASSUME UsbhInit
                 PROVE  ClosedInv
        OBVIOUS
    <2>1. /\ hcd.conn = FALSE /\ \A p \in Pipes : hcd.pipe[p].state = "FREE"
          /\ \A t \in Clients : client[t].at = "open"
        BY DEF UsbhInit, PoweredPort, NewClient
    <2> QED BY <2>1 DEF ClosedInv, AllClosed, Opening, Freed, ConnectedIsValid
<1>2. TypeInv /\ PhaseInv /\ TableInv /\ ClosedInv /\ PhaseInv' /\ [UsbhNext]_usbhVars => ClosedInv'
    <2> SUFFICES ASSUME TypeInv, PhaseInv, TableInv, ClosedInv, PhaseInv', [UsbhNext]_usbhVars
                 PROVE  ClosedInv'
        OBVIOUS
    <2>1. CASE UNCHANGED usbhVars
        BY <2>1 DEF usbhVars, ClosedInv, AllClosed, Opening, Freed, ConnectedIsValid, MayHavePipes
    <2>2. CASE UsbhNext
        <3>1. ~AllClosed' => MayHavePipes'
            <4>1. CASE PortClose
                BY <1>0, <4>1, ClosesEverything
            <4>2. CASE PortRecover /\ CanRecover
                BY <2>2, <4>2, ClosedKept DEF PortRecover, PortAlloc, ClosedInv
            <4>3. CASE AllClosed /\ PortAlloc /\ CanAlloc
                <5>1. hcd'.event = hcd.event /\ hcd'.seen = hcd.seen
                    BY <4>3 DEF PortAlloc, NewPipe, TypeInv, UsbhTypeOK, HcdRecord
                <5>2. hcd.event = "NONE" /\ hcd.seen
                    BY <4>3 DEF CanAlloc, PhaseInv, StateInv
                <5> QED BY <5>1, <5>2 DEF MayHavePipes
            <4>4. CASE ~AllClosed /\ ~PortClose /\ ~(PortRecover /\ CanRecover)
                BY <1>0, <2>2, <4>4, MayStay DEF ClosedInv
            <4>5. CASE AllClosed /\ ~(PortAlloc /\ CanAlloc)
                BY <2>2, <4>5, ClosedKept
            <4> QED BY <4>1, <4>2, <4>3, <4>4, <4>5
        <3>2. /\ ptask'.at = "recover" => AllClosed'
              /\ ptask'.at = "reset" /\ ptask'.event = "CONNECTION" => AllClosed'
            <4>1. CASE PortClose
                BY <1>0, <4>1, ClosesEverything
            <4>2. CASE ~PortClose /\ PortHandle
                <5>1. ptask.at = "handle" /\ ptask.event = hcd.event
                    BY <4>2 DEF PortHandle, PhaseInv, SlotInv
                <5>2. hcd.event = "CONNECTION" => AllClosed
                    BY <5>1 DEF ClosedInv, MayHavePipes, PhaseInv, StateInv
                <5>3. hcd.event = "CONNECTION" => AllClosed'
                    BY <2>2, <5>1, <5>2, ClosedKept DEF PortAlloc
                <5> QED BY <2>2, <4>2, <5>1, <5>3, TaskGoes
            <4>3. CASE ~PortClose /\ ~PortHandle
                <5>1. CASE UNCHANGED ptask
                    <6>1. AllClosed /\ ptask.at \in {"recover", "reset"} => AllClosed'
                        BY <2>2, ClosedKept DEF PortAlloc
                    <6> QED BY <5>1, <6>1 DEF ClosedInv
                <5>2. CASE ~UNCHANGED ptask
                    BY <2>2, <4>3, <5>2, TaskGoes
                <5> QED BY <5>1, <5>2
            <4> QED BY <4>1, <4>2, <4>3
        <3> QED BY <2>2, <3>1, <3>2, ValidKept DEF ClosedInv
    <2> QED BY <2>1, <2>2
<1> QED BY <1>0, <1>1, <1>2, TypesKept, PhaseKept, TableKeptExact, PTL DEF UsbhSpec

\* With these rules no pipe of a lost device is there when the next one is connected: all of
\* them were closed before, and no late event of the former device invalidates a new one's.
THEOREM ConnectedPipesValid ==
    ASSUME {"own", "prompt", "slow"} \subseteq Rules
    PROVE  UsbhSpec => []ConnectedIsValid
<1>1. ClosedInv => ConnectedIsValid
    BY DEF ClosedInv
<1> QED BY <1>1, ClosedKeptBetween, PTL

-----------------------------------------------------------------------------
(* The address of the device *)

\* A client has a result only where it waits for a transfer, or has just got it.
ResultInv ==
    \A t \in Clients :
        /\ client[t].result # "none" => client[t].at \in {"xfer", "desc", "addr", "addr_update"}
        /\ client[t].at = "addr_update" => client[t].result \in {"ok", "error"}

\* What the bus and the port task do to a client.
LEMMA OthersGo ==
    ASSUME TypeInv, BusNext \/ PortNext, NEW u \in Clients
    PROVE  /\ client'[u].slot = client[u].slot /\ client'[u].addr = client[u].addr
           /\ client'[u].on = client[u].on
           /\ \/ client'[u].at = client[u].at
              \/ client[u].at = "blocked" /\ client'[u].at = "search"
           /\ \/ client'[u].result = client[u].result
              \/ client[u].result = "busy" /\ client'[u].result \in {"ok", "error"}
<1>1. DOMAIN client = Clients /\ \A v \in Clients : client[v] \in ClientRecord
    BY ClientsOK DEF ClientOK
<1> DEFINE Ends == /\ client[u].result = "busy"
                   /\ \E r \in {"ok", "error"} : client'[u] = [client[u] EXCEPT !.result = r]
           Wakes == client[u].at = "blocked" /\ client'[u] = [client[u] EXCEPT !.at = "search"]
           Hears == client'[u] = Told(client[u], ClosedPipes)
           Same == client'[u] = client[u]
<1>2. ASSUME BusNext
      PROVE  Same \/ Ends
    <2>1. ASSUME UNCHANGED client
          PROVE  Same
        BY <2>1
    <2>2. ASSUME NEW t \in Clients, TransferOk(t) \/ TransferError(t)
          PROVE  Same \/ Ends
        <3>1. client[t].result = "busy"
            BY <2>2 DEF TransferOk, TransferError
        <3>2. PICK r \in {"ok", "error"} : client' = [client EXCEPT ![t].result = r]
            BY <2>2 DEF TransferOk, TransferError
        <3>3. CASE u = t
            <4>1. client'[u] = [client[u] EXCEPT !.result = r]
                BY <1>1, <3>2, <3>3
            <4> QED BY <3>1, <3>3, <4>1
        <3>4. CASE u # t
            BY <1>1, <3>2, <3>4
        <3> QED BY <3>3, <3>4
    <2>3. \/ UNCHANGED client
          \/ \E t \in Clients : TransferOk(t) \/ TransferError(t)
        BY <1>2 DEF BusNext, Plug, Unplug, IsrConnection, IsrDisconnection, IsrError, BusStep
    <2> HIDE DEF Same, Ends
    <2> QED BY <2>1, <2>2, <2>3
<1>3. ASSUME PortNext
      PROVE  Same \/ Ends \/ Wakes \/ Hears
    <2>1. \/ UNCHANGED client
          \/ PortHandle /\ HandleLoss
          \/ client' = Woken
          \/ client' = [t \in Clients |-> Told(client[t], ClosedPipes)]
        BY <1>3 DEF PortNext, PortReceive, PortFind, PortHandle, HandleConnection, HandleNothing,
           PortReset, PortLookup, PortAlloc, PortRegister, PortConnect, PortSudden, PortClose,
           PortOff, PortRecover, PortOn
    <2>2. ASSUME HandleLoss
          PROVE  Same \/ Ends
        <3>1. client'[u] = IF client[u].result = "busy"
                           THEN [client[u] EXCEPT !.result = "error"] ELSE client[u]
            BY <2>2 DEF HandleLoss
        <3> QED BY <3>1
    <2>3. ASSUME client' = Woken
          PROVE  Same \/ Wakes
        <3>1. client'[u] = IF u \in Blocked THEN [client[u] EXCEPT !.at = "search"] ELSE client[u]
            BY <2>3 DEF Woken
        <3> QED BY <3>1 DEF Blocked
    <2>4. ASSUME client' = [t \in Clients |-> Told(client[t], ClosedPipes)]
          PROVE  Hears
        BY <2>4
    <2>5. UNCHANGED client => Same
        OBVIOUS
    <2> HIDE DEF Same, Ends, Wakes, Hears
    <2> QED BY <2>1, <2>2, <2>3, <2>4, <2>5
<1>4. Same \/ Ends \/ Wakes \/ Hears
    <2> HIDE DEF Same, Ends, Wakes, Hears
    <2> QED BY <1>2, <1>3
<1> DEFINE Kept(d) == d.slot = client[u].slot /\ d.addr = client[u].addr /\ d.on = client[u].on
<1>5. ASSUME Ends
      PROVE  /\ Kept(client'[u]) /\ client'[u].at = client[u].at
             /\ client[u].result = "busy" /\ client'[u].result \in {"ok", "error"}
    <2>1. PICK r \in {"ok", "error"} : client'[u] = [client[u] EXCEPT !.result = r]
        BY <1>5
    <2> DEFINE d == [client[u] EXCEPT !.result = r]
    <2>2. Kept(d) /\ d.at = client[u].at /\ d.result = r
        BY <1>1 DEF ClientRecord
    <2> QED BY <1>5, <2>1, <2>2
<1>6. ASSUME Wakes
      PROVE  /\ Kept(client'[u]) /\ client[u].at = "blocked" /\ client'[u].at = "search"
             /\ client'[u].result = client[u].result
    <2> DEFINE d == [client[u] EXCEPT !.at = "search"]
    <2>1. Kept(d) /\ d.at = "search" /\ d.result = client[u].result
        BY <1>1 DEF ClientRecord
    <2> QED BY <1>6, <2>1
<1>7. ASSUME Hears
      PROVE  /\ Kept(client'[u]) /\ client'[u].at = client[u].at
             /\ client'[u].result = client[u].result
    <2> DEFINE d == Told(client[u], ClosedPipes)
    <2>1. Kept(d) /\ d.at = client[u].at /\ d.result = client[u].result
        BY <1>1 DEF ClientRecord, Told
    <2> QED BY <1>7, <2>1
<1>8. Same => /\ Kept(client'[u]) /\ client'[u].at = client[u].at
              /\ client'[u].result = client[u].result
    OBVIOUS
<1>9. /\ client'[u].slot = client[u].slot /\ client'[u].addr = client[u].addr
      /\ client'[u].on = client[u].on
    <2>1. Same => Kept(client'[u])
        BY <1>8
    <2>2. Ends => Kept(client'[u])
        BY <1>5
    <2>3. Wakes => Kept(client'[u])
        BY <1>6
    <2>4. Hears => Kept(client'[u])
        BY <1>7
    <2> HIDE DEF Same, Ends, Wakes, Hears
    <2> QED BY <1>4, <2>1, <2>2, <2>3, <2>4
<1>10. \/ client'[u].at = client[u].at
       \/ client[u].at = "blocked" /\ client'[u].at = "search"
    <2> HIDE DEF Same, Ends, Wakes, Hears, Kept
    <2> QED BY <1>4, <1>5, <1>6, <1>7, <1>8
<1>11. \/ client'[u].result = client[u].result
       \/ client[u].result = "busy" /\ client'[u].result \in {"ok", "error"}
    <2> HIDE DEF Same, Ends, Wakes, Hears, Kept
    <2> QED BY <1>4, <1>5, <1>6, <1>7, <1>8
<1> QED BY <1>9, <1>10, <1>11

\* What a step of a client does to its own transfer: it begins one at the pipe it names, or
\* has none afterwards, but for the end of the transfer that assigns an address.
LEMMA ResultGoes ==
    ASSUME TypeInv, ResultInv, NEW t \in Clients, ClientCall(t) \/ ClientNext(t)
    PROVE  /\ client[t].result # "busy"
           /\ \/ client'[t].result = "none" /\ client'[t].at # "addr_update"
              \/ /\ client'[t].at \in {"xfer", "desc", "addr"}
                 /\ \/ XferBegin(t) \/ DescBegin(t)
                    \/ SetAddrBegin(t)
              \/ SetAddrEnd(t) /\ client'[t].at = "addr_update"
                    /\ client'[t].result = client[t].result
<1>1. DOMAIN client = Clients /\ \A u \in Clients : client[u] \in ClientRecord
    BY ClientsOK DEF ClientOK
<1>2. ASSUME NEW c, client' = [client EXCEPT ![t] = c]
      PROVE  client'[t] = c
    BY <1>1, <1>2
<1>3. ASSUME NEW place, Goes(t, place)
      PROVE  client'[t].at = place /\ client'[t].result = client[t].result
    BY <1>1, <1>3 DEF Goes, ClientRecord
<1>4. ASSUME Stops(t)
      PROVE  client'[t].at = "stopped" /\ client'[t].result = client[t].result
    BY <1>1, <1>4 DEF Stops, ClientRecord
<1>5. ASSUME NEW p, NEW place, Transfer(t, p, place)
      PROVE  \/ client'[t].at = place
             \/ client'[t].at = "stopped" /\ client'[t].result = client[t].result
    <2>1. CASE client' = [client EXCEPT ![t] = Begun(client[t], p, place)]
        <3>1. Begun(client[t], p, place).at = place
            BY <1>1 DEF Begun, ClientRecord
        <3> QED BY <1>2, <2>1, <3>1
    <2> QED BY <1>4, <1>5, <2>1 DEF Transfer
<1>6. client[t].at \notin {"xfer", "desc", "addr", "addr_update"} => client[t].result = "none"
    BY DEF ResultInv
<1>7. CASE OpenAgain(t) \/ OpenBegin(t) \/ OpenWait(t)
    <2>1. PICK place \in {"open", "wait", "search", "blocked"} : Goes(t, place)
        BY <1>7 DEF OpenAgain, OpenBegin, OpenWait
    <2>2. client[t].result = "none"
        BY <1>6, <1>7 DEF OpenAgain, OpenBegin, OpenWait
    <2> QED BY <1>3, <2>1, <2>2
<1>8. CASE XferBegin(t) \/ DescBegin(t) \/ SetAddrBegin(t)
    <2>1. \/ \E p : Transfer(t, p, "xfer")
          \/ Transfer(t, client[t].ctrl, "desc")
          \/ Transfer(t, open_pipes[client[t].slot].pipe, "addr")
        BY <1>8 DEF XferBegin, DescBegin, SetAddrBegin
    <2>2. client[t].result = "none"
        BY <1>6, <1>8 DEF XferBegin, DescBegin, SetAddrBegin
    <2>3. \/ client'[t].at \in {"xfer", "desc", "addr"}
          \/ client'[t].at = "stopped" /\ client'[t].result = client[t].result
        BY <1>5, <2>1
    <2> QED BY <1>8, <2>2, <2>3
<1>9. CASE OpenSearch(t)
    <2>1. PICK c : /\ client' = [client EXCEPT ![t] = c]
                   /\ \/ c = [client[t] EXCEPT !.at = "open"]
                      \/ \E p : c = [client[t] EXCEPT !.at = "found", !.ctrl = p, !.ep = NoPipe]
        BY <1>1, <1>9 DEF OpenSearch
    <2>2. c.at \in {"open", "found"} /\ c.result = client[t].result
        BY <1>1, <2>1 DEF ClientRecord
    <2>3. client[t].result = "none"
        BY <1>6, <1>9 DEF OpenSearch
    <2> QED BY <1>2, <2>1, <2>2, <2>3
<1>10. CASE OpenFound(t)
    <2> DEFINE c == [client[t] EXCEPT !.at = "ready", !.idx = num_opened]
    <2>1. c.at = "ready" /\ c.result = client[t].result /\ client' = [client EXCEPT ![t] = c]
        BY <1>1, <1>10 DEF OpenFound, ClientRecord
    <2>2. client[t].result = "none"
        BY <1>6, <1>10 DEF OpenFound
    <2> HIDE DEF c
    <2> QED BY <1>2, <2>1, <2>2
<1>11. CASE XferEnd(t) \/ DescEnd(t)
    <2>1. PICK place \in {"ready", "desc_lock"} : client' = [client EXCEPT ![t] =
                          [client[t] EXCEPT !.at = place, !.on = NoPipe, !.result = "none"]]
        BY <1>1, <1>11 DEF XferEnd, DescEnd
    <2> DEFINE c == [client[t] EXCEPT !.at = place, !.on = NoPipe, !.result = "none"]
    <2>2. c.at = place /\ c.result = "none" /\ client' = [client EXCEPT ![t] = c]
        BY <1>1, <2>1 DEF ClientRecord
    <2>3. client[t].result # "busy"
        BY <1>11 DEF XferEnd, DescEnd, Ended
    <2> HIDE DEF c
    <2> QED BY <1>2, <2>2, <2>3
<1>12. CASE DescInfo(t)
    <2> DEFINE c == [client[t] EXCEPT !.at = "desc_addr", !.slot = Min(ControlSlots)]
    <2>1. c.at = "desc_addr" /\ c.result = client[t].result
        BY <1>1 DEF ClientRecord
    <2>2. Stops(t) \/ client' = [client EXCEPT ![t] = c]
        BY <1>12 DEF DescInfo
    <2>3. client[t].result = "none"
        BY <1>6, <1>12 DEF DescInfo
    <2> HIDE DEF c
    <2> QED BY <1>2, <1>4, <2>1, <2>2, <2>3
<1>13. CASE DescAddr(t)
    <2>1. PICK place \in {"ready", "addr_lock"} : client' = [client EXCEPT ![t] =
                          [client[t] EXCEPT !.at = place, !.slot = 0]]
        BY <1>1, <1>13 DEF DescAddr
    <2> DEFINE c == [client[t] EXCEPT !.at = place, !.slot = 0]
    <2>2. c.at = place /\ c.result = client[t].result /\ client' = [client EXCEPT ![t] = c]
        BY <1>1, <2>1 DEF ClientRecord
    <2>3. client[t].result = "none"
        BY <1>6, <1>13 DEF DescAddr
    <2> HIDE DEF c
    <2> QED BY <1>2, <2>2, <2>3
<1>14. CASE SetAddr(t)
    <2> DEFINE c == [client[t] EXCEPT !.at = "addr_start", !.slot = Min(ControlSlots),
                                      !.addr = Min(FreeAddrs)]
    <2>1. c.at = "addr_start" /\ c.result = client[t].result
        BY <1>1 DEF ClientRecord
    <2>2. Goes(t, "ready") \/ client' = [client EXCEPT ![t] = c]
        BY <1>14 DEF SetAddr
    <2>3. client[t].result = "none"
        BY <1>6, <1>14 DEF SetAddr
    <2> HIDE DEF c
    <2> QED BY <1>2, <1>3, <2>1, <2>2, <2>3
<1>15. CASE SetAddrEnd(t)
    BY <1>3, <1>15 DEF SetAddrEnd, Ended
<1>16. CASE SetAddrUpdate(t)
    <2> DEFINE c == [client[t] EXCEPT !.at = "ready", !.on = NoPipe, !.slot = 0, !.addr = 0,
                                      !.result = "none"]
    <2>1. c.at = "ready" /\ c.result = "none" /\ client' = [client EXCEPT ![t] = c]
        BY <1>1, <1>16 DEF SetAddrUpdate, ClientRecord
    <2>2. client[t].result # "busy"
        BY <1>16 DEF SetAddrUpdate, ResultInv
    <2> HIDE DEF c
    <2> QED BY <1>2, <2>1, <2>2
<1>17. CASE EpLookup(t)
    <2>1. PICK a : client' = [client EXCEPT ![t] = [client[t] EXCEPT !.at = "ep_alloc", !.addr = a]]
        BY <1>1, <1>17 DEF EpLookup
    <2> DEFINE c == [client[t] EXCEPT !.at = "ep_alloc", !.addr = a]
    <2>2. c.at = "ep_alloc" /\ c.result = client[t].result /\ client' = [client EXCEPT ![t] = c]
        BY <1>1, <2>1 DEF ClientRecord
    <2>3. client[t].result = "none"
        BY <1>6, <1>17 DEF EpLookup
    <2> HIDE DEF c
    <2> QED BY <1>2, <2>2, <2>3
<1>18. CASE EpAlloc(t)
    <2>1. PICK c : /\ client' = [client EXCEPT ![t] = c]
                   /\ \/ c = [client[t] EXCEPT !.at = "ready", !.addr = 0]
                      \/ \E p : c = [client[t] EXCEPT !.at = "ep_reg", !.on = p]
        BY <1>1, <1>18 DEF EpAlloc
    <2>2. c.at \in {"ready", "ep_reg"} /\ c.result = client[t].result
        BY <1>1, <2>1 DEF ClientRecord
    <2>3. client[t].result = "none"
        BY <1>6, <1>18 DEF EpAlloc
    <2> QED BY <1>2, <2>1, <2>2, <2>3
<1>19. CASE EpRegister(t)
    <2>1. PICK p : client' = [client EXCEPT ![t] =
                      [client[t] EXCEPT !.at = "ready", !.on = NoPipe, !.addr = 0, !.ep = p]]
        BY <1>19 DEF EpRegister
    <2> DEFINE c == [client[t] EXCEPT !.at = "ready", !.on = NoPipe, !.addr = 0, !.ep = p]
    <2>2. c.at = "ready" /\ c.result = client[t].result /\ client' = [client EXCEPT ![t] = c]
        BY <1>1, <2>1 DEF ClientRecord
    <2>3. client[t].result = "none"
        BY <1>6, <1>19 DEF EpRegister
    <2> HIDE DEF c
    <2> QED BY <1>2, <2>2, <2>3
<1>20. CASE EpClose(t)
    <2>1. client[t].at = "ready" /\ client[t].result = "none"
        BY <1>6, <1>20 DEF EpClose
    <2>2. \/ Stops(t) \/ UNCHANGED client \/ client' = [client EXCEPT ![t].ep = NoPipe]
        BY <1>20 DEF EpClose
    <2>3. client'[t].result = "none" /\ client'[t].at \in {"ready", "stopped"}
        BY <1>1, <1>4, <2>1, <2>2 DEF ClientRecord
    <2> QED BY <2>1, <2>3
<1>21. CASE DeviceClose(t)
    <2>1. client[t].result = "none"
        BY <1>6, <1>21 DEF DeviceClose
    <2>2. client'[t].at = "open" /\ client'[t].result = client[t].result
        BY <1>1, <1>21 DEF DeviceClose, Told, ClientRecord
    <2> QED BY <2>1, <2>2
<1> QED BY <1>7, <1>8, <1>9, <1>10, <1>11, <1>12, <1>13, <1>14, <1>15, <1>16, <1>17, <1>18,
        <1>19, <1>20, <1>21 DEF ClientCall, ClientNext

\* Every step keeps that a client has a result only where it made a transfer.
LEMMA ResultKept ==
    ASSUME TypeInv, ResultInv, UsbhNext
    PROVE  ResultInv'
<1> SUFFICES ASSUME NEW u \in Clients
             PROVE  /\ client'[u].result # "none" =>
                           client'[u].at \in {"xfer", "desc", "addr", "addr_update"}
                    /\ client'[u].at = "addr_update" => client'[u].result \in {"ok", "error"}
    BY DEF ResultInv
<1>1. /\ client[u].result # "none" => client[u].at \in {"xfer", "desc", "addr", "addr_update"}
      /\ client[u].at = "addr_update" => client[u].result \in {"ok", "error"}
    BY DEF ResultInv
<1>2. CASE BusNext \/ PortNext
    BY <1>1, <1>2, OthersGo
<1>3. ASSUME NEW t \in Clients, ClientCall(t) \/ ClientNext(t)
      PROVE  /\ client'[u].result # "none" =>
                    client'[u].at \in {"xfer", "desc", "addr", "addr_update"}
             /\ client'[u].at = "addr_update" => client'[u].result \in {"ok", "error"}
    <2>1. CASE u # t
        BY <1>1, <1>3, <2>1, ClientGoes
    <2>2. CASE u = t
        BY <1>3, <2>2, ResultGoes DEF SetAddrEnd, Ended
    <2> QED BY <2>1, <2>2
<1> QED BY <1>2, <1>3 DEF UsbhNext

\* The address of an endpoint, and of one that a client opens, is one that was assigned.
Assigns(t) == client[t].at \in AssignPlaces
AssignedInv ==
    /\ \A i \in Used : ~open_pipes[i].is_control => open_pipes[i].addr # 0
    /\ \A t \in Clients : Opening(t) => client[t].addr # 0

\* Who assigns an address has the mutex, and has entered the address in the table.
HolderInv ==
    \A t \in Clients : Assigns(t) =>
        /\ mutex = t /\ client[t].addr # 0
        /\ client[t].slot \in ControlSlots
        /\ open_pipes[client[t].slot].addr = client[t].addr

\* With the rule "alone" it has the control pipe to itself.
AloneInv ==
    \A t \in Clients : client[t].at \in {"addr", "addr_update"} =>
        /\ client[t].on = open_pipes[client[t].slot].pipe
        /\ Waiting(client[t].on) \subseteq {t}

\* How a client comes to assign an address, and goes on.
LEMMA AssignGoes ==
    ASSUME TypeInv, UsbhNext, NEW u \in Clients, client'[u].at \in AssignPlaces
    PROVE  \/ /\ Assigns(u)
              /\ client'[u].slot = client[u].slot /\ client'[u].addr = client[u].addr
              /\ \/ client'[u].at = client[u].at /\ client'[u].on = client[u].on
                 \/ /\ SetAddrBegin(u) /\ client'[u].at = "addr"
                    /\ client'[u].on = open_pipes[client[u].slot].pipe
                 \/ SetAddrEnd(u) /\ client'[u].on = client[u].on
           \/ /\ SetAddr(u) /\ ControlSlots # {} /\ FreeAddrs # {}
              /\ open_pipes[Min(ControlSlots)].addr = 0
              /\ open_pipes' = [open_pipes EXCEPT ![Min(ControlSlots)].addr = Min(FreeAddrs)]
              /\ mutex' = u /\ client'[u].at = "addr_start"
              /\ client'[u].slot = Min(ControlSlots) /\ client'[u].addr = Min(FreeAddrs)
<1>1. DOMAIN client = Clients /\ \A v \in Clients : client[v] \in ClientRecord
    BY ClientsOK DEF ClientOK
<1> DEFINE Stays == /\ client'[u].slot = client[u].slot /\ client'[u].addr = client[u].addr
                    /\ client'[u].at = client[u].at /\ client'[u].on = client[u].on
           Begins == /\ client'[u].slot = client[u].slot /\ client'[u].addr = client[u].addr
                     /\ SetAddrBegin(u) /\ client'[u].at = "addr"
                     /\ client'[u].on = open_pipes[client[u].slot].pipe
           Ends == /\ client'[u].slot = client[u].slot /\ client'[u].addr = client[u].addr
                   /\ SetAddrEnd(u) /\ client'[u].on = client[u].on
           Takes == /\ SetAddr(u) /\ ControlSlots # {} /\ FreeAddrs # {}
                     /\ open_pipes[Min(ControlSlots)].addr = 0
                     /\ open_pipes' = [open_pipes EXCEPT ![Min(ControlSlots)].addr = Min(FreeAddrs)]
                     /\ mutex' = u /\ client'[u].at = "addr_start"
                     /\ client'[u].slot = Min(ControlSlots) /\ client'[u].addr = Min(FreeAddrs)
<1>2. ASSUME BusNext \/ PortNext
      PROVE  Stays
    BY <1>2, OthersGo DEF AssignPlaces
<1>3. ASSUME NEW t \in Clients, ClientCall(t) \/ ClientNext(t), u # t
      PROVE  Stays
    BY <1>3, ClientGoes
<1>4. ASSUME SetAddrBegin(u)
      PROVE  Begins
    <2> DEFINE c == Begun(client[u], open_pipes[client[u].slot].pipe, "addr")
    <2>1. /\ c.at = "addr" /\ c.on = open_pipes[client[u].slot].pipe
          /\ c.slot = client[u].slot /\ c.addr = client[u].addr
        BY <1>1 DEF Begun, ClientRecord
    <2>2. Stops(u) \/ client' = [client EXCEPT ![u] = c]
        BY <1>4 DEF SetAddrBegin, Transfer
    <2>3. ~Stops(u)
        BY <1>1 DEF Stops, ClientRecord, AssignPlaces
    <2> HIDE DEF c
    <2>4. client'[u] = c
        BY <1>1, <2>2, <2>3
    <2> QED BY <1>4, <2>1, <2>4
<1>5. ASSUME SetAddrEnd(u)
      PROVE  Ends
    BY <1>1, <1>5 DEF SetAddrEnd, Goes, ClientRecord
<1>6. ASSUME SetAddr(u)
      PROVE  Takes
    <2> DEFINE c == [client[u] EXCEPT !.at = "addr_start", !.slot = Min(ControlSlots),
                                      !.addr = Min(FreeAddrs)]
    <2>1. c.at = "addr_start" /\ c.slot = Min(ControlSlots) /\ c.addr = Min(FreeAddrs)
        BY <1>1 DEF ClientRecord
    <2>2. ~Goes(u, "ready")
        BY <1>1 DEF Goes, ClientRecord, AssignPlaces
    <2>3. /\ ControlSlots # {} /\ open_pipes[Min(ControlSlots)].addr = 0 /\ FreeAddrs # {}
          /\ open_pipes' = [open_pipes EXCEPT ![Min(ControlSlots)].addr = Min(FreeAddrs)]
          /\ mutex' = u /\ client' = [client EXCEPT ![u] = c]
        BY <1>6, <2>2 DEF SetAddr
    <2> HIDE DEF c
    <2>4. client'[u] = c
        BY <1>1, <2>3
    <2> QED BY <1>6, <2>1, <2>3, <2>4
<1>7. ASSUME EpLookup(u) \/ EpAlloc(u)
      PROVE  FALSE
    <2>1. CASE EpLookup(u)
        <3>1. PICK a : client' = [client EXCEPT ![u] = [client[u] EXCEPT !.at = "ep_alloc",
                                                                        !.addr = a]]
            BY <1>1, <2>1 DEF EpLookup
        <3> QED BY <1>1, <3>1 DEF ClientRecord, AssignPlaces
    <2>2. CASE EpAlloc(u)
        <3>1. PICK c : /\ client' = [client EXCEPT ![u] = c]
                       /\ \/ c = [client[u] EXCEPT !.at = "ready", !.addr = 0]
                          \/ \E p : c = [client[u] EXCEPT !.at = "ep_reg", !.on = p]
            BY <1>1, <2>2 DEF EpAlloc
        <3>2. c.at \in {"ready", "ep_reg"}
            BY <1>1, <3>1 DEF ClientRecord
        <3> QED BY <1>1, <3>1, <3>2 DEF AssignPlaces
    <2> QED BY <1>7, <2>1, <2>2
<1>8. ASSUME ClientCall(u) \/ ClientNext(u)
      PROVE  Begins \/ Ends \/ Takes
    <2> HIDE DEF Begins, Ends, Takes
    <2> QED BY <1>4, <1>5, <1>6, <1>7, <1>8, ClientGoes
<1>9. Stays \/ Begins \/ Ends \/ Takes
    <2> HIDE DEF Stays, Begins, Ends, Takes
    <2> QED BY <1>2, <1>3, <1>8 DEF UsbhNext
<1>10. (Stays \/ Begins \/ Ends) => Assigns(u)
    BY DEF Assigns, SetAddrBegin, SetAddrEnd, Ended, AssignPlaces
<1> QED BY <1>9, <1>10

\* How a client comes to open an endpoint, and goes on.
LEMMA OpenGoes ==
    ASSUME TypeInv, UsbhNext, NEW u \in Clients, client'[u].at \in {"ep_alloc", "ep_reg"}
    PROVE  \/ Opening(u) /\ client'[u].addr = client[u].addr
           \/ /\ EpLookup(u)
              /\ \E i \in InfoOf(client[u].ctrl) :
                    open_pipes[i].addr # 0 /\ client'[u].addr = open_pipes[i].addr
<1>1. DOMAIN client = Clients /\ \A v \in Clients : client[v] \in ClientRecord
    BY ClientsOK DEF ClientOK
<1> DEFINE Stays == Opening(u) /\ client'[u].addr = client[u].addr
           Looks == /\ EpLookup(u)
                    /\ \E i \in InfoOf(client[u].ctrl) :
                          open_pipes[i].addr # 0 /\ client'[u].addr = open_pipes[i].addr
<1>2. ASSUME BusNext \/ PortNext
      PROVE  Stays
    BY <1>2, OthersGo DEF Opening
<1>3. ASSUME NEW t \in Clients, ClientCall(t) \/ ClientNext(t), u # t
      PROVE  Stays
    BY <1>3, ClientGoes DEF Opening
<1>4. ASSUME EpLookup(u)
      PROVE  Looks
    <2>1. PICK i \in InfoOf(client[u].ctrl) :
              /\ open_pipes[i].addr # 0
              /\ client' = [client EXCEPT ![u] = [client[u] EXCEPT !.at = "ep_alloc",
                                                                  !.addr = open_pipes[i].addr]]
        BY <1>1, <1>4 DEF EpLookup
    <2>2. client'[u].addr = open_pipes[i].addr
        BY <1>1, <2>1 DEF ClientRecord
    <2> QED BY <1>4, <2>1, <2>2
<1>5. ASSUME EpAlloc(u)
      PROVE  Stays
    <2>1. PICK c : /\ client' = [client EXCEPT ![u] = c]
                   /\ \/ c = [client[u] EXCEPT !.at = "ready", !.addr = 0]
                      \/ \E p : c = [client[u] EXCEPT !.at = "ep_reg", !.on = p]
        BY <1>1, <1>5 DEF EpAlloc
    <2>2. c.at = "ready" \/ c.addr = client[u].addr
        BY <1>1, <2>1 DEF ClientRecord
    <2>3. client'[u] = c
        BY <1>1, <2>1
    <2>4. Opening(u)
        BY <1>5 DEF EpAlloc, Opening
    <2> QED BY <2>2, <2>3, <2>4
<1>6. ASSUME SetAddr(u) \/ SetAddrBegin(u) \/ SetAddrEnd(u)
      PROVE  FALSE
    <2>1. CASE SetAddr(u) \/ SetAddrEnd(u)
        <3> DEFINE c == [client[u] EXCEPT !.at = "addr_start", !.slot = Min(ControlSlots),
                                          !.addr = Min(FreeAddrs)]
        <3>1. c.at = "addr_start"
            BY <1>1 DEF ClientRecord
        <3>2. \/ \E place \in {"ready", "addr_update"} : Goes(u, place)
              \/ client' = [client EXCEPT ![u] = c]
            BY <2>1 DEF SetAddr, SetAddrEnd
        <3> HIDE DEF c
        <3> QED BY <1>1, <3>1, <3>2 DEF Goes, ClientRecord
    <2>2. CASE SetAddrBegin(u)
        BY <1>1, <2>2 DEF SetAddrBegin, Transfer, Stops, Begun, ClientRecord
    <2> QED BY <1>6, <2>1, <2>2
<1>7. ASSUME ClientCall(u) \/ ClientNext(u)
      PROVE  Stays \/ Looks
    <2> HIDE DEF Stays, Looks
    <2> QED BY <1>4, <1>5, <1>6, <1>7, ClientGoes DEF Opening
<1>8. Stays \/ Looks
    <2> HIDE DEF Stays, Looks
    <2> QED BY <1>2, <1>3, <1>7 DEF UsbhNext
<1> QED BY <1>8

\* Nobody changes the table while a client assigns an address, but this client at the end.
LEMMA TableHeld ==
    ASSUME TypeInv, HolderInv, UsbhNext, NEW t \in Clients, Assigns(t)
    PROVE  SetAddrUpdate(t) \/ UNCHANGED <<open_pipes, mutex>>
<1>1. mutex = t /\ ~Unlocked
    BY UsbhAssumption DEF HolderInv, Unlocked
<1>2. ASSUME BusNext
      PROVE  UNCHANGED <<open_pipes, mutex>>
    BY <1>2 DEF BusNext, Plug, Unplug, IsrConnection, IsrDisconnection, IsrError, BusStep,
       TransferOk, TransferError, TableUnchanged
<1>3. ASSUME PortNext
      PROVE  UNCHANGED <<open_pipes, mutex>>
    BY <1>1, <1>3 DEF PortNext, PortReceive, PortFind, PortHandle, PortReset, PortLookup, PortAlloc,
       PortRegister, PortConnect, PortSudden, PortClose, CloseDevice, PortOff, PortRecover, PortOn,
       TableUnchanged
<1>4. ASSUME NEW u \in Clients, ClientCall(u) \/ ClientNext(u)
      PROVE  SetAddrUpdate(t) \/ UNCHANGED <<open_pipes, mutex>>
    <2>1. SetAddrUpdate(u) => u = t
        BY <1>1 DEF SetAddrUpdate, HolderInv, Assigns, AssignPlaces
    <2>2. SetAddrUpdate(u) \/ UNCHANGED <<open_pipes, mutex>>
        BY <1>1, <1>4 DEF ClientCall, ClientNext, OpenAgain, OpenBegin, OpenWait, OpenSearch,
           OpenFound, XferBegin, XferEnd, DescBegin, DescEnd, DescInfo, DescAddr, SetAddr,
           SetAddrBegin, SetAddrEnd, EpLookup, EpAlloc, EpRegister, EpClose, DeviceClose,
           CloseDevice, TableUnchanged
    <2> QED BY <2>1, <2>2
<1> QED BY <1>2, <1>3, <1>4 DEF UsbhNext

\* How an entry of the table changes.
LEMMA EntryGoes ==
    ASSUME TypeInv, UsbhNext, NEW i \in Slots
    PROVE  \/ open_pipes'[i] \in {open_pipes[i], Empty}
           \/ \E t \in Clients :
                 SetAddr(t) /\ client'[t].at = "addr_start" /\ ControlSlots # {}
                    /\ i = Min(ControlSlots)
                    /\ open_pipes'[i] = [open_pipes[i] EXCEPT !.addr = Min(FreeAddrs)]
           \/ \E t \in Clients :
                 SetAddrUpdate(t) /\ i = client[t].slot /\ client[t].result # "ok"
                    /\ open_pipes'[i] = [open_pipes[i] EXCEPT !.addr = 0]
           \/ PortRegister /\ open_pipes'[i].pipe = ptask.pipe /\ open_pipes'[i].is_control = TRUE
                 /\ open_pipes'[i].addr = 0
           \/ \E t \in Clients :
                 EpRegister(t) /\ open_pipes'[i].pipe = client[t].on
                    /\ open_pipes'[i].is_control = FALSE
                    /\ open_pipes'[i].addr = client[t].addr
<1> DEFINE Names(t) == SetAddr(t) /\ client'[t].at = "addr_start" /\ ControlSlots # {}
                          /\ i = Min(ControlSlots)
                          /\ open_pipes'[i] = [open_pipes[i] EXCEPT !.addr = Min(FreeAddrs)]
           Unnames(t) == SetAddrUpdate(t) /\ i = client[t].slot /\ client[t].result # "ok"
                          /\ open_pipes'[i] = [open_pipes[i] EXCEPT !.addr = 0]
           PortAdds == PortRegister /\ open_pipes'[i].pipe = ptask.pipe
                          /\ open_pipes'[i].is_control = TRUE /\ open_pipes'[i].addr = 0
           Adds(t) == EpRegister(t) /\ open_pipes'[i].pipe = client[t].on
                          /\ open_pipes'[i].is_control = FALSE
                          /\ open_pipes'[i].addr = client[t].addr
           Same == open_pipes'[i] \in {open_pipes[i], Empty}
<1>1. open_pipes \in [Slots -> Entry]
    BY DEF TypeInv, UsbhTypeOK
<1>2. ASSUME NEW S, open_pipes' = Cleared(S)
      PROVE  Same
    BY <1>2 DEF Cleared
<1>3. UNCHANGED open_pipes => Same
    OBVIOUS
<1>4. ASSUME NEW p, NEW control, NEW a, Registered(p, control, a)
      PROVE  Same \/ /\ open_pipes'[i].pipe = p /\ open_pipes'[i].is_control = control
                     /\ open_pipes'[i].addr = a
    BY <1>1, <1>4 DEF Registered
<1>5. ASSUME BusNext
      PROVE  Same
    BY <1>5 DEF BusNext, Plug, Unplug, IsrConnection, IsrDisconnection, IsrError, BusStep,
       TransferOk, TransferError, TableUnchanged
<1>6. ASSUME PortNext
      PROVE  Same \/ PortAdds
    <2>1. UNCHANGED open_pipes \/ open_pipes' = Cleared(Closed)
              \/ (PortRegister /\ Registered(ptask.pipe, TRUE, 0))
        BY <1>6 DEF PortNext, PortReceive, PortFind, PortHandle, PortReset, PortLookup,
           PortAlloc, PortRegister, PortConnect, PortSudden, PortClose, CloseDevice, PortOff,
           PortRecover, PortOn, TableUnchanged
    <2>2. CASE PortRegister /\ Registered(ptask.pipe, TRUE, 0)
        BY <1>4, <2>2
    <2> QED BY <1>2, <1>3, <2>1, <2>2
<1>7. ASSUME NEW t \in Clients, ClientCall(t) \/ ClientNext(t)
      PROVE  Same \/ Names(t) \/ Unnames(t) \/ Adds(t)
    <2>1. CASE EpClose(t) \/ DeviceClose(t)
        BY <1>2, <1>3, <2>1 DEF EpClose, DeviceClose, CloseDevice
    <2>2. CASE SetAddr(t)
        <3> DEFINE c == [client[t] EXCEPT !.at = "addr_start", !.slot = Min(ControlSlots),
                                          !.addr = Min(FreeAddrs)]
        <3>1. \/ UNCHANGED open_pipes
              \/ /\ ControlSlots # {} /\ client' = [client EXCEPT ![t] = c]
                 /\ open_pipes' = [open_pipes EXCEPT ![Min(ControlSlots)].addr = Min(FreeAddrs)]
            BY <2>2 DEF SetAddr
        <3>2. c.at = "addr_start" /\ DOMAIN client = Clients
            BY ClientsOK DEF ClientOK, ClientRecord
        <3> HIDE DEF c
        <3> QED BY <1>1, <2>2, <3>1, <3>2
    <2>3. CASE SetAddrUpdate(t)
        BY <1>1, <2>3 DEF SetAddrUpdate
    <2>4. CASE EpRegister(t)
        <3>1. UNCHANGED open_pipes \/ Registered(client[t].on, FALSE, client[t].addr)
            BY <2>4 DEF EpRegister
        <3> QED BY <1>4, <2>4, <3>1
    <2>5. CASE ~(EpClose(t) \/ DeviceClose(t) \/ SetAddr(t) \/ SetAddrUpdate(t) \/ EpRegister(t))
        <3>1. UNCHANGED open_pipes
            BY <1>7, <2>5 DEF ClientCall, ClientNext, OpenAgain, OpenBegin, OpenWait,
               OpenSearch, OpenFound, XferBegin, XferEnd, DescBegin, DescEnd, DescInfo, DescAddr,
               SetAddrBegin, SetAddrEnd, EpLookup, EpAlloc, TableUnchanged
        <3> QED BY <3>1
    <2> QED BY <2>1, <2>2, <2>3, <2>4, <2>5
<1>8. Same \/ PortAdds \/ \E t \in Clients : Names(t) \/ Unnames(t) \/ Adds(t)
    <2> HIDE DEF Same, PortAdds, Names, Unnames, Adds
    <2> QED BY <1>5, <1>6, <1>7 DEF UsbhNext
<1> QED BY <1>8

\* Every step keeps what the holder of the mutex knows of its slot.
LEMMA HolderKept ==
    ASSUME TypeInv, HolderInv, UsbhNext
    PROVE  HolderInv'
<1> SUFFICES ASSUME NEW u \in Clients, client'[u].at \in AssignPlaces
             PROVE  /\ mutex' = u /\ client'[u].addr # 0
                    /\ client'[u].slot \in ControlSlots'
                    /\ open_pipes'[client'[u].slot].addr = client'[u].addr
    BY DEF HolderInv, Assigns
<1>1. CASE /\ Assigns(u)
           /\ client'[u].slot = client[u].slot /\ client'[u].addr = client[u].addr
    <2>1. ~SetAddrUpdate(u)
        BY ClientsOK DEF SetAddrUpdate, AssignPlaces, ClientOK, ClientRecord
    <2>2. UNCHANGED <<open_pipes, mutex>>
        BY <1>1, <2>1, TableHeld
    <2>3. ControlSlots' = ControlSlots
        BY <2>2 DEF ControlSlots, Used
    <2> QED BY <1>1, <2>2, <2>3 DEF HolderInv
<1>2. CASE /\ ControlSlots # {} /\ FreeAddrs # {} /\ mutex' = u
           /\ open_pipes' = [open_pipes EXCEPT ![Min(ControlSlots)].addr = Min(FreeAddrs)]
           /\ client'[u].slot = Min(ControlSlots) /\ client'[u].addr = Min(FreeAddrs)
    <2>1. Min(ControlSlots) \in ControlSlots /\ Min(FreeAddrs) \in FreeAddrs
        BY <1>2, Tables
    <2>2. Min(FreeAddrs) # 0
        BY <2>1 DEF FreeAddrs
    <2>3. /\ open_pipes \in [Slots -> Entry] /\ Min(ControlSlots) \in Used
          /\ open_pipes[Min(ControlSlots)].is_control
        BY <2>1 DEF TypeInv, UsbhTypeOK, ControlSlots
    <2>4. /\ open_pipes'[Min(ControlSlots)].addr = Min(FreeAddrs)
          /\ open_pipes'[Min(ControlSlots)].pipe = open_pipes[Min(ControlSlots)].pipe
          /\ open_pipes'[Min(ControlSlots)].is_control
        BY <1>2, <2>3 DEF Used, Entry
    <2>5. Min(ControlSlots) \in ControlSlots'
        BY <2>3, <2>4 DEF ControlSlots, Used
    <2> QED BY <1>2, <2>2, <2>4, <2>5
<1> QED BY <1>1, <1>2, AssignGoes

\* Every step keeps that an endpoint, open or being opened, has an address.
LEMMA AssignedKept ==
    ASSUME TypeInv, HolderInv, AssignedInv, UsbhNext
    PROVE  AssignedInv'
<1>1. open_pipes \in [Slots -> Entry] /\ NoPipe \notin Pipes
    BY UsbhAssumption DEF TypeInv, UsbhTypeOK
<1>2. ASSUME NEW i \in Slots, open_pipes'[i].pipe # NoPipe, ~open_pipes'[i].is_control
      PROVE  open_pipes'[i].addr # 0
    <2>1. CASE open_pipes'[i] \in {open_pipes[i], Empty}
        BY <1>2, <2>1 DEF Empty, AssignedInv, Used
    <2>2. ASSUME NEW t \in Clients, ControlSlots # {}, i = Min(ControlSlots),
                 open_pipes'[i] = [open_pipes[i] EXCEPT !.addr = Min(FreeAddrs)]
          PROVE  FALSE
        <3>1. open_pipes[i].is_control
            BY <2>2, Tables DEF ControlSlots
        <3> QED BY <1>1, <1>2, <2>2, <3>1 DEF Entry
    <2>3. ASSUME NEW t \in Clients, SetAddrUpdate(t), i = client[t].slot,
                 open_pipes'[i] = [open_pipes[i] EXCEPT !.addr = 0]
          PROVE  FALSE
        <3>1. open_pipes[i].is_control
            BY <2>3 DEF SetAddrUpdate, HolderInv, Assigns, AssignPlaces, ControlSlots
        <3> QED BY <1>1, <1>2, <2>3, <3>1 DEF Entry
    <2>4. ASSUME NEW t \in Clients, EpRegister(t), open_pipes'[i].addr = client[t].addr
          PROVE  open_pipes'[i].addr # 0
        BY <2>4 DEF EpRegister, AssignedInv, Opening
    <2> QED BY <1>2, <2>1, <2>2, <2>3, <2>4, EntryGoes
<1>3. ASSUME NEW u \in Clients, client'[u].at \in {"ep_alloc", "ep_reg"}
      PROVE  client'[u].addr # 0
    BY <1>3, OpenGoes DEF AssignedInv
<1> QED BY <1>2, <1>3 DEF AssignedInv, Opening, Used

\* What a client waits for after a step.
LEMMA WaitGoes ==
    ASSUME "alone" \in Rules, TypeInv, ResultInv, UsbhNext, NEW v \in Clients,
           client'[v].result = "busy"
    PROVE  \/ client[v].result = "busy" /\ client'[v].on = client[v].on
           \/ client'[v].on \notin Assigned
           \/ SetAddrBegin(v)
<1>1. DOMAIN client = Clients /\ \A u \in Clients : client[u] \in ClientRecord
    BY ClientsOK DEF ClientOK
<1> DEFINE Stays == client[v].result = "busy" /\ client'[v].on = client[v].on
<1>2. ASSUME BusNext \/ PortNext
      PROVE  Stays
    BY <1>2, OthersGo
<1>3. ASSUME NEW t \in Clients, ClientCall(t) \/ ClientNext(t), v # t
      PROVE  Stays
    BY <1>3, ClientGoes
<1>4. ASSUME ClientCall(v) \/ ClientNext(v)
      PROVE  client'[v].on \notin Assigned \/ SetAddrBegin(v)
    <2>1. \/ SetAddrBegin(v)
          \/ /\ XferBegin(v) \/ DescBegin(v)
             /\ client'[v].at # "stopped"
        BY <1>4, ResultGoes DEF SetAddrEnd, Ended
    <2>2. ASSUME NEW p, NEW place, p \notin Assigned, Transfer(v, p, place),
                 client'[v].at # "stopped"
          PROVE  client'[v].on \notin Assigned
        <3>1. ~Stops(v)
            BY <1>1, <2>2 DEF Stops, ClientRecord
        <3> DEFINE c == Begun(client[v], p, place)
        <3>2. c.on = p
            BY <1>1 DEF Begun, ClientRecord
        <3>3. client' = [client EXCEPT ![v] = c]
            BY <2>2, <3>1 DEF Transfer
        <3> HIDE DEF c
        <3> QED BY <1>1, <2>2, <3>2, <3>3
    <2>3. XferBegin(v) => \E p : p \notin Assigned /\ Transfer(v, p, "xfer")
        BY DEF XferBegin, Keeps
    <2>4. DescBegin(v) => \E p : p \notin Assigned /\ Transfer(v, p, "desc")
        BY DEF DescBegin, Keeps
    <2> QED BY <2>1, <2>2, <2>3, <2>4
<1>5. Stays \/ client'[v].on \notin Assigned \/ SetAddrBegin(v)
    <2> HIDE DEF Stays
    <2> QED BY <1>2, <1>3, <1>4 DEF UsbhNext
<1> QED BY <1>5

\* Every step keeps that nobody else waits on the control pipe of an assignment.
LEMMA AloneKept ==
    ASSUME "alone" \in Rules, TypeInv, ResultInv, HolderInv, AloneInv, UsbhNext
    PROVE  AloneInv'
<1> SUFFICES ASSUME NEW u \in Clients, client'[u].at \in {"addr", "addr_update"}
             PROVE  /\ client'[u].on = open_pipes'[client'[u].slot].pipe
                    /\ \A v \in Clients \ {u} :
                          ~(client'[v].result = "busy" /\ client'[v].on = client'[u].on)
    BY DEF AloneInv, Waiting
<1> DEFINE p == open_pipes[client[u].slot].pipe
<1>1. /\ Assigns(u) /\ client'[u].slot = client[u].slot
      /\ \/ client'[u].at = client[u].at /\ client'[u].on = client[u].on
         \/ SetAddrBegin(u) /\ client'[u].on = p
         \/ SetAddrEnd(u) /\ client'[u].on = client[u].on
    BY AssignGoes DEF AssignPlaces
<1>2. ~SetAddrUpdate(u)
    BY ClientsOK DEF SetAddrUpdate, ClientOK, ClientRecord
<1>3. UNCHANGED open_pipes
    BY <1>1, <1>2, TableHeld
<1>4. client'[u].on = p /\ Waiting(p) \subseteq {u}
    <2>1. CASE SetAddrBegin(u) /\ client'[u].on = p
        BY <2>1 DEF SetAddrBegin, Keeps
    <2>2. CASE client'[u].at = client[u].at /\ client'[u].on = client[u].on
        BY <2>2 DEF AloneInv
    <2>3. CASE SetAddrEnd(u) /\ client'[u].on = client[u].on
        BY <2>3 DEF AloneInv, SetAddrEnd, Ended
    <2> QED BY <1>1, <2>1, <2>2, <2>3
<1>5. p \in Assigned
    BY <1>1 DEF Assigned, Assigns, AssignPlaces
<1>6. ASSUME NEW v \in Clients \ {u}, client'[v].result = "busy", client'[v].on = p
      PROVE  FALSE
    <2>1. ~SetAddrBegin(v)
        BY <1>1 DEF SetAddrBegin, HolderInv, Assigns, AssignPlaces
    <2>2. client[v].result = "busy" /\ client[v].on = p
        BY <1>5, <1>6, <2>1, WaitGoes
    <2> QED BY <1>4, <2>2 DEF Waiting
<1> QED BY <1>1, <1>3, <1>4, <1>6

\* While a device is there, everything has its address, or a client is about to change that of
\* its only pipe.
Device == hcd.conn /\ bus.attached

Settled ==
    /\ \A p \in Pipes : ~Freed(p) => hcd.pipe[p].addr = bus.addr
    /\ \A i \in Used : open_pipes[i].addr = bus.addr
    /\ \A t \in Clients : Opening(t) => client[t].addr = bus.addr

Changing(t) ==
    /\ Used = {client[t].slot}
    /\ hcd.pipe[open_pipes[client[t].slot].pipe].addr = 0
    /\ \A p \in Pipes :
          ~Freed(p) /\ p # open_pipes[client[t].slot].pipe => hcd.pipe[p].addr = client[t].addr
    /\ \A u \in Clients : Opening(u) => client[u].addr = client[t].addr
    /\ client[t].result \in {"none", "busy"} => bus.addr = 0
    /\ client[t].result = "ok" => bus.addr = client[t].addr
    /\ client[t].result # "error"

AddrInv ==
    Device =>
        /\ (\A t \in Clients : ~Assigns(t)) => Settled
        /\ \A t \in Clients : Assigns(t) => Changing(t)
        /\ ptask.at \in {"lookup", "alloc", "register"} => bus.addr = 0

\* The invariants the device layer has without this one.
Below == TypeInv /\ TableInv /\ PhaseInv /\ ControlInv /\ ClosedInv
Around == ResultInv /\ HolderInv /\ AssignedInv /\ AloneInv

\* How a device comes to be there, and how its address changes.
LEMMA DeviceGoes ==
    ASSUME TypeInv, PhaseInv, UsbhNext, hcd'.conn, bus'.attached
    PROVE  \/ /\ Device
              /\ \/ bus'.addr = bus.addr
                 \/ \E t \in Clients : TransferOk(t) /\ client[t].at = "addr"
           \/ PortReset /\ bus'.addr = 0 /\ hcd.state # "RECOVERY"
<1>1. /\ hcd \in HcdRecord
      /\ bus \in [attached : BOOLEAN, addr : Addrs, count : 0 .. MaxConnections]
    BY DEF TypeInv, UsbhTypeOK
<1>2. hcd.conn => hcd.seen /\ ~hcd.lock
    BY DEF PhaseInv, StateInv
<1> DEFINE Same == Device /\ bus'.addr = bus.addr
<1>3. ASSUME BusNext
      PROVE  Same \/ (Device /\ \E t \in Clients : TransferOk(t) /\ client[t].at = "addr")
    <2>1. ~Plug
        BY <1>1, <1>2 DEF Plug, Disconnects, Line
    <2>2. ~Unplug
        BY <1>1 DEF Unplug
    <2>3. ~IsrConnection
        BY <1>1, <1>2 DEF IsrConnection, Connects, Event, HcdRecord
    <2>4. ~IsrDisconnection
        <3> DEFINE g == [hcd EXCEPT !.seen = FALSE, !.lock = TRUE]
                   l == [g EXCEPT !.state = "RECOVERY", !.conn = FALSE]
        <3>1. g.conn = hcd.conn /\ l.conn = FALSE
            BY <1>1 DEF HcdRecord
        <3>2. ASSUME IsrDisconnection
              PROVE  FALSE
            <4>1. CASE hcd.conn
                <5>1. hcd' = [l EXCEPT !.event = "SUDDEN_DISCONN"]
                    BY <3>2, <4>1 DEF IsrDisconnection, Event
                <5> QED BY <1>1, <5>1 DEF HcdRecord
            <4>2. CASE ~hcd.conn
                <5>1. hcd' = [g EXCEPT !.event = "DISCONNECTION"]
                    BY <3>2, <4>2 DEF IsrDisconnection, Event
                <5> QED BY <1>1, <4>2, <5>1 DEF HcdRecord
            <4> QED BY <4>1, <4>2
        <3> QED BY <3>2
    <2>5. ~IsrError
        BY <1>1 DEF IsrError, Event, HcdRecord
    <2>6. ASSUME NEW t \in Clients, TransferOk(t)
          PROVE  Same \/ (Device /\ client[t].at = "addr")
        BY <1>1, <2>6 DEF TransferOk, Device
    <2>7. ASSUME NEW t \in Clients, TransferError(t)
          PROVE  Same
        BY <2>7 DEF TransferError, BelowUnchanged, Device
    <2> QED BY <1>3, <2>1, <2>2, <2>3, <2>4, <2>5, <2>6, <2>7 DEF BusNext
<1>4. ASSUME PortNext
      PROVE  Same \/ (PortReset /\ bus'.addr = 0 /\ hcd.state # "RECOVERY")
    <2>1. CASE PortReset
        <3>1. \/ UNCHANGED <<hcd, bus>>
              \/ hcd.state # "RECOVERY" /\ Enables
            BY <2>1 DEF PortReset, ResetPort
        <3>2. Enables => bus'.addr = 0
            BY <1>1 DEF Enables, HcdRecord
        <3> QED BY <2>1, <3>1, <3>2 DEF Device
    <2>2. CASE ~PortReset
        <3>1. hcd'.conn = hcd.conn /\ UNCHANGED bus
            BY <1>1, <1>4, <2>2 DEF PortNext, PortReceive, PortFind, PortHandle, HandleLoss,
               HandleConnection, HandleNothing, Debounced, PortLookup, PortAlloc, NewPipe,
               PortRegister, PortConnect, PortSudden, PortClose, CloseDevice, FreePipes, PortOff,
               PortRecover, PortOn, BelowUnchanged, HcdRecord
        <3> QED BY <3>1 DEF Device
    <2> QED BY <2>1, <2>2
<1>5. ASSUME NEW t \in Clients, ClientCall(t) \/ ClientNext(t)
      PROVE  Same
    BY <1>5, ClientBelow DEF PortSame, Device
<1> QED BY <1>3, <1>4, <1>5 DEF UsbhNext

\* How a pipe comes to be there, and how its address changes.
LEMMA PipeGoes ==
    ASSUME TypeInv, UsbhNext, NEW p \in Pipes, hcd'.pipe[p].state # "FREE"
    PROVE  \/ ~Freed(p) /\ hcd'.pipe[p].addr = hcd.pipe[p].addr
           \/ PortAlloc /\ Freed(p) /\ hcd'.pipe[p].addr = 0
           \/ \E t \in Clients :
                 EpAlloc(t) /\ Freed(p) /\ hcd'.pipe[p].addr = client[t].addr
           \/ \E t \in Clients : SetAddrUpdate(t) /\ p = client[t].on
<1>1. hcd \in HcdRecord
    BY DEF TypeInv, UsbhTypeOK
<1> DEFINE Same == ~Freed(p) /\ hcd'.pipe[p].addr = hcd.pipe[p].addr
<1>2. hcd'.pipe = hcd.pipe => Same
    BY DEF Freed
<1>3. ASSUME NEW S, FreePipes(S)
      PROVE  Same
    BY <1>1, <1>3 DEF FreePipes, Freed, HcdRecord
<1>4. ASSUME NEW q \in Pipes, NEW a, Freed(q), NewPipe(q, a)
      PROVE  Same \/ (Freed(p) /\ hcd'.pipe[p].addr = a)
    BY <1>1, <1>4 DEF NewPipe, Freed, HcdRecord
<1>5. ASSUME BusNext
      PROVE  Same
    <2>1. hcd'.pipe = hcd.pipe
        BY <1>1, <1>5 DEF BusNext, Plug, Unplug, IsrConnection, IsrDisconnection, IsrError, Event,
           TransferOk, TransferError, BelowUnchanged, HcdRecord
    <2> QED BY <1>2, <2>1
<1>6. ASSUME PortNext
      PROVE  Same \/ (PortAlloc /\ Freed(p) /\ hcd'.pipe[p].addr = 0)
    <2>1. CASE PortAlloc
        <3>1. UNCHANGED hcd \/ \E q \in Pipes : Freed(q) /\ NewPipe(q, 0)
            BY <2>1 DEF PortAlloc
        <3> QED BY <1>2, <1>4, <2>1, <3>1
    <2>2. CASE PortHandle
        <3>1. hcd'.pipe = hcd.pipe \/ hcd'.pipe = Invalidated
            BY <1>1, <2>2 DEF PortHandle, HandleLoss, HandleConnection, HandleNothing, Debounced,
               HcdRecord
        <3>2. ASSUME hcd'.pipe = Invalidated
              PROVE  Same
            BY <1>1, <3>2 DEF Invalidated, Freed, HcdRecord
        <3> QED BY <1>2, <3>1, <3>2
    <2>3. CASE PortClose
        BY <1>3, <2>3 DEF PortClose, CloseDevice
    <2>4. CASE ~PortAlloc /\ ~PortHandle /\ ~PortClose
        <3>1. hcd'.pipe = hcd.pipe
            BY <1>1, <1>6, <2>4 DEF PortNext, PortReceive, PortFind, PortReset, ResetPort, Enables,
               PortLookup, PortRegister, PortConnect, PortSudden, PortOff, PortRecover, PortOn,
               BelowUnchanged, HcdRecord
        <3> QED BY <1>2, <3>1
    <2> QED BY <2>1, <2>2, <2>3, <2>4
<1>7. ASSUME NEW t \in Clients, ClientCall(t) \/ ClientNext(t)
      PROVE  \/ Same
             \/ EpAlloc(t) /\ Freed(p) /\ hcd'.pipe[p].addr = client[t].addr
             \/ SetAddrUpdate(t) /\ p = client[t].on
    <2>1. CASE EpAlloc(t)
        <3>1. UNCHANGED hcd \/ \E q \in Pipes : Freed(q) /\ NewPipe(q, client[t].addr)
            BY <2>1 DEF EpAlloc
        <3> QED BY <1>2, <1>4, <2>1, <3>1
    <2>2. CASE SetAddrUpdate(t)
        <3>1. UNCHANGED hcd \/ hcd' = [hcd EXCEPT !.pipe[client[t].on].addr = client[t].addr]
            BY <2>2 DEF SetAddrUpdate, Update
        <3> QED BY <1>1, <1>2, <2>2, <3>1 DEF Freed, HcdRecord
    <2>3. CASE EpClose(t) \/ DeviceClose(t)
        BY <1>2, <1>3, <2>3 DEF EpClose, DeviceClose, CloseDevice
    <2>4. CASE ~EpAlloc(t) /\ ~SetAddrUpdate(t) /\ ~EpClose(t) /\ ~DeviceClose(t)
        <3>1. UNCHANGED hcd
            BY <1>7, <2>4 DEF ClientCall, ClientNext, OpenAgain, OpenBegin, OpenWait,
               OpenSearch, OpenFound, XferBegin, XferEnd, DescBegin, DescEnd, DescInfo,
               DescAddr, SetAddr, SetAddrBegin, SetAddrEnd, EpLookup, EpRegister, ClientStep,
               BelowUnchanged
        <3> QED BY <1>2, <3>1
    <2> QED BY <2>1, <2>2, <2>3, <2>4
<1>8. \/ Same
      \/ PortAlloc /\ Freed(p) /\ hcd'.pipe[p].addr = 0
      \/ \E t \in Clients : \/ EpAlloc(t) /\ Freed(p) /\ hcd'.pipe[p].addr = client[t].addr
                            \/ SetAddrUpdate(t) /\ p = client[t].on
    <2> HIDE DEF Same
    <2> QED BY <1>5, <1>6, <1>7 DEF UsbhNext
<1> QED BY <1>8

\* While no address is assigned, whatever is opened gets that of the device.
LEMMA SettledStays ==
    ASSUME Below, Around, AddrInv, UsbhNext, Device, bus'.addr = bus.addr,
           \A t \in Clients : ~Assigns(t), \A t \in Clients : client'[t].at \notin AssignPlaces
    PROVE  Settled'
<1>1. /\ Settled /\ TypeInv
      /\ ptask.at \in {"lookup", "alloc", "register"} => bus.addr = 0
    BY DEF AddrInv, Below
<1>2. open_pipes \in [Slots -> Entry]
    BY <1>1 DEF TypeInv, UsbhTypeOK
<1>3. \A t \in Clients : ~SetAddrUpdate(t)
    BY DEF SetAddrUpdate, Assigns, AssignPlaces
<1>4. ASSUME NEW p \in Pipes, hcd'.pipe[p].state # "FREE"
      PROVE  hcd'.pipe[p].addr = bus.addr
    <2>1. PortAlloc => bus.addr = 0
        BY <1>1 DEF PortAlloc
    <2>2. \A t \in Clients : EpAlloc(t) => client[t].addr = bus.addr
        BY <1>1 DEF EpAlloc, Settled, Opening
    <2>3. ~Freed(p) => hcd.pipe[p].addr = bus.addr
        BY <1>1 DEF Settled
    <2> QED BY <1>1, <1>3, <1>4, <2>1, <2>2, <2>3, PipeGoes
<1>5. ASSUME NEW i \in Slots, open_pipes'[i].pipe # NoPipe
      PROVE  open_pipes'[i].addr = bus.addr
    <2>1. CASE open_pipes'[i] \in {open_pipes[i], Empty}
        BY <1>1, <1>5, <2>1 DEF Settled, Used, Empty
    <2>2. ASSUME NEW t \in Clients, client'[t].at = "addr_start"
          PROVE  FALSE
        BY <2>2 DEF AssignPlaces
    <2>3. CASE PortRegister /\ open_pipes'[i].addr = 0
        BY <1>1, <2>3 DEF PortRegister
    <2>4. ASSUME NEW t \in Clients, EpRegister(t), open_pipes'[i].addr = client[t].addr
          PROVE  open_pipes'[i].addr = bus.addr
        BY <1>1, <2>4 DEF EpRegister, Settled, Opening
    <2> QED BY <1>1, <1>3, <2>1, <2>2, <2>3, <2>4, EntryGoes
<1>6. ASSUME NEW t \in Clients, client'[t].at \in {"ep_alloc", "ep_reg"}
      PROVE  client'[t].addr = bus.addr
    <2>1. Opening(t) => client[t].addr = bus.addr
        BY <1>1 DEF Settled
    <2>2. ASSUME NEW i \in InfoOf(client[t].ctrl), open_pipes[i].addr # 0
          PROVE  open_pipes[i].addr = bus.addr
        <3>1. open_pipes[i].pipe # NoPipe
            BY <2>2 DEF InfoOf, Below, TableInv, Empty
        <3> QED BY <1>1, <2>2, <3>1 DEF Settled, Used, InfoOf
    <2> QED BY <1>1, <1>6, <2>1, <2>2, OpenGoes
<1> QED BY <1>4, <1>5, <1>6 DEF Settled, Freed, Used, Opening

\* The only pipe is that of the device without an address.
LEMMA ChangingBegins ==
    ASSUME Below, Around, AddrInv, UsbhNext, Device, \A t \in Clients : ~Assigns(t),
           NEW u \in Clients, SetAddr(u), ControlSlots # {}, FreeAddrs # {},
           open_pipes[Min(ControlSlots)].addr = 0,
           open_pipes' = [open_pipes EXCEPT ![Min(ControlSlots)].addr = Min(FreeAddrs)],
           client'[u].at = "addr_start", client'[u].slot = Min(ControlSlots),
           client'[u].addr = Min(FreeAddrs)
    PROVE  Changing(u)'
<1> DEFINE info == Min(ControlSlots)
<1>1. Settled /\ TypeInv /\ TableInv /\ ControlInv /\ AssignedInv /\ ResultInv
    BY DEF AddrInv, Below, Around
<1>2. open_pipes \in [Slots -> Entry] /\ NoPipe \notin Pipes
    BY <1>1, UsbhAssumption DEF TypeInv, UsbhTypeOK
<1>3. UNCHANGED <<hcd, bus>>
    BY DEF SetAddr, ClientStep, BelowUnchanged
<1>4. info \in ControlSlots /\ info \in Used /\ info \in Slots
    BY <1>1, Tables DEF ControlSlots, Used
<1>5. bus.addr = 0
    BY <1>1, <1>4 DEF Settled
<1>6. Used = {info}
    <2>1. ASSUME NEW i \in Used
          PROVE  i = info
        <3>1. open_pipes[i].addr = 0
            BY <1>1, <1>5 DEF Settled
        <3>2. i \in ControlSlots
            BY <1>1, <3>1 DEF AssignedInv, ControlSlots
        <3> QED BY <1>1, <1>4, <3>2 DEF ControlInv
    <2> QED BY <1>4, <2>1
<1>7. Used' = {info}
    <2>1. \A i \in Slots : open_pipes'[i].pipe = open_pipes[i].pipe
        BY <1>2, <1>4 DEF Entry
    <2>2. Used' = Used
        BY <2>1 DEF Used
    <2> QED BY <1>6, <2>2
<1>8. open_pipes'[info].pipe = open_pipes[info].pipe
    BY <1>2, <1>4 DEF Entry
<1>9. \A v \in Clients : ~Opening(v)
    BY <1>1, <1>5 DEF Settled, AssignedInv
<1>10. ASSUME NEW p \in Pipes, ~Freed(p)
       PROVE  p = open_pipes[info].pipe
    <2>1. ~AtPort(p)
        BY <1>1, <1>4 DEF AtPort, ControlInv
    <2>2. \A v \in Clients : ~AtClient(v, p)
        BY <1>9 DEF AtClient, Opening
    <2>3. InTable(p)
        BY <1>1, <1>10, <2>1, <2>2 DEF TableInv
    <2>4. PICK i \in Slots : open_pipes[i].pipe = p
        BY <2>3 DEF InTable
    <2>5. i \in Used
        BY <1>2, <2>4 DEF Used
    <2> QED BY <1>6, <2>4, <2>5
<1>11. hcd.pipe[open_pipes[info].pipe].addr = 0
    <2>1. open_pipes[info].pipe \in Pipes
        BY <1>2, <1>4 DEF Used, Entry
    <2>2. ~Freed(open_pipes[info].pipe)
        BY <1>1, <1>4, <2>1 DEF TableInv, InTable
    <2> QED BY <1>1, <1>5, <2>1, <2>2 DEF Settled
<1>12. \A v \in Clients : client'[v].at \notin {"ep_alloc", "ep_reg"}
    BY <1>1, <1>9, ClientGoes DEF Opening, ClientNext
<1>13. client'[u].result = "none"
    BY <1>1, ResultGoes DEF ClientNext
<1> QED BY <1>3, <1>5, <1>7, <1>8, <1>10, <1>11, <1>12, <1>13 DEF Changing, Freed, Opening

\* The pipe of the client that assigns an address.
LEMMA AssignerPipe ==
    ASSUME TypeInv, TableInv, HolderInv, NEW u \in Clients, Assigns(u)
    PROVE  /\ open_pipes[client[u].slot].pipe \in Pipes
           /\ client[u].slot \in Slots /\ client[u].slot \in Used
           /\ InTable(open_pipes[client[u].slot].pipe)
           /\ ~Freed(open_pipes[client[u].slot].pipe)
<1>1. open_pipes \in [Slots -> Entry]
    BY DEF TypeInv, UsbhTypeOK
<1>2. client[u].slot \in Used /\ client[u].slot \in Slots
    BY DEF HolderInv, ControlSlots, Used
<1>3. open_pipes[client[u].slot].pipe \in Pipes
    BY <1>1, <1>2 DEF Used, Entry
<1> QED BY <1>2, <1>3 DEF TableInv, InTable

\* The device that has no address answers there, and takes the new one when it does.
LEMMA AssignerResult ==
    ASSUME "transfer" \notin Faults, Below, Around, AddrInv, UsbhNext, Device,
           bus'.attached, hcd'.conn,
           NEW u \in Clients, Assigns(u), client'[u].at \in AssignPlaces
    PROVE  /\ client'[u].result \in {"none", "busy"} => bus'.addr = 0
           /\ client'[u].result = "ok" => bus'.addr = client[u].addr
           /\ client'[u].result # "error"
<1>1. /\ TypeInv /\ TableInv /\ PhaseInv /\ ClosedInv
      /\ ResultInv /\ HolderInv /\ AloneInv /\ Changing(u)
    BY DEF Below, Around, AddrInv
<1>2. /\ hcd \in HcdRecord
      /\ bus \in [attached : BOOLEAN, addr : Addrs, count : 0 .. MaxConnections]
      /\ DOMAIN client = Clients /\ \A v \in Clients : client[v] \in ClientRecord
    BY <1>1, ClientsOK DEF TypeInv, UsbhTypeOK, ClientOK
<1> DEFINE p == open_pipes[client[u].slot].pipe
           Same == client'[u].result = client[u].result /\ bus'.addr = bus.addr
<1>3. /\ client[u].result \in {"none", "busy"} => bus.addr = 0
      /\ client[u].result = "ok" => bus.addr = client[u].addr
      /\ client[u].result # "error"
    BY <1>1 DEF Changing
<1>4. p \in Pipes /\ ~Freed(p) /\ hcd.pipe[p].addr = 0 /\ hcd.pipe[p].state = "ACTIVE"
    <2>1. p \in Pipes /\ ~Freed(p)
        BY <1>1, AssignerPipe
    <2>2. hcd.pipe[p].state # "INVALID"
        BY <1>1, <2>1 DEF ClosedInv, ConnectedIsValid, Device
    <2> QED BY <1>1, <1>2, <2>1, <2>2 DEF Changing, Freed, HcdRecord
<1>5. hcd.event = "NONE" /\ hcd.state = "ENABLED"
    BY <1>1 DEF PhaseInv, StateInv, Device
<1>6. client[u].result = "busy" => client[u].at = "addr" /\ client[u].on = p
    BY <1>1 DEF ResultInv, AloneInv, Assigns, AssignPlaces
<1>7. \A t \in Clients : client[t].at = "addr" => t = u
    BY <1>1 DEF HolderInv, Assigns, AssignPlaces
<1>8. ASSUME NEW t \in Clients, TransferOk(t)
      PROVE  Same \/ (client'[u].result = "ok" /\ bus'.addr = client[u].addr)
    <2>1. CASE t = u
        BY <1>2, <1>6, <1>8, <2>1 DEF TransferOk, ClientRecord
    <2>2. CASE t # u
        BY <1>2, <1>7, <1>8, <2>2 DEF TransferOk
    <2> QED BY <2>1, <2>2
<1>9. ASSUME NEW t \in Clients, TransferError(t)
      PROVE  Same
    <2>1. t # u
        BY <1>3, <1>4, <1>6, <1>9 DEF TransferError, Answers, Device
    <2> QED BY <1>2, <1>9, <2>1 DEF TransferError, BelowUnchanged
<1>10. ASSUME Plug \/ Unplug \/ IsrConnection \/ IsrDisconnection \/ IsrError
       PROVE  Same
    BY <1>2, <1>10 DEF Plug, Unplug, IsrConnection, IsrDisconnection, IsrError, BusStep, Device
<1>11. ASSUME PortNext
       PROVE  Same
    <2>1. ~PortReset
        BY <1>1 DEF PortReset, PhaseInv, TaskInv, Device
    <2>2. UNCHANGED bus
        BY <1>11, <2>1 DEF PortNext, PortReceive, PortFind, PortHandle, PortLookup, PortAlloc,
           PortRegister, PortConnect, PortSudden, PortClose, PortOff, PortRecover, PortOn,
           BelowUnchanged
    <2>3. ~PortHandle
        BY <1>1, <1>5 DEF PortHandle, PhaseInv, SlotInv
    <2>4. ~PortClose
        BY <1>1 DEF PortClose, PhaseInv, TaskInv, Device
    <2>5. UNCHANGED client \/ client' = Woken
        BY <1>11, <2>1, <2>3, <2>4 DEF PortNext, PortReceive, PortFind, PortLookup, PortAlloc,
           PortRegister, PortConnect, PortSudden, PortOff, PortRecover, PortOn
    <2>6. client'[u].result = client[u].result
        BY <1>2, <2>5 DEF Woken, ClientRecord
    <2> QED BY <2>2, <2>6
<1>12. ASSUME NEW t \in Clients, ClientCall(t) \/ ClientNext(t), t # u
       PROVE  Same
    BY <1>1, <1>12, ClientBelow, ClientGoes
<1>13. ASSUME ClientCall(u) \/ ClientNext(u)
       PROVE  Same \/ (client'[u].result = "busy" /\ client[u].result = "none"
                          /\ bus'.addr = bus.addr)
    <2>1. UNCHANGED bus
        BY <1>1, <1>13, ClientBelow
    <2>2. SetAddrBegin(u) \/ SetAddrEnd(u)
        BY <1>1, <1>13, ClientGoes DEF EpLookup, EpAlloc, SetAddr, Assigns, AssignPlaces
    <2>3. CASE SetAddrBegin(u)
        <3> DEFINE c == Begun(client[u], p, "addr")
        <3>1. c.result = "busy"
            BY <1>2, <1>4, <1>5 DEF Begun, ClientRecord
        <3>2. client' = [client EXCEPT ![u] = c]
            BY <1>4, <2>3 DEF SetAddrBegin, Transfer
        <3>3. client[u].result = "none"
            BY <1>1, <2>3 DEF SetAddrBegin, ResultInv
        <3> HIDE DEF c
        <3> QED BY <1>2, <2>1, <3>1, <3>2, <3>3
    <2>4. CASE SetAddrEnd(u)
        BY <1>2, <2>1, <2>4 DEF SetAddrEnd, Goes, ClientRecord
    <2> QED BY <2>2, <2>3, <2>4
<1>14. \/ Same
       \/ client'[u].result = "ok" /\ bus'.addr = client[u].addr
       \/ client'[u].result = "busy" /\ client[u].result = "none" /\ bus'.addr = bus.addr
    <2> HIDE DEF Same
    <2> QED BY <1>8, <1>9, <1>10, <1>11, <1>12, <1>13 DEF UsbhNext, BusNext
<1> QED BY <1>3, <1>14

\* Meanwhile nothing else is entered, and what is opened gets the new address.
LEMMA ChangingStays ==
    ASSUME "transfer" \notin Faults, Below, Around, AddrInv, UsbhNext, Device, TableInv',
           bus'.attached, hcd'.conn,
           NEW u \in Clients, Assigns(u), client'[u].at \in AssignPlaces,
           client'[u].slot = client[u].slot, client'[u].addr = client[u].addr
    PROVE  Changing(u)'
<1> DEFINE slot == client[u].slot
           p == open_pipes[slot].pipe
<1>1. /\ TypeInv /\ TableInv /\ ControlInv /\ HolderInv /\ Changing(u)
    BY DEF Below, Around, AddrInv
<1>2. p \in Pipes /\ slot \in Slots /\ slot \in Used /\ ~Freed(p)
    BY <1>1, AssignerPipe
<1>3. ~SetAddrUpdate(u)
    <2> DEFINE c == [client[u] EXCEPT !.at = "ready", !.on = NoPipe, !.slot = 0, !.addr = 0,
                                      !.result = "none"]
    <2>1. client[u] \in ClientRecord /\ DOMAIN client = Clients
        BY <1>1, ClientsOK DEF ClientOK
    <2>2. c.at = "ready"
        BY <2>1 DEF ClientRecord
    <2>3. SetAddrUpdate(u) => client' = [client EXCEPT ![u] = c]
        BY DEF SetAddrUpdate
    <2> HIDE DEF c
    <2> QED BY <2>1, <2>2, <2>3 DEF AssignPlaces
<1>4. UNCHANGED open_pipes
    BY <1>1, <1>3, TableHeld
<1>5. \A t \in Clients : ~SetAddrUpdate(t)
    BY <1>1, <1>3 DEF SetAddrUpdate, HolderInv, Assigns, AssignPlaces
<1>6. Used' = {slot}
    <2>1. Used' = Used
        BY <1>4 DEF Used
    <2> QED BY <1>1, <2>1 DEF Changing
<1>7. ~PortAlloc
    BY <1>1 DEF PortAlloc, ControlInv, HolderInv
<1>8. hcd'.pipe[p].addr = 0
    <2>1. \E i \in Slots : open_pipes'[i].pipe = p
        BY <1>2, <1>4
    <2>2. hcd'.pipe[p].state # "FREE"
        BY <1>2, <2>1 DEF TableInv, InTable, Freed
    <2>3. hcd'.pipe[p].addr = hcd.pipe[p].addr
        BY <1>1, <1>2, <1>5, <2>2, PipeGoes
    <2> QED BY <1>1, <2>3 DEF Changing
<1>9. ASSUME NEW q \in Pipes, hcd'.pipe[q].state # "FREE", q # p
      PROVE  hcd'.pipe[q].addr = client[u].addr
    <2>1. \A t \in Clients : EpAlloc(t) => client[t].addr = client[u].addr
        BY <1>1 DEF EpAlloc, Changing, Opening
    <2>2. ~Freed(q) => hcd.pipe[q].addr = client[u].addr
        BY <1>1, <1>9 DEF Changing
    <2> QED BY <1>1, <1>5, <1>7, <1>9, <2>1, <2>2, PipeGoes
<1>10. ASSUME NEW v \in Clients, client'[v].at \in {"ep_alloc", "ep_reg"}
       PROVE  client'[v].addr = client[u].addr
    <2>1. Opening(v) => client[v].addr = client[u].addr
        BY <1>1 DEF Changing
    <2>2. ASSUME NEW i \in InfoOf(client[v].ctrl), open_pipes[i].addr # 0
          PROVE  open_pipes[i].addr = client[u].addr
        <3>1. open_pipes[i].pipe # NoPipe /\ i \in Slots
            BY <1>1, <2>2 DEF InfoOf, TableInv, Empty
        <3>2. i = slot
            BY <1>1, <3>1 DEF Used, Changing
        <3> QED BY <1>1, <3>2 DEF HolderInv
    <2> QED BY <1>1, <1>10, <2>1, <2>2, OpenGoes
<1>11. /\ client'[u].result \in {"none", "busy"} => bus'.addr = 0
       /\ client'[u].result = "ok" => bus'.addr = client[u].addr
       /\ client'[u].result # "error"
    BY AssignerResult
<1> QED BY <1>4, <1>6, <1>8, <1>9, <1>10, <1>11 DEF Changing, Freed, Opening

\* When it has ended, the pipe has the address of the device, its entry and its other pipes.
LEMMA ChangingEnds ==
    ASSUME Below, Around, AddrInv, UsbhNext, Device,
           NEW u \in Clients, Assigns(u), \A t \in Clients : client'[t].at \notin AssignPlaces
    PROVE  Settled' /\ UNCHANGED <<bus, ptask>>
<1> DEFINE slot == client[u].slot
           p == open_pipes[slot].pipe
<1>1. /\ TypeInv /\ TableInv /\ ClosedInv /\ HolderInv /\ AloneInv /\ ResultInv /\ Changing(u)
    BY DEF Below, Around, AddrInv
<1>2. /\ hcd \in HcdRecord
      /\ DOMAIN client = Clients /\ \A v \in Clients : client[v] \in ClientRecord
    BY <1>1, ClientsOK DEF TypeInv, UsbhTypeOK, ClientOK
<1>3. p \in Pipes /\ slot \in Used /\ slot \in Slots /\ ~Freed(p)
    BY <1>1, AssignerPipe
<1>4. SetAddrUpdate(u)
    <2>1. ASSUME BusNext \/ PortNext
          PROVE  FALSE
        BY <1>1, <2>1, OthersGo DEF Assigns, AssignPlaces
    <2>2. ASSUME NEW t \in Clients, ClientCall(t) \/ ClientNext(t), t # u
          PROVE  FALSE
        BY <1>1, <2>2, ClientGoes DEF Assigns
    <2>3. ~SetAddrBegin(u)
        <3> DEFINE c == Begun(client[u], p, "addr")
        <3>1. c.at = "addr"
            BY <1>2 DEF Begun, ClientRecord
        <3>2. SetAddrBegin(u) => client' = [client EXCEPT ![u] = c]
            BY <1>3 DEF SetAddrBegin, Transfer
        <3> HIDE DEF c
        <3> QED BY <1>2, <3>1, <3>2 DEF AssignPlaces
    <2>4. ~SetAddrEnd(u)
        BY <1>2 DEF SetAddrEnd, Goes, ClientRecord, AssignPlaces
    <2>5. ClientCall(u) \/ ClientNext(u)
        BY <2>1, <2>2 DEF UsbhNext
    <2>6. ~EpLookup(u) /\ ~EpAlloc(u) /\ ~SetAddr(u)
        BY DEF EpLookup, EpAlloc, SetAddr, Assigns, AssignPlaces
    <2> QED BY <1>1, <2>3, <2>4, <2>5, <2>6, ClientGoes DEF Assigns
<1>5. client[u].result = "ok" /\ bus.addr = client[u].addr
    BY <1>1, <1>4 DEF SetAddrUpdate, ResultInv, Changing
<1>6. client[u].on = p /\ Waiting(p) = {}
    <2>1. client[u].on = p /\ Waiting(p) \subseteq {u}
        BY <1>1, <1>4 DEF SetAddrUpdate, AloneInv
    <2> QED BY <1>5, <2>1 DEF Waiting
<1>7. hcd' = [hcd EXCEPT !.pipe[p].addr = client[u].addr]
    <2>1. hcd.pipe[p].state # "INVALID"
        BY <1>1, <1>3 DEF ClosedInv, ConnectedIsValid, Device
    <2>2. ~CanRefuse(p)
        BY <1>6, <2>1 DEF CanRefuse
    <2> QED BY <1>4, <1>6, <2>2 DEF SetAddrUpdate, Update
<1>8. UNCHANGED <<bus, ptask, open_pipes>>
    BY <1>4, <1>5 DEF SetAddrUpdate
<1>9. ASSUME NEW q \in Pipes, hcd'.pipe[q].state # "FREE"
      PROVE  hcd'.pipe[q].addr = bus.addr
    <2>1. CASE q = p
        BY <1>2, <1>3, <1>5, <1>7, <2>1 DEF HcdRecord
    <2>2. CASE q # p
        <3>1. hcd'.pipe[q] = hcd.pipe[q]
            BY <1>2, <1>3, <1>7, <2>2 DEF HcdRecord
        <3> QED BY <1>1, <1>5, <1>9, <2>2, <3>1 DEF Changing, Freed
    <2> QED BY <2>1, <2>2
<1>10. ASSUME NEW i \in Slots, open_pipes'[i].pipe # NoPipe
       PROVE  open_pipes'[i].addr = bus.addr
    <2>1. i = slot
        BY <1>1, <1>8, <1>10 DEF Changing, Used
    <2> QED BY <1>1, <1>5, <1>8, <2>1 DEF HolderInv
<1>11. ASSUME NEW v \in Clients, client'[v].at \in {"ep_alloc", "ep_reg"}
       PROVE  client'[v].addr = bus.addr
    <2>1. v # u
        <3> DEFINE c == [client[u] EXCEPT !.at = "ready", !.on = NoPipe, !.slot = 0, !.addr = 0,
                                          !.result = "none"]
        <3>1. c.at = "ready" /\ client' = [client EXCEPT ![u] = c]
            BY <1>2, <1>4 DEF SetAddrUpdate, ClientRecord
        <3> HIDE DEF c
        <3> QED BY <1>2, <1>11, <3>1
    <2>2. client'[v].at = client[v].at /\ client'[v].addr = client[v].addr
        BY <1>1, <1>4, <2>1, ClientGoes DEF ClientNext
    <2> QED BY <1>1, <1>5, <1>11, <2>2 DEF Changing, Opening
<1> QED BY <1>8, <1>9, <1>10, <1>11 DEF Settled, Freed, Used, Opening

\* A device is enabled when nothing of the former one is left.
LEMMA EnabledSettled ==
    ASSUME Below, Around, UsbhNext, PortReset, hcd.state # "RECOVERY", bus'.addr = 0
    PROVE  Settled' /\ \A t \in Clients : ~Assigns(t)'
<1>1. TypeInv /\ TableInv /\ PhaseInv /\ ClosedInv /\ HolderInv
    BY DEF Below, Around
<1>2. /\ hcd \in HcdRecord /\ open_pipes \in [Slots -> Entry] /\ NoPipe \notin Pipes
    BY <1>1, UsbhAssumption DEF TypeInv, UsbhTypeOK
<1>3. AllClosed
    BY <1>1 DEF PortReset, PhaseInv, TaskInv, ClosedInv
<1>4. Used = {}
    <2>1. \A i \in Slots : open_pipes[i].pipe \in Pipes => ~Freed(open_pipes[i].pipe)
        BY <1>1 DEF TableInv, InTable
    <2>2. \A i \in Slots : open_pipes[i].pipe = NoPipe
        BY <1>2, <1>3, <2>1 DEF AllClosed, Entry
    <2> QED BY <2>2 DEF Used
<1>5. \A t \in Clients : ~Assigns(t)
    BY <1>1, <1>4 DEF HolderInv, ControlSlots
<1>6. UNCHANGED <<open_pipes, client>> /\ hcd'.pipe = hcd.pipe
    BY <1>2 DEF PortReset, ResetPort, Enables, TableUnchanged, HcdRecord
<1> QED BY <1>3, <1>4, <1>5, <1>6 DEF Settled, AllClosed, Freed, Opening, Assigns, Used

\* Every step keeps that the addresses agree, or that a client is changing them.
LEMMA AddrKept ==
    ASSUME "transfer" \notin Faults, Below, Around, AddrInv, UsbhNext,
           TableInv', ControlInv', HolderInv'
    PROVE  AddrInv'
<1> SUFFICES ASSUME hcd'.conn, bus'.attached
             PROVE  /\ (\A t \in Clients : ~Assigns(t)') => Settled'
                    /\ \A t \in Clients : Assigns(t)' => Changing(t)'
                    /\ ptask'.at \in {"lookup", "alloc", "register"} => bus'.addr = 0
    BY DEF AddrInv, Device
<1>1. TypeInv /\ PhaseInv /\ ControlInv /\ HolderInv
    BY DEF Below, Around
<1>2. CASE PortReset /\ bus'.addr = 0 /\ hcd.state # "RECOVERY"
    BY <1>2, EnabledSettled
<1>3. CASE Device /\ (\A t \in Clients : ~Assigns(t)) /\ \A t \in Clients : ~Assigns(t)'
    <2>1. bus'.addr = bus.addr
        <3>1. ~(PortReset /\ hcd.state # "RECOVERY") \/ bus'.addr = bus.addr
            BY <1>1, <1>3 DEF PortReset, PhaseInv, TaskInv, Device
        <3> QED BY <1>1, <1>3, <3>1, DeviceGoes DEF Assigns, AssignPlaces
    <2>2. Settled'
        BY <1>3, <2>1, SettledStays DEF Assigns
    <2>3. ptask'.at \in {"lookup", "alloc", "register"} => bus'.addr = 0
        <3>1. ptask.at \in {"lookup", "alloc", "register"} => bus.addr = 0
            BY <1>3 DEF AddrInv
        <3>2. ptask.at # "reset"
            BY <1>1, <1>3 DEF PhaseInv, TaskInv, Device
        <3> QED BY <1>1, <2>1, <3>1, <3>2, TaskGoes
    <2> QED BY <1>3, <2>2, <2>3
<1>4. ASSUME NEW u \in Clients, client'[u].at \in AssignPlaces
      PROVE  ptask'.at \notin {"lookup", "alloc", "register"}
    BY <1>4 DEF HolderInv, ControlInv, Assigns
<1>5. ASSUME NEW u \in Clients, NEW v \in Clients, client'[u].at \in AssignPlaces,
             client'[v].at \in AssignPlaces
      PROVE  u = v
    BY <1>5 DEF HolderInv, Assigns
<1>6. ASSUME Device, \A t \in Clients : ~Assigns(t), NEW u \in Clients,
             client'[u].at \in AssignPlaces
      PROVE  Changing(u)'
    <2>1. \/ Assigns(u)
          \/ /\ SetAddr(u) /\ ControlSlots # {} /\ FreeAddrs # {}
             /\ open_pipes[Min(ControlSlots)].addr = 0
             /\ open_pipes' = [open_pipes EXCEPT ![Min(ControlSlots)].addr = Min(FreeAddrs)]
             /\ client'[u].at = "addr_start"
             /\ client'[u].slot = Min(ControlSlots) /\ client'[u].addr = Min(FreeAddrs)
        BY <1>1, <1>6, AssignGoes
    <2> QED BY <1>6, <2>1, ChangingBegins
<1>7. ASSUME Device, NEW u \in Clients, Assigns(u), client'[u].at \in AssignPlaces
      PROVE  Changing(u)'
    <2>1. ~SetAddr(u)
        BY <1>7 DEF SetAddr, Assigns, AssignPlaces
    <2>2. client'[u].slot = client[u].slot /\ client'[u].addr = client[u].addr
        BY <1>1, <1>7, <2>1, AssignGoes
    <2> QED BY <1>7, <2>2, ChangingStays
<1>8. ASSUME Device, NEW u \in Clients, Assigns(u), \A t \in Clients : ~Assigns(t)'
      PROVE  /\ Settled'
             /\ ptask'.at \in {"lookup", "alloc", "register"} => bus'.addr = 0
    <2>1. Settled' /\ UNCHANGED <<bus, ptask>>
        BY <1>8, ChangingEnds DEF Assigns
    <2> QED BY <1>8, <2>1 DEF AddrInv
<1>9. ASSUME Device, NEW u \in Clients, Assigns(u), NEW v \in Clients,
             client'[v].at \in AssignPlaces
      PROVE  u = v
    <2>1. ~SetAddr(v)
        BY <1>1, <1>9, UsbhAssumption DEF HolderInv, SetAddr, Unlocked
    <2>2. Assigns(v)
        BY <1>1, <1>9, <2>1, AssignGoes
    <2> QED BY <1>1, <1>9, <2>2 DEF HolderInv
<1>10. CASE Device /\ ~\A t \in Clients : ~Assigns(t)
    <2>1. PICK u \in Clients : Assigns(u)
        BY <1>10
    <2>2. CASE \A t \in Clients : ~Assigns(t)'
        BY <1>8, <1>10, <2>1, <2>2
    <2>3. CASE ~\A t \in Clients : ~Assigns(t)'
        <3>1. PICK v \in Clients : client'[v].at \in AssignPlaces
            BY <2>3 DEF Assigns
        <3>2. \A t \in Clients : Assigns(t)' => Changing(t)'
            BY <1>7, <1>9, <1>10, <2>1 DEF Assigns
        <3> QED BY <1>4, <2>3, <3>1, <3>2
    <2> QED BY <2>2, <2>3
<1>11. CASE Device /\ (\A t \in Clients : ~Assigns(t)) /\ ~\A t \in Clients : ~Assigns(t)'
    <2>1. PICK v \in Clients : client'[v].at \in AssignPlaces
        BY <1>11 DEF Assigns
    <2>2. \A t \in Clients : Assigns(t)' => Changing(t)'
        BY <1>6, <1>11 DEF Assigns
    <2> QED BY <1>4, <1>11, <2>1, <2>2
<1> QED BY <1>1, <1>2, <1>3, <1>10, <1>11, DeviceGoes

\* A client that assigns an address holds open_pipes_mutex from the search of the table until
\* the pipe is updated, and the entry is that of the control pipe and has the new address.
THEOREM OneAssigns ==
    UsbhSpec => []HolderInv
<1>1. UsbhInit => HolderInv
    BY DEF UsbhInit, NewClient, HolderInv, Assigns, AssignPlaces
<1>2. TypeInv /\ HolderInv /\ [UsbhNext]_usbhVars => HolderInv'
    <2>1. ASSUME HolderInv, UNCHANGED usbhVars
          PROVE  HolderInv'
        BY <2>1 DEF usbhVars, HolderInv, Assigns, ControlSlots, Used
    <2> QED BY <2>1, HolderKept
<1> QED BY <1>1, <1>2, TypesKept, PTL DEF UsbhSpec

\* With the rule "alone": who assigns an address has the mutex and the control pipe to
\* itself, and every endpoint has an address.
THEOREM AroundKept ==
    ASSUME "alone" \in Rules
    PROVE  UsbhSpec => []Around
<1>1. UsbhInit => Around
    <2>1. UsbhInit => /\ \A i \in Slots : open_pipes[i] = Empty
                      /\ \A t \in Clients : client[t].at = "open" /\ client[t].result = "none"
        BY DEF UsbhInit, NewClient
    <2> QED BY <2>1 DEF Around, ResultInv, HolderInv, AssignedInv, AloneInv, Assigns, AssignPlaces,
            Opening, Used, Empty
<1>2. TypeInv /\ Around /\ [UsbhNext]_usbhVars => Around'
    <2>1. ASSUME Around, UNCHANGED usbhVars
          PROVE  Around'
        BY <2>1 DEF usbhVars, Around, ResultInv, HolderInv, AssignedInv, AloneInv, Assigns, Opening,
           ControlSlots, Used, Waiting
    <2>2. ASSUME TypeInv, Around, UsbhNext
          PROVE  Around'
        <3>1. ResultInv /\ HolderInv /\ AssignedInv /\ AloneInv
            BY <2>2 DEF Around
        <3> QED BY <2>2, <3>1, ResultKept, HolderKept, AssignedKept, AloneKept DEF Around
    <2> QED BY <2>1, <2>2
<1> QED BY <1>1, <1>2, TypesKept, PTL DEF UsbhSpec

\* With all the rules, and transfers that fail only for want of an answer, the table, the pipes
\* and the device agree on the address, but while it is assigned.
THEOREM AddressesAgree ==
    ASSUME {"own", "prompt", "slow", "alone"} \subseteq Rules, "transfer" \notin Faults
    PROVE  UsbhSpec => []AddressAgrees
<1>0. /\ "own" \in Rules /\ "slow" \in Rules /\ "alone" \in Rules
      /\ {"own", "prompt", "slow"} \subseteq Rules
    OBVIOUS
<1>1. UsbhInit => AddrInv
    <2>1. UsbhInit => hcd.conn = FALSE
        BY DEF UsbhInit, PoweredPort
    <2> QED BY <2>1 DEF AddrInv, Device
<1>2. Below /\ Around /\ AddrInv /\ TableInv' /\ ControlInv' /\ HolderInv' /\ [UsbhNext]_usbhVars
          => AddrInv'
    <2>1. ASSUME AddrInv, UNCHANGED usbhVars
          PROVE  AddrInv'
        BY <2>1 DEF usbhVars, AddrInv, Device, Settled, Changing, Assigns, Opening, Freed, Used
    <2> QED BY <2>1, AddrKept
<1>3. Below /\ AddrInv => AddressAgrees
    <2> SUFFICES ASSUME Below, AddrInv, hcd.conn, bus.attached, ~Assigning, NEW i \in Used,
                        hcd.pipe[open_pipes[i].pipe].state = "ACTIVE"
                 PROVE  /\ hcd.pipe[open_pipes[i].pipe].addr = open_pipes[i].addr
                        /\ bus.addr = hcd.pipe[open_pipes[i].pipe].addr
        BY DEF AddressAgrees
    <2>1. Settled
        BY DEF AddrInv, Device, Assigning, Assigns, AssignPlaces
    <2>2. open_pipes[i].pipe \in Pipes /\ ~Freed(open_pipes[i].pipe)
        BY DEF Below, TypeInv, UsbhTypeOK, Used, Entry, Freed
    <2> QED BY <2>1, <2>2 DEF Settled
<1>4. TypeInv /\ TableInv /\ PhaseInv /\ ControlInv /\ ClosedInv <=> Below
    BY DEF Below
<1> QED BY <1>0, <1>1, <1>2, <1>3, <1>4, TypesKept, TableKeptExact, PhaseKept, ControlKeptSingle,
        ClosedKeptBetween, OneAssigns, AroundKept, PTL DEF UsbhSpec

=============================================================================
