------------------------------ MODULE UsbProofs ------------------------------
(***************************************************************************)
(* Proofs about the USB drivers, for any number of ports, slots and entries *)
(* of the rings: the table of ports and slots (UsbPorts), and the transfer  *)
(* and event rings (XhciRing).                                              *)
(***************************************************************************)
EXTENDS Integers, Sequences, TLAPS

-----------------------------------------------------------------------------
(* Ports and slots. *)

CONSTANTS N, MaxSlots, MaxPlugs, MaxMoves, Early

VARIABLES plugged, plugs, moves, csc, enabled, events, port_changed, port_devices, devices,
          pc, port, booting, failed

P == INSTANCE UsbPorts

\* No plug or unplug that comes after the scan is lost, and events are routed only to
\* devices with a record and a slot (usb/mod.rs:948-973).
DevicesTracked == P!DevicesTracked

Ports == P!Ports
Slots == P!Slots

PortsConstants == N \in Nat /\ Early \in BOOLEAN

PortsType ==
  /\ plugged \in [Ports -> Nat]
  /\ plugs \in Nat
  /\ csc \in [Ports -> BOOLEAN]
  /\ events \in Seq(Ports)
  /\ port_changed \in [Ports -> BOOLEAN]
  /\ port_devices \in [Ports -> Nat]
  /\ devices \in [Slots -> Nat]
  /\ pc \in {"scan", "reset", "enable", "address", "poll", "release"}
  /\ port \in 1 .. N + 1
  /\ booting \in BOOLEAN
  /\ failed \in [Ports -> BOOLEAN]

\* A device was only ever in one port, and only that port has its record.
OnePort ==
  /\ \A i \in Ports : plugged[i] <= plugs /\ port_devices[i] <= plugs
  /\ \A i, j \in Ports :
       /\ plugged[i] = plugged[j] /\ plugged[i] # 0 => i = j
       /\ plugged[i] = port_devices[j] /\ plugged[i] # 0 => i = j
       /\ port_devices[i] = port_devices[j] /\ port_devices[i] # 0 => i = j

\* A port the scan at boot has not come to.
Unscanned(i) == booting /\ (port < i \/ (port = i /\ pc = "scan"))

\* What the driver knows of the port it is at, and of those before it at boot.
AtPort ==
  /\ pc \in {"reset", "enable", "address", "release"} => port \in Ports
  /\ pc = "scan" => booting
  /\ pc \in {"poll", "release"} => ~booting
  /\ pc = "reset" => port_devices[port] = 0
  /\ pc = "release" => port_devices[port] # 0
  /\ pc = "enable" => /\ port_devices[port] # 0
                      /\ \A s \in Slots : devices[s] # port_devices[port]
  /\ \A i \in Ports : Unscanned(i) => port_devices[i] = 0

HasEvent(i) == \E k \in DOMAIN events : events[k] = i
Pending(i) == HasEvent(i) \/ port_changed[i]
Tracked(i) == (plugged[i] # 0 <=> port_devices[i] # 0) \/ failed[i]
AtIt(i) == port = i /\ pc \in {"reset", "release"}

\* What keeps a change from being lost. Until the scan comes to a port its bits may be
\* set without an event; from then on set bits have an event or a flag, and so has a
\* port whose record is wrong and which the driver is not at.
Noticed ==
  \A i \in Ports :
    /\ booting => Unscanned(i) \/ (~csc[i] /\ (Tracked(i) \/ AtIt(i)))
    /\ ~booting => /\ csc[i] => Pending(i)
                   /\ Tracked(i) \/ AtIt(i) \/ Pending(i)
                   /\ AtIt(i) => Pending(i) \/ (plugged[i] # 0 <=> port_devices[i] = 0)

PortsInv == PortsType /\ OnePort /\ AtPort /\ P!RoutedToRecorded /\ (~Early => Noticed)

\* Mutual dependence of the conjuncts makes one lemma per conjunct: each assumes the
\* whole invariant.

\* Nothing is plugged in, nothing recorded.
LEMMA PortsInitially == ASSUME PortsConstants PROVE P!Init => PortsInv
<1> SUFFICES ASSUME P!Init PROVE PortsInv
  OBVIOUS
<1> USE DEF PortsConstants, P!Init, Ports, Slots, P!Ports, P!Slots
<1>1. PortsType
  BY DEF PortsType
<1>2. OnePort
  BY DEF OnePort
<1>3. AtPort /\ P!RoutedToRecorded
  BY DEF AtPort, Unscanned, P!RoutedToRecorded
<1>4. Noticed
  BY DEF Noticed, Unscanned
<1> QED
  BY <1>1, <1>2, <1>3, <1>4 DEF PortsInv

\* The event ring after one more event.
LEMMA EventAppended ==
  ASSUME PortsType, NEW i \in Ports, NEW j
  PROVE  /\ Append(events, i) \in Seq(Ports)
         /\ (\E k \in DOMAIN Append(events, i) : Append(events, i)[k] = j)
              <=> (HasEvent(j) \/ j = i)
<1> DEFINE e == Append(events, i)
<1>1. e \in Seq(Ports) /\ Len(e) = Len(events) + 1 /\ e[Len(events) + 1] = i
      /\ \A k \in 1 .. Len(events) : e[k] = events[k]
  BY DEF PortsType
<1>2. Len(events) \in Nat
  BY DEF PortsType
<1> QED
  BY <1>1, <1>2 DEF HasEvent

\* Every step keeps the types.
LEMMA TypeKept == ASSUME PortsConstants, PortsInv, P!Next PROVE PortsType'
<1> USE DEF PortsConstants, PortsInv, PortsType, Ports, Slots, P!Ports, P!Slots
<1>1. CASE \E i \in P!Ports : P!Plug(i) \/ P!Unplug(i)
  <2>1. PICK i \in Ports : P!Plug(i) \/ P!Unplug(i)
    BY <1>1
  <2>2. Append(events, i) \in Seq(Ports)
    BY EventAppended
  <2>3. events' \in Seq(Ports)
    BY Zenon, <2>1, <2>2 DEF P!Plug, P!Unplug, P!Change
  <2>4. PICK dev \in Nat : plugged' = [plugged EXCEPT ![i] = dev]
    BY <2>1 DEF P!Plug, P!Unplug, P!Change
  <2>5. plugged' \in [Ports -> Nat]
    BY <2>4
  <2>6. plugs' \in Nat
    BY <2>1 DEF P!Plug, P!Unplug
  <2>7. csc' \in [Ports -> BOOLEAN] /\ failed' \in [Ports -> BOOLEAN]
    BY Zenon, <2>1 DEF P!Plug, P!Unplug, P!Change
  <2> QED
    BY Zenon, <2>1, <2>3, <2>5, <2>6, <2>7 DEF P!Plug, P!Unplug, P!Change
<1>2. CASE \E i \in P!Ports : P!poll(i)
  BY <1>2 DEF P!poll
<1>3. CASE P!process_events
  <2>1. port_changed' \in [Ports -> BOOLEAN] /\ events' \in Seq(Ports)
    BY <1>3 DEF P!process_events
  <2> QED
    BY Zenon, <1>3, <2>1 DEF P!process_events
<1>4. CASE P!Scan
  <2>1. csc' \in [Ports -> BOOLEAN]
    BY <1>4 DEF P!Scan
  <2>2. port' \in 1 .. N + 1 /\ pc' \in {"scan", "reset"}
    BY <1>4 DEF P!Scan
  <2> QED
    BY <1>4, <2>1, <2>2 DEF P!Scan
<1>5. CASE \E ok \in BOOLEAN : P!Reset(ok)
  <2>1. PICK ok \in BOOLEAN : P!Reset(ok)
    BY <1>5
  <2>2. port \in Ports
    BY <2>1 DEF P!Reset, AtPort
  <2>3. Append(events, port) \in Seq(Ports)
    BY <2>2, EventAppended
  <2>4. events' \in Seq(Ports)
    BY Zenon, <2>1, <2>3 DEF P!Reset
  <2>5. failed' \in [Ports -> BOOLEAN]
    BY Zenon, <2>1, <2>2 DEF P!Reset
  <2>6. port_devices' \in [Ports -> Nat]
    <3>1. \/ port_devices' = port_devices
          \/ port_devices' = [port_devices EXCEPT ![port] = plugged[port]]
      BY <2>1 DEF P!Reset
    <3> QED
      BY Zenon, <2>2, <3>1
  <2>7. port' \in 1 .. N + 1 /\ pc' \in {"scan", "enable", "poll"}
    BY <2>1, <2>2 DEF P!Reset, P!Done
  <2> QED
    BY SMTT(30), <2>1, <2>4, <2>5, <2>6, <2>7 DEF P!Reset
<1>6. CASE P!EnableSlot
  <2>1. port \in Ports
    BY <1>6 DEF P!EnableSlot, AtPort
  <2>2. devices' \in [Slots -> Nat]
    BY Zenon, <1>6, <2>1 DEF P!EnableSlot
  <2>3. port' \in 1 .. N + 1 /\ pc' \in {"scan", "address", "poll"}
    BY <1>6, <2>1 DEF P!EnableSlot, P!Done
  <2> QED
    BY <1>6, <2>2, <2>3 DEF P!EnableSlot
<1>7. CASE P!Address
  BY <1>7 DEF P!Address, P!Done, P!hardware, AtPort
<1>8. CASE P!release_port
  <2>1. port \in Ports
    BY <1>8 DEF P!release_port, AtPort
  <2>2. devices' \in [Slots -> Nat] /\ port_devices' \in [Ports -> Nat]
    BY <1>8, <2>1 DEF P!release_port, P!Unrouted
  <2> QED
    BY <1>8, <2>2 DEF P!release_port
<1>9. CASE UNCHANGED P!vars
  BY <1>9 DEF P!vars, P!hardware, P!software
<1>10. CASE P!Scanned
  <2>1. events' \in Seq(Ports) /\ port_changed' \in [Ports -> BOOLEAN]
    BY <1>10 DEF P!Scanned
  <2> QED
    BY Zenon, <1>10, <2>1 DEF P!Scanned
<1> QED
  BY Zenon, <1>1, <1>2, <1>3, <1>4, <1>5, <1>6, <1>7, <1>8, <1>9, <1>10 DEF P!Next

\* What each step may do to plugs, records and slots, and where it leaves the driver.
LEMMA OnePortKept == ASSUME PortsConstants, PortsInv, P!Next PROVE OnePort'
<1>0. /\ plugged \in [Ports -> Nat] /\ port_devices \in [Ports -> Nat] /\ plugs \in Nat
      /\ OnePort
  BY DEF PortsInv, PortsType
<1>1. ASSUME NEW i \in Ports, P!Plug(i) PROVE OnePort'
  <2>1. plugs' = plugs + 1 /\ plugged' = [plugged EXCEPT ![i] = plugs + 1]
        /\ port_devices' = port_devices
    BY <1>1 DEF P!Plug, P!Change
  <2>2. \A k \in Ports : plugged'[k] = IF k = i THEN plugs + 1 ELSE plugged[k]
    BY <1>0, <2>1
  <2>3. \A k \in Ports : plugged[k] < plugs + 1 /\ port_devices[k] < plugs + 1
    BY <1>0 DEF OnePort
  <2>4. plugs + 1 # 0
    BY <1>0
  <2> HIDE DEF Ports
  <2> QED
    BY <1>0, <2>1, <2>2, <2>3, <2>4 DEF OnePort
<1>2. ASSUME NEW i \in Ports, P!Unplug(i) PROVE OnePort'
  <2>1. plugs' = plugs /\ plugged' = [plugged EXCEPT ![i] = 0] /\ port_devices' = port_devices
    BY <1>2 DEF P!Unplug, P!Change
  <2> QED
    BY <1>0, <2>1 DEF OnePort
<1>3. ASSUME NEW ok \in BOOLEAN, P!Reset(ok) PROVE OnePort'
  <2>1. port \in Ports /\ plugs' = plugs /\ plugged' = plugged
        /\ (\/ port_devices' = port_devices
            \/ port_devices' = [port_devices EXCEPT ![port] = plugged[port]]
               /\ plugged[port] # 0)
    BY <1>3 DEF P!Reset, AtPort, PortsInv
  <2>2. CASE port_devices' = [port_devices EXCEPT ![port] = plugged[port]] /\ plugged[port] # 0
    <3>1. \A k \in Ports : port_devices'[k] = IF k = port THEN plugged[port] ELSE port_devices[k]
      BY <1>0, <2>1, <2>2
    <3> QED
      BY <1>0, <2>1, <2>2, <3>1 DEF OnePort
  <2>3. CASE port_devices' = port_devices
    BY <1>0, <2>1, <2>3 DEF OnePort
  <2> QED
    BY <2>1, <2>2, <2>3
<1>4. CASE P!release_port
  <2>1. port \in Ports /\ plugs' = plugs /\ plugged' = plugged
        /\ port_devices' = [port_devices EXCEPT ![port] = 0]
    BY <1>4 DEF P!release_port, AtPort, PortsInv
  <2> QED
    BY <1>0, <2>1 DEF OnePort
<1>5. CASE UNCHANGED <<plugs, plugged, port_devices>>
  BY <1>0, <1>5 DEF OnePort
<1>6. \/ \E i \in Ports : P!Plug(i) \/ P!Unplug(i)
      \/ \E ok \in BOOLEAN : P!Reset(ok)
      \/ P!release_port
      \/ UNCHANGED <<plugs, plugged, port_devices>>
  BY SMTT(30) DEF P!Next, P!poll, P!process_events, P!Scan, P!Scanned, P!EnableSlot, P!Address,
         P!hardware, P!software, P!vars, Ports
<1> QED
  BY <1>1, <1>2, <1>3, <1>4, <1>5, <1>6

\* What the driver is about to do to a port is still right when it does it.
LEMMA AtPortKept == ASSUME PortsConstants, PortsInv, P!Next PROVE AtPort'
<1> USE DEF PortsConstants, PortsInv, PortsType, AtPort, Unscanned, Ports, Slots, P!Ports, P!Slots
<1>1. CASE \E i \in P!Ports : P!Plug(i) \/ P!Unplug(i)
  <2>1. UNCHANGED <<pc, port, booting, port_devices, devices>>
    BY <1>1 DEF P!Plug, P!Unplug, P!Change
  <2> QED
    BY <2>1
<1>2. CASE \E i \in P!Ports : P!poll(i)
  BY <1>2 DEF P!poll
<1>3. CASE P!process_events
  BY <1>3 DEF P!process_events
<1>4. CASE P!Scan
  <2>1. port \in Ports /\ booting /\ port_devices[port] = 0
    BY <1>4 DEF P!Scan, Unscanned
  <2> QED
    BY SMTT(30), <1>4, <2>1 DEF P!Scan
<1>5. CASE P!Scanned
  BY <1>5 DEF P!Scanned
<1>6. CASE \E ok \in BOOLEAN : P!Reset(ok)
  <2>1. PICK ok \in BOOLEAN : P!Reset(ok)
    BY <1>6
  <2>2. port \in Ports /\ port_devices[port] = 0
    BY <2>1 DEF P!Reset
  <2>3. CASE ok
    <3>1. \A s \in Slots : devices[s] # plugged[port]
      BY <2>1, <2>2, <2>3 DEF P!Reset, P!RoutedToRecorded, OnePort
    <3> QED
      BY <2>1, <2>2, <2>3, <3>1 DEF P!Reset
  <2>4. CASE ~ok
    BY <2>1, <2>2, <2>4 DEF P!Reset, P!Done
  <2> QED
    BY <2>3, <2>4
<1>7. CASE P!EnableSlot
  BY SMTT(30), <1>7 DEF P!EnableSlot, P!Done
<1>8. CASE P!Address
  BY <1>8 DEF P!Address, P!Done, P!hardware
<1>9. CASE P!release_port
  BY <1>9 DEF P!release_port
<1>10. CASE UNCHANGED P!vars
  BY <1>10 DEF P!vars, P!hardware, P!software
<1> QED
  BY <1>1, <1>2, <1>3, <1>4, <1>5, <1>6, <1>7, <1>8, <1>9, <1>10 DEF P!Next

\* Transfer events go to slots of recorded devices only.
LEMMA RoutedKept == ASSUME PortsConstants, PortsInv, P!Next PROVE P!RoutedToRecorded'
<1>0. /\ port_devices \in [Ports -> Nat] /\ devices \in [Slots -> Nat]
      /\ P!RoutedToRecorded
  BY DEF PortsInv, PortsType
<1> USE DEF Ports, Slots
<1>1. ASSUME NEW ok \in BOOLEAN, P!Reset(ok) PROVE P!RoutedToRecorded'
  <2>1. port \in Ports /\ port_devices[port] = 0 /\ enabled' = enabled /\ devices' = devices
        /\ (\/ port_devices' = port_devices
            \/ port_devices' = [port_devices EXCEPT ![port] = plugged[port]])
    BY <1>1 DEF P!Reset, AtPort, PortsInv
  <2>2. \A k \in Ports : port_devices[k] # 0 => port_devices'[k] = port_devices[k]
    BY <1>0, <2>1
  <2> QED
    BY <1>0, <2>1, <2>2 DEF P!RoutedToRecorded
<1>2. CASE P!EnableSlot
  <2>1. /\ port \in Ports /\ port_devices[port] # 0 /\ port_devices' = port_devices
        /\ \A s \in Slots : devices[s] # port_devices[port]
    BY <1>2 DEF P!EnableSlot, AtPort, PortsInv
  <2>2. CASE devices' = devices /\ enabled \subseteq enabled'
    BY <1>0, <2>1, <2>2 DEF P!RoutedToRecorded
  <2>3. ASSUME NEW s \in Slots \ enabled, enabled' = enabled \cup {s},
               devices' = [devices EXCEPT ![s] = port_devices[port]]
        PROVE P!RoutedToRecorded'
    <3>1. \A t \in Slots : devices'[t] = IF t = s THEN port_devices[port] ELSE devices[t]
      BY <1>0, <2>3
    <3> QED
      BY <1>0, <2>1, <2>3, <3>1 DEF P!RoutedToRecorded
  <2> QED
    BY <1>2, <2>2, <2>3 DEF P!EnableSlot
<1>3. CASE P!release_port
  <2>1. port \in Ports /\ port_devices' = [port_devices EXCEPT ![port] = 0]
    BY <1>3 DEF P!release_port, AtPort, PortsInv
  <2>2. \A s \in Slots : devices'[s] = IF devices[s] = port_devices[port] THEN 0 ELSE devices[s]
    BY <1>3 DEF P!release_port, P!Unrouted
  <2>3. \A s \in enabled : s \in Slots /\ devices[s] # port_devices[port] => s \in enabled'
    BY <1>3 DEF P!release_port
  <2> QED
    BY <1>0, <2>1, <2>2, <2>3 DEF P!RoutedToRecorded
<1>4. CASE UNCHANGED <<enabled, devices, port_devices>>
  BY <1>0, <1>4 DEF P!RoutedToRecorded
<1>5. \/ \E ok \in BOOLEAN : P!Reset(ok)
      \/ P!EnableSlot \/ P!release_port
      \/ UNCHANGED <<enabled, devices, port_devices>>
  BY SMTT(30) DEF P!Next, P!Plug, P!Unplug, P!Change, P!poll, P!process_events, P!Scan, P!Scanned,
         P!Address, P!hardware, P!software, P!vars
<1> QED
  BY <1>1, <1>2, <1>3, <1>4, <1>5

\* At each port: a change sets an event going unless one is still to be looked at, and
\* only the step that looks at a port takes its flag down.
LEMMA NoticedKept == ASSUME PortsConstants, PortsInv, P!Next, ~Early PROVE Noticed'
<1> SUFFICES ASSUME NEW i \in Ports
             PROVE  /\ booting' => Unscanned(i)' \/ (~csc'[i] /\ (Tracked(i)' \/ AtIt(i)'))
                    /\ ~booting' =>
                         /\ csc'[i] => Pending(i)'
                         /\ Tracked(i)' \/ AtIt(i)' \/ Pending(i)'
                         /\ AtIt(i)' => Pending(i)' \/ (plugged'[i] # 0 <=> port_devices'[i] = 0)
  BY DEF Noticed
<1>0. /\ booting => Unscanned(i) \/ (~csc[i] /\ (Tracked(i) \/ AtIt(i)))
      /\ ~booting => /\ csc[i] => Pending(i)
                     /\ Tracked(i) \/ AtIt(i) \/ Pending(i)
                     /\ AtIt(i) => Pending(i) \/ (plugged[i] # 0 <=> port_devices[i] = 0)
  BY DEF PortsInv, Noticed
<1> USE DEF PortsConstants, PortsInv, PortsType, Ports, P!Ports, Unscanned, Pending, Tracked, AtIt
<1>2. CASE \E j \in Ports : P!Plug(j) \/ P!Unplug(j)
  <2>1. PICK j \in Ports : P!Plug(j) \/ P!Unplug(j)
    BY <1>2
  <2>2. ~booting /\ UNCHANGED <<booting, pc, port, port_devices, port_changed>>
        /\ csc' = [csc EXCEPT ![j] = TRUE] /\ failed' = [failed EXCEPT ![j] = FALSE]
        /\ \A k \in Ports : k # j => plugged'[k] = plugged[k]
    BY SMTT(30), <2>1 DEF P!Plug, P!Unplug, P!Change
  <2>3. events' = IF csc[j] THEN events ELSE Append(events, j)
    BY <2>1 DEF P!Plug, P!Unplug, P!Change
  <2>4. CASE i = j
    <3>1. HasEvent(i)' \/ port_changed[i]
      <4>1. CASE csc[j]
        BY <1>0, <2>2, <2>3, <2>4, <4>1 DEF HasEvent
      <4>2. CASE ~csc[j]
        <5>1. \E k \in DOMAIN Append(events, j) : Append(events, j)[k] = i
          BY Zenon, <2>4, EventAppended
        <5> QED
          BY SMTT(30), <2>3, <4>2, <5>1 DEF HasEvent
      <4> QED
        BY <4>1, <4>2
    <3> QED
      BY <2>2, <3>1
  <2>5. CASE i # j
    <3>1. HasEvent(i) => HasEvent(i)'
      <4>1. HasEvent(i) => \E k \in DOMAIN Append(events, j) : Append(events, j)[k] = i
        BY Zenon, EventAppended
      <4> QED
        BY Zenon, <2>3, <4>1 DEF HasEvent
    <3>2. (csc'[i] <=> csc[i]) /\ (failed'[i] <=> failed[i]) /\ plugged'[i] = plugged[i]
      BY <2>2, <2>5
    <3> QED
      BY <1>0, <2>2, <3>1, <3>2
  <2> QED
    BY <2>4, <2>5
<1>3. CASE \E j \in Ports : P!poll(j)
  <2>1. PICK j \in Ports : P!poll(j)
    BY <1>3
  <2>2. ~booting' /\ ~booting /\ UNCHANGED <<plugged, port_devices, failed, events>>
    BY <2>1 DEF P!poll, AtPort
  <2>3. CASE i = j
    BY <2>1, <2>2, <2>3 DEF P!poll
  <2>4. CASE i # j
    <3>1. csc'[i] = csc[i] /\ port_changed'[i] = port_changed[i] /\ pc = "poll" /\ port' = j
      BY <2>1, <2>4 DEF P!poll
    <3> QED
      BY <1>0, <2>2, <2>4, <3>1 DEF HasEvent
  <2> QED
    BY <2>3, <2>4
<1>4. CASE P!process_events
  <2>1. UNCHANGED <<plugged, csc, port_devices, pc, port, booting, failed>>
        /\ port_changed'[i] = (port_changed[i] \/ HasEvent(i))
    BY <1>4 DEF P!process_events, HasEvent
  <2> QED
    BY Zenon, <1>0, <2>1
<1>5. CASE P!Scan
  <2>1. /\ booting /\ booting' /\ port \in Ports /\ pc = "scan"
        /\ UNCHANGED <<plugged, port_devices, failed>>
        /\ csc' = [csc EXCEPT ![port] = FALSE]
        /\ port_devices[port] = 0
        /\ \/ plugged[port] # 0 /\ pc' = "reset" /\ port' = port
           \/ plugged[port] = 0 /\ port' = port + 1 /\ pc' = pc
    BY <1>5 DEF P!Scan, AtPort
  <2>2. CASE i = port
    BY <2>1, <2>2
  <2>3. CASE i # port
    <3>1. csc'[i] = csc[i]
      BY <2>1, <2>3
    <3> QED
      BY <1>0, <2>1, <2>3, <3>1
  <2> QED
    BY <2>2, <2>3
<1>6. CASE P!Scanned
  <2>1. /\ booting /\ ~booting' /\ port > N /\ pc = "scan" /\ pc' = "poll"
        /\ UNCHANGED <<plugged, port_devices, failed, csc>>
    BY <1>6 DEF P!Scanned, AtPort
  <2> QED
    BY <1>0, <2>1
<1>7. CASE \E ok \in BOOLEAN : P!Reset(ok)
  <2>1. PICK ok \in BOOLEAN : P!Reset(ok)
    BY <1>7
  <2>2. /\ port \in Ports /\ pc = "reset" /\ port_devices[port] = 0
        /\ UNCHANGED <<plugged, csc, port_changed, booting>>
    BY <2>1 DEF P!Reset, AtPort
  <2>3. HasEvent(i) => HasEvent(i)'
    <3>1. events' = events \/ events' = Append(events, port)
      BY <2>1 DEF P!Reset
    <3>2. HasEvent(i) => \E k \in DOMAIN Append(events, port) : Append(events, port)[k] = i
      BY Zenon, <2>2, EventAppended
    <3> QED
      BY Zenon, <3>1, <3>2 DEF HasEvent
  <2>4. \/ /\ plugged[port] # 0 /\ port_devices' = [port_devices EXCEPT ![port] = plugged[port]]
           /\ pc' = "enable" /\ port' = port /\ failed' = failed
        \/ /\ failed' = [failed EXCEPT ![port] = plugged[port] # 0] /\ port_devices' = port_devices
           /\ \/ booting /\ pc' = "scan" /\ port' = port + 1
              \/ ~booting /\ pc' = "poll" /\ port' = port
    BY <2>1 DEF P!Reset, P!Done
  <2>5. CASE i = port
    <3>1. Tracked(i)'
      BY Zenon, <2>2, <2>4, <2>5
    <3>2. ~AtIt(i)' /\ ~Unscanned(i)
      BY <2>2, <2>4, <2>5
    <3> QED
      BY <1>0, <2>2, <2>3, <3>1, <3>2
  <2>6. CASE i # port
    <3>1. port_devices'[i] = port_devices[i] /\ (failed'[i] <=> failed[i])
      BY Zenon, <2>2, <2>4, <2>6
    <3>2. ~AtIt(i) /\ ~AtIt(i)' /\ (Unscanned(i) => Unscanned(i)')
      BY SMTT(30), <2>2, <2>4, <2>6
    <3> QED
      BY <1>0, <2>2, <2>3, <3>1, <3>2
  <2> QED
    BY <2>5, <2>6
<1>8. CASE P!EnableSlot \/ P!Address
  <2>1. UNCHANGED <<plugged, csc, port_changed, port_devices, events, booting, failed>>
    BY <1>8 DEF P!EnableSlot, P!Address, P!hardware
  <2>2. /\ pc \in {"enable", "address"} /\ port \in Ports
        /\ \/ booting /\ pc' = "scan" /\ port' = port + 1
           \/ ~booting /\ pc' = "poll" /\ port' = port
           \/ pc' = "address" /\ port' = port
    BY <1>8 DEF P!EnableSlot, P!Address, P!Done, AtPort
  <2>3. ~AtIt(i) /\ ~AtIt(i)' /\ (Unscanned(i) => Unscanned(i)') /\ (HasEvent(i)' <=> HasEvent(i))
    BY SMTT(30), <2>1, <2>2 DEF HasEvent
  <2> QED
    BY <1>0, <2>1, <2>3
<1>9. CASE P!release_port
  <2>1. /\ port \in Ports /\ pc = "release" /\ port_devices[port] # 0 /\ pc' = "poll" /\ ~booting
        /\ port_devices' = [port_devices EXCEPT ![port] = 0]
        /\ UNCHANGED <<plugged, csc, port_changed, port, events, booting, failed>>
    BY <1>9 DEF P!release_port, AtPort
  <2>2. HasEvent(i)' <=> HasEvent(i)
    BY <2>1 DEF HasEvent
  <2>3. CASE i = port
    BY <1>0, <2>1, <2>2, <2>3
  <2>4. CASE i # port
    BY <1>0, <2>1, <2>2, <2>4
  <2> QED
    BY <2>3, <2>4
<1>10. CASE UNCHANGED P!vars
  BY <1>0, <1>10 DEF P!vars, P!hardware, P!software, HasEvent
<1> QED
  BY SMTT(30), <1>2, <1>3, <1>4, <1>5, <1>6, <1>7, <1>8, <1>9, <1>10 DEF P!Next

\* The conjuncts together.
LEMMA PortsInvariant == ASSUME PortsConstants PROVE P!Spec => []PortsInv
<1>1. PortsInv /\ [P!Next]_(P!vars) => PortsInv'
  <2>1. PortsInv /\ P!Next => PortsInv'
    BY SMTT(30), TypeKept, OnePortKept, AtPortKept, RoutedKept, NoticedKept DEF PortsInv
  <2>2. PortsInv /\ UNCHANGED P!vars => PortsInv'
    BY DEF PortsInv, PortsType, OnePort, AtPort, Unscanned, Noticed, Pending, HasEvent, Tracked,
           AtIt, P!RoutedToRecorded, P!vars, P!hardware, P!software
  <2> QED
    BY <2>1, <2>2
<1> QED
  BY PortsInitially, <1>1, PTL DEF P!Spec

\* Once the scan at boot is over, no plug or unplug is lost, and events are routed only
\* to devices with a record and a slot of their own, on any number of ports and slots
\* and however long people plug and unplug (usb/mod.rs:948-973), unless they do so
\* during the scan (Early), which is what init()'s last lines get wrong.
THEOREM PortsTracked == ASSUME PortsConstants, ~Early PROVE P!Spec => []DevicesTracked
<1>1. PortsInv => DevicesTracked
  <2> SUFFICES ASSUME PortsInv PROVE P!NoChangeLost /\ P!RoutedToRecorded
    BY DEF DevicesTracked, P!DevicesTracked
  <2>1. ASSUME P!Quiet, NEW i \in Ports PROVE (plugged[i] # 0 <=> port_devices[i] # 0) \/ failed[i]
    <3>1. pc = "poll" /\ ~booting /\ ~HasEvent(i) /\ ~port_changed[i]
      BY <2>1 DEF P!Quiet, PortsInv, AtPort, HasEvent, Ports
    <3> QED
      BY <3>1 DEF PortsInv, Noticed, Pending, Tracked, AtIt
  <2> QED
    BY <2>1 DEF P!NoChangeLost, PortsInv, Ports
<1> QED
  BY PortsInvariant, <1>1, PTL

\* Events are routed to recorded devices also when people plug during the scan.
THEOREM PortsRouted == ASSUME PortsConstants PROVE P!Spec => []P!RoutedToRecorded
<1>1. PortsInv => P!RoutedToRecorded
  BY DEF PortsInv
<1> QED
  BY PortsInvariant, <1>1, PTL

-----------------------------------------------------------------------------
(* The transfer ring and the event ring. *)

CONSTANTS RING_TRBS, EVENT_TRBS, Outstanding, Names

VARIABLES trbs, enqueue, cycle, link, trb_events, event_dequeue, event_cycle, at, ccs, halted,
          event_enqueue, pcs, erdp, next, due

R == INSTANCE XhciRing WITH events <- trb_events

\* xHCI: each transfer is answered once and in order (usb/mod.rs:193-216, 387-408).
AnsweredInOrder == R!AnsweredInOrder

\* A driver that had filled the ring while the controller was at its link entry would
\* take the link back before the controller has followed it.
RingConstants ==
  /\ RING_TRBS \in Nat /\ EVENT_TRBS \in Nat \ {0} /\ Names \in Nat \ {0}
  /\ Outstanding \in Nat \ {0} /\ Outstanding + 2 <= RING_TRBS

TrbSlots == RING_TRBS - 1
Bit == {0, 1}

\* The types of the indices and bits, and of what the rings hold.
RingIndices ==
  /\ enqueue \in 0 .. TrbSlots - 1 /\ at \in 0 .. TrbSlots /\ cycle \in Bit /\ ccs \in Bit
  /\ event_dequeue \in 0 .. EVENT_TRBS - 1 /\ event_enqueue \in 0 .. EVENT_TRBS - 1
  /\ erdp \in 0 .. EVENT_TRBS - 1 /\ event_cycle \in Bit /\ pcs \in Bit

RingContents ==
  /\ trbs \in [R!Slot -> [name : Nat, cycle : Bit]]
  /\ trb_events \in [R!EventSlot -> [name : Nat, ok : BOOLEAN, cycle : Bit]]
  /\ halted \in BOOLEAN /\ next \in Nat /\ due \in Seq(Nat)

\* An entry's cycle bit says in which lap it was written.
Marks ==
  /\ \A s \in R!Slot : trbs[s].cycle = IF s < enqueue THEN cycle ELSE 1 - cycle
  /\ link = 1 - cycle
  /\ \A s \in R!EventSlot : trb_events[s].cycle = IF s < event_enqueue THEN pcs ELSE 1 - pcs

\* A reader is at most a lap behind its writer, and the controller never comes up with
\* the events the driver has not said it has seen.
Laps ==
  /\ IF ccs = cycle THEN at <= enqueue ELSE enqueue <= at
  /\ IF event_cycle = pcs
     THEN event_dequeue <= event_enqueue /\ (erdp <= event_dequeue \/ event_enqueue < erdp)
     ELSE event_enqueue < erdp /\ erdp <= event_dequeue

\* The events the driver has not processed, and the transfers not carried out.
Unseen == IF event_cycle = pcs THEN event_enqueue - event_dequeue
          ELSE EVENT_TRBS - event_dequeue + event_enqueue
Queued == IF ccs = cycle THEN enqueue - at ELSE TrbSlots - at + enqueue

\* Which entry after "from" slot s is, in a ring of that size.
Place(s, from, size) == IF from <= s THEN s - from + 1 ELSE size - from + s + 1

\* What is due is what has an event, and then what is queued; only the last event may
\* be a failure, and the ring is halted then.
Lined ==
  /\ Len(due) = Unseen + Queued
  /\ Len(due) <= Outstanding
  /\ halted => Unseen > 0
  /\ \A s \in R!EventSlot : Place(s, event_dequeue, EVENT_TRBS) <= Unseen =>
       /\ trb_events[s].name = due[Place(s, event_dequeue, EVENT_TRBS)]
       /\ trb_events[s].ok <=> ~halted \/ Place(s, event_dequeue, EVENT_TRBS) < Unseen
  /\ \A s \in R!Slot : Place(s, at, TrbSlots) <= Queued =>
       trbs[s].name = due[Unseen + Place(s, at, TrbSlots)]

RingInv == RingIndices /\ RingContents /\ Marks /\ Laps /\ Lined

\* The next index of a ring.
LEMMA Advance ==
  ASSUME NEW n \in Nat \ {0}, NEW x \in 0 .. n - 1
  PROVE  (x + 1) % n = IF x + 1 = n THEN 0 ELSE x + 1
<1>1. CASE x + 1 < n
  BY <1>1
<1>2. CASE x + 1 = n
  BY <1>2
<1> QED
  BY <1>1, <1>2

\* Places count from one.
LEMMA PlaceIn ==
  ASSUME NEW n \in Nat, NEW from \in 0 .. n, NEW s \in 0 .. n - 1
  PROVE  Place(s, from, n) \in 1 .. n
BY DEF Place

\* Both rings are empty.
LEMMA RingInitially == ASSUME RingConstants PROVE R!Init => RingInv
<1> SUFFICES ASSUME R!Init PROVE RingInv
  OBVIOUS
<1> USE DEF R!Init, RingConstants, R!Slot, R!EventSlot, TrbSlots, Bit
<1>1. RingIndices
  BY DEF RingIndices
<1>2. RingContents
  <2>1. trbs \in [R!Slot -> [name : Nat, cycle : Bit]]
    OBVIOUS
  <2>2. trb_events \in [R!EventSlot -> [name : Nat, ok : BOOLEAN, cycle : Bit]]
    OBVIOUS
  <2>3. next \in Nat /\ due \in Seq(Nat)
    OBVIOUS
  <2>4. halted \in BOOLEAN
    BY Zenon
  <2> QED
    BY <2>1, <2>2, <2>3, <2>4 DEF RingContents
<1>3. Marks /\ Laps
  BY DEF Marks, Laps
<1>4. Unseen = 0 /\ Queued = 0
  BY DEF Unseen, Queued
<1>5. Lined
  BY <1>4 DEF Lined, Place
<1> QED
  BY <1>1, <1>2, <1>3, <1>5 DEF RingInv

\* The numbers of entries, which the steps below reason with.
LEMMA RingCounts ==
  ASSUME RingConstants, RingInv
  PROVE  /\ Unseen \in Nat /\ Unseen < EVENT_TRBS /\ Queued \in Nat
         /\ Len(due) \in Nat /\ Len(due) = Unseen + Queued /\ Len(due) <= Outstanding
         /\ TrbSlots \in Nat \ {0} /\ R!Slot = 0 .. TrbSlots - 1
         /\ Outstanding \in Nat /\ Outstanding < TrbSlots
<1>1. Unseen \in Nat /\ Unseen < EVENT_TRBS
  BY DEF RingConstants, RingInv, RingIndices, Laps, Unseen
<1>2. TrbSlots \in Nat \ {0} /\ R!Slot = 0 .. TrbSlots - 1
      /\ Outstanding \in Nat /\ Outstanding < TrbSlots
  BY DEF RingConstants, TrbSlots, R!Slot
<1>3. Queued \in Nat
  BY <1>2 DEF RingInv, RingIndices, Laps, Queued
<1>4. Len(due) \in Nat /\ Len(due) = Unseen + Queued /\ Len(due) <= Outstanding
  BY DEF RingInv, RingContents, Lined
<1> QED
  BY <1>1, <1>2, <1>3, <1>4

\* queue_in() fills the ring up to the link TRB and over it (usb/mod.rs:193-216).
LEMMA QueueKept == ASSUME RingConstants, RingInv, R!queue_in PROVE RingInv'
<1>0. RingIndices /\ RingContents /\ Marks /\ Laps /\ Lined
  BY DEF RingInv
<1>c. /\ Unseen \in Nat /\ Queued \in Nat
      /\ Len(due) \in Nat /\ Len(due) = Unseen + Queued
      /\ TrbSlots \in Nat \ {0} /\ R!Slot = 0 .. TrbSlots - 1
      /\ Len(due) < Outstanding /\ Outstanding \in Nat /\ Queued < TrbSlots - 1
  <2>1. Len(due) < Outstanding
    BY DEF R!queue_in
  <2> QED
    BY <2>1, RingCounts
<1>1. /\ enqueue' = IF enqueue + 1 = TrbSlots THEN 0 ELSE enqueue + 1
      /\ trbs' = [trbs EXCEPT ![enqueue] = [name |-> next, cycle |-> cycle]]
      /\ link' = IF enqueue' = 0 THEN cycle ELSE link
      /\ cycle' = IF enqueue' = 0 THEN 1 - cycle ELSE cycle
      /\ due' = Append(due, next)
      /\ UNCHANGED <<trb_events, event_dequeue, event_cycle, at, ccs, halted, event_enqueue, pcs,
                     erdp>>
  <2>1. (enqueue + 1) % TrbSlots = IF enqueue + 1 = TrbSlots THEN 0 ELSE enqueue + 1
    BY Zenon, <1>0, <1>c, Advance DEF RingIndices
  <2> QED
    BY <2>1 DEF R!queue_in, R!push, R!Flip, TrbSlots
<1>2. RingIndices'
  BY SMTT(30), <1>0, <1>1, <1>c DEF RingIndices, Bit
<1>3. RingContents'
  <2>1. next' \in Nat
    BY <1>0 DEF R!queue_in, RingContents, RingConstants
  <2>2. trbs' \in [R!Slot -> [name : Nat, cycle : Bit]]
    BY Zenon, <1>0, <1>1 DEF RingContents, RingIndices
  <2>3. due' \in Seq(Nat)
    <3>1. due \in Seq(Nat) /\ next \in Nat /\ due' = Append(due, next)
      BY <1>0, <1>1 DEF RingContents
    <3> QED
      BY SMTT(30), <3>1
  <2> QED
    BY <1>0, <1>1, <2>1, <2>2, <2>3 DEF RingContents
<1>4. Queued' = Queued + 1 /\ Unseen' = Unseen
  <2>1. Unseen' = Unseen
    BY <1>1 DEF Unseen
  <2> QED
    BY <1>0, <1>1, <1>c, <2>1 DEF RingIndices, Bit, Laps, Queued
<1>5. Marks'
  <2>1. \A s \in R!Slot : trbs'[s].cycle = IF s = enqueue THEN cycle ELSE trbs[s].cycle
    BY <1>0, <1>1 DEF RingContents
  <2>2. \A s \in R!Slot : trbs'[s].cycle = IF s < enqueue' THEN cycle' ELSE 1 - cycle'
    BY <1>0, <1>1, <1>c, <2>1 DEF RingIndices, Bit, Marks
  <2>3. link' = 1 - cycle'
    BY <1>0, <1>1 DEF RingIndices, Bit, Marks
  <2> QED
    BY <1>0, <1>1, <2>2, <2>3 DEF Marks
<1>6. Laps'
  <2>2. IF ccs' = cycle' THEN at' <= enqueue' ELSE enqueue' <= at'
    BY SMTT(30), <1>0, <1>1, <1>c DEF RingIndices, Bit, Laps, Queued
  <2> QED
    BY <1>0, <1>1, <2>2 DEF Laps
<1>7. Lined'
  <2>1. Len(due') = Unseen' + Queued' /\ Len(due') <= Outstanding
    <3>1. Len(due') = Len(due) + 1
      BY <1>0, <1>1 DEF RingContents
    <3> QED
      BY <1>c, <1>4, <3>1 DEF RingConstants
  <2>2. \A k \in 1 .. Len(due) : due'[k] = due[k]
    BY <1>0, <1>1 DEF RingContents
  <2>3. due'[Len(due) + 1] = next
    BY <1>0, <1>1 DEF RingContents
  <2>4. halted' => Unseen' > 0
    BY SMTT(30), <1>0, <1>1, <1>4 DEF Lined
  <2>5. ASSUME NEW s \in R!EventSlot, Place(s, event_dequeue', EVENT_TRBS) <= Unseen'
        PROVE  /\ trb_events'[s].name = due'[Place(s, event_dequeue', EVENT_TRBS)]
               /\ trb_events'[s].ok <=> ~halted' \/ Place(s, event_dequeue', EVENT_TRBS) < Unseen'
    <3>1. Place(s, event_dequeue, EVENT_TRBS) \in 1 .. EVENT_TRBS
      BY <1>0, PlaceIn DEF RingConstants, RingIndices, R!EventSlot
    <3>2. Place(s, event_dequeue, EVENT_TRBS) \in 1 .. Len(due)
      BY <1>1, <1>4, <1>c, <2>5, <3>1
    <3> QED
      BY <1>0, <1>1, <1>4, <2>2, <2>5, <3>2 DEF Lined
  <2>6. ASSUME NEW s \in R!Slot, Place(s, at', TrbSlots) <= Queued'
        PROVE  trbs'[s].name = due'[Unseen' + Place(s, at', TrbSlots)]
    <3>1. CASE s = enqueue
      <4>1. Place(s, at, TrbSlots) = Queued + 1
        BY <1>0, <1>c, <3>1 DEF Place, Queued, RingIndices, Laps
      <4>2. trbs'[s].name = next
        BY <1>0, <1>1, <3>1 DEF RingContents
      <4>3. Unseen' + Place(s, at', TrbSlots) = Len(due) + 1
        BY SMTT(30), <1>1, <1>4, <1>c, <4>1
      <4> QED
        BY <2>3, <4>2, <4>3
    <3>2. CASE s # enqueue
      <4>1. Place(s, at, TrbSlots) \in 1 .. TrbSlots /\ Place(s, at, TrbSlots) <= Queued + 1
        BY <1>0, <1>1, <1>4, <1>c, <2>6, PlaceIn DEF RingIndices
      <4>2. Place(s, at, TrbSlots) # Queued + 1
        BY <1>0, <1>c, <3>2 DEF Place, Queued, RingIndices, Laps
      <4>3. Place(s, at, TrbSlots) \in 1 .. Queued
        BY <1>c, <4>1, <4>2
      <4>4. trbs'[s] = trbs[s]
        BY <1>0, <1>1, <3>2 DEF RingContents
      <4>5. Unseen + Place(s, at, TrbSlots) \in 1 .. Len(due)
        BY SMTT(30), <1>c, <4>3
      <4>6. trbs[s].name = due[Unseen + Place(s, at, TrbSlots)]
        BY <1>0, <4>3 DEF Lined
      <4> QED
        BY SMTT(30), <1>1, <1>4, <2>2, <4>4, <4>5, <4>6
    <3> QED
      BY <3>1, <3>2
  <2> QED
    BY <2>1, <2>4, <2>5, <2>6 DEF Lined
<1> QED
  BY <1>2, <1>3, <1>5, <1>6, <1>7 DEF RingInv

\* The controller answers the oldest transfer with an event of its cycle.
LEMMA TransferKept ==
  ASSUME RingConstants, RingInv, NEW ok \in BOOLEAN, R!Transfer(ok)
  PROVE  RingInv'
<1>0. RingIndices /\ RingContents /\ Marks /\ Laps /\ Lined
  BY DEF RingInv
<1>c. /\ Unseen \in Nat /\ Queued \in Nat /\ Unseen < EVENT_TRBS
      /\ Len(due) \in Nat /\ Len(due) = Unseen + Queued /\ Len(due) <= Outstanding
      /\ TrbSlots \in Nat \ {0} /\ R!Slot = 0 .. TrbSlots - 1
      /\ Outstanding \in Nat /\ Outstanding < TrbSlots
      /\ EVENT_TRBS \in Nat \ {0} /\ R!EventSlot = 0 .. EVENT_TRBS - 1
  BY SMTT(30), RingCounts DEF RingConstants, R!EventSlot
<1>1. /\ event_enqueue' = IF event_enqueue + 1 = EVENT_TRBS THEN 0 ELSE event_enqueue + 1
      /\ event_enqueue' # erdp
      /\ trb_events' = [trb_events EXCEPT ![event_enqueue] =
                          [name |-> trbs[at].name, ok |-> ok, cycle |-> pcs]]
      /\ pcs' = IF event_enqueue' = 0 THEN 1 - pcs ELSE pcs
      /\ ~halted /\ halted' = ~ok
      /\ at \in R!Slot /\ trbs[at].cycle = ccs /\ at' = at + 1
      /\ UNCHANGED <<trbs, enqueue, cycle, link, ccs, event_dequeue, event_cycle, erdp, next, due>>
  <2>1. (event_enqueue + 1) % EVENT_TRBS
          = IF event_enqueue + 1 = EVENT_TRBS THEN 0 ELSE event_enqueue + 1
    BY Zenon, <1>0, <1>c, Advance DEF RingIndices
  <2> QED
    BY <2>1 DEF R!Transfer, R!EventRoom, R!Flip, R!ring
<1>2. RingIndices'
  BY SMTT(30), <1>0, <1>1, <1>c DEF RingIndices, Bit
<1>3. RingContents'
  <2>1. [name |-> trbs[at].name, ok |-> ok, cycle |-> pcs] \in [name : Nat, ok : BOOLEAN, cycle : Bit]
    BY <1>0, <1>1 DEF RingContents, RingIndices
  <2>2. trb_events' \in [R!EventSlot -> [name : Nat, ok : BOOLEAN, cycle : Bit]]
    BY Zenon, <1>0, <1>1, <2>1 DEF RingContents
  <2>3. halted' \in BOOLEAN
    BY <1>1, Zenon
  <2> QED
    BY SMTT(30), <1>0, <1>1, <2>2, <2>3 DEF RingContents
<1>4. Queued > 0 /\ Queued' = Queued - 1 /\ Unseen' = Unseen + 1
  <2>1. ccs = IF at < enqueue THEN cycle ELSE 1 - cycle
    BY SMTT(30), <1>0, <1>1 DEF Marks
  <2>2. Queued > 0 /\ Queued' = Queued - 1
    BY SMTT(30), <1>0, <1>1, <1>c, <2>1 DEF RingIndices, Bit, Laps, Queued
  <2>3. Unseen' = Unseen + 1
    BY SMTT(30), <1>0, <1>1, <1>c DEF RingIndices, Bit, Laps, Unseen
  <2> QED
    BY SMTT(30), <2>2, <2>3
<1>5. Marks'
  <2>1. \A s \in R!EventSlot :
          trb_events'[s].cycle = IF s = event_enqueue THEN pcs ELSE trb_events[s].cycle
    BY SMTT(30), <1>0, <1>1 DEF RingContents
  <2>2. \A s \in R!EventSlot : trb_events'[s].cycle = IF s < event_enqueue' THEN pcs' ELSE 1 - pcs'
    BY <1>0, <1>1, <1>c, <2>1 DEF RingIndices, Bit, Marks
  <2> QED
    BY <1>0, <1>1, <2>2 DEF Marks
<1>6. Laps'
  <2>1. ccs = IF at < enqueue THEN cycle ELSE 1 - cycle
    BY <1>0, <1>1 DEF Marks
  <2>2. IF ccs' = cycle' THEN at' <= enqueue' ELSE enqueue' <= at'
    BY SMTT(30), <1>0, <1>1, <1>c, <2>1 DEF RingIndices, Bit, Laps
  <2>3. IF event_cycle' = pcs'
        THEN event_dequeue' <= event_enqueue' /\ (erdp' <= event_dequeue' \/ event_enqueue' < erdp')
        ELSE event_enqueue' < erdp' /\ erdp' <= event_dequeue'
    BY SMTT(30), <1>0, <1>1, <1>c DEF RingIndices, Bit, Laps
  <2> QED
    BY SMTT(30), <2>2, <2>3 DEF Laps
<1>7. Lined'
  <2>1. Len(due') = Unseen' + Queued' /\ Len(due') <= Outstanding /\ Unseen' > 0
    BY SMTT(30), <1>1, <1>4, <1>c
  <2>2. trbs[at].name = due[Unseen + 1]
    <3>1. Place(at, at, TrbSlots) = 1
      BY <1>0, <1>c DEF Place, RingIndices
    <3>2. 1 <= Queued
      BY <1>4, <1>c
    <3> QED
      BY <1>0, <1>1, <3>1, <3>2 DEF Lined
  <2>3. ASSUME NEW s \in R!EventSlot, Place(s, event_dequeue', EVENT_TRBS) <= Unseen'
        PROVE  /\ trb_events'[s].name = due'[Place(s, event_dequeue', EVENT_TRBS)]
               /\ trb_events'[s].ok <=> ~halted' \/ Place(s, event_dequeue', EVENT_TRBS) < Unseen'
    <3>0. event_dequeue' = event_dequeue /\ Place(s, event_dequeue, EVENT_TRBS) <= Unseen + 1
      BY <1>1, <1>4, <2>3
    <3>1. CASE s = event_enqueue
      <4>1. Place(s, event_dequeue, EVENT_TRBS) = Unseen + 1
        BY SMTT(30), <1>0, <1>c, <3>1 DEF Place, Unseen, RingIndices, Laps
      <4>2. trb_events'[s].name = trbs[at].name /\ (trb_events'[s].ok <=> ok)
        BY <1>0, <1>1, <3>1 DEF RingContents
      <4>3. ~(Unseen + 1 < Unseen')
        BY SMTT(30), <1>4, <1>c
      <4> QED
        BY Zenon, <1>1, <2>2, <3>0, <4>1, <4>2, <4>3
    <3>2. CASE s # event_enqueue
      <4>1. Place(s, event_dequeue, EVENT_TRBS) # Unseen + 1
        BY <1>0, <1>c, <3>2 DEF Place, Unseen, RingIndices, Laps
      <4>2. Place(s, event_dequeue, EVENT_TRBS) \in 1 .. EVENT_TRBS
        BY <1>0, <1>c, PlaceIn DEF RingIndices
      <4>3. Place(s, event_dequeue, EVENT_TRBS) <= Unseen /\ Place(s, event_dequeue, EVENT_TRBS) < Unseen'
        BY SMTT(30), <1>4, <1>c, <3>0, <4>1, <4>2
      <4>4. trb_events'[s] = trb_events[s]
        BY SMTT(30), <1>0, <1>1, <3>2 DEF RingContents
      <4> QED
        BY <1>0, <1>1, <3>0, <4>3, <4>4 DEF Lined
    <3> QED
      BY Zenon, <3>1, <3>2
  <2>4. ASSUME NEW s \in R!Slot, Place(s, at', TrbSlots) <= Queued'
        PROVE  trbs'[s].name = due'[Unseen' + Place(s, at', TrbSlots)]
    <3>1. Place(s, at + 1, TrbSlots) <= Queued - 1
      BY SMTT(30), <1>1, <1>4, <2>4
    <3>2. Place(s, at + 1, TrbSlots) \in 1 .. TrbSlots
      BY SMTT(30), <1>1, <1>2, <1>c, PlaceIn DEF RingIndices
    <3>3. Place(s, at, TrbSlots) = Place(s, at + 1, TrbSlots) + 1
      BY <1>0, <1>1, <1>c, <3>1 DEF Place, RingIndices
    <3>4. Place(s, at, TrbSlots) <= Queued
      BY SMTT(30), <1>c, <3>1, <3>2, <3>3
    <3>5. trbs[s].name = due[Unseen + Place(s, at, TrbSlots)]
      BY <1>0, <3>4 DEF Lined
    <3>6. Unseen + Place(s, at, TrbSlots) = Unseen' + Place(s, at + 1, TrbSlots)
      BY <1>4, <1>c, <3>2, <3>3
    <3> QED
      BY <1>1, <3>5, <3>6
  <2> QED
    BY <2>1, <2>3, <2>4 DEF Lined
<1> QED
  BY <1>2, <1>3, <1>5, <1>6, <1>7 DEF RingInv

\* process_events() takes the event at its dequeue pointer and tells the controller.
LEMMA ProcessKept == ASSUME RingConstants, RingInv, R!process_events PROVE RingInv'
<1> DEFINE e == trb_events[event_dequeue]
<1>0. RingIndices /\ RingContents /\ Marks /\ Laps /\ Lined
  BY DEF RingInv
<1>c. /\ Unseen \in Nat /\ Queued \in Nat /\ Unseen < EVENT_TRBS
      /\ Len(due) \in Nat /\ Len(due) = Unseen + Queued /\ Len(due) <= Outstanding
      /\ TrbSlots \in Nat \ {0} /\ R!Slot = 0 .. TrbSlots - 1
      /\ Outstanding \in Nat
      /\ EVENT_TRBS \in Nat \ {0} /\ R!EventSlot = 0 .. EVENT_TRBS - 1
  BY RingCounts DEF RingConstants, R!EventSlot
<1>1. /\ e.cycle = event_cycle
      /\ event_dequeue' = IF event_dequeue + 1 = EVENT_TRBS THEN 0 ELSE event_dequeue + 1
      /\ event_cycle' = IF event_dequeue' = 0 THEN 1 - event_cycle ELSE event_cycle
      /\ erdp' = erdp \/ erdp' = event_dequeue'
      /\ UNCHANGED <<trbs, enqueue, cycle, link, trb_events, event_enqueue, pcs, next>>
  <2>1. (event_dequeue + 1) % EVENT_TRBS
          = IF event_dequeue + 1 = EVENT_TRBS THEN 0 ELSE event_dequeue + 1
    BY Zenon, <1>0, <1>c, Advance DEF RingIndices
  <2> QED
    BY <2>1 DEF R!process_events, R!EventCycle, R!Flip, R!ring
<1>2. \/ e.ok /\ due' = Tail(due) /\ UNCHANGED <<at, ccs, halted>>
      \/ ~e.ok /\ due' = <<>> /\ at' = enqueue /\ ccs' = cycle /\ halted' = FALSE
  BY DEF R!process_events, R!Resumed
<1>3. e.cycle = IF event_dequeue < event_enqueue THEN pcs ELSE 1 - pcs
  BY SMTT(30), <1>0, <1>c DEF Marks, RingIndices
<1> HIDE DEF e
<1>4. Unseen > 0 /\ Unseen' = Unseen - 1
  BY SMTT(30), <1>0, <1>1, <1>3, <1>c DEF RingIndices, Bit, Laps, Unseen
<1>5. e.ok <=> ~halted \/ 1 < Unseen
  <2>1. Place(event_dequeue, event_dequeue, EVENT_TRBS) = 1 /\ event_dequeue \in R!EventSlot
    BY <1>0, <1>c DEF Place, RingIndices
  <2>2. 1 <= Unseen
    BY <1>4, <1>c
  <2> QED
    BY <1>0, <2>1, <2>2 DEF Lined, e
<1>6. RingIndices'
  BY <1>0, <1>1, <1>2, <1>c DEF RingIndices, Bit
<1>7. RingContents'
  <2>1. due # <<>> /\ due \in Seq(Nat)
    BY <1>0, <1>4, <1>c DEF RingContents
  <2>2. due' \in Seq(Nat)
    <3>1. Tail(due) \in Seq(Nat) /\ <<>> \in Seq(Nat)
      BY <2>1
    <3> QED
      BY Zenon, <1>2, <3>1
  <2>3. halted' \in BOOLEAN
    BY <1>0, <1>2, Zenon DEF RingContents
  <2> QED
    BY <1>0, <1>1, <2>2, <2>3 DEF RingContents
<1>8. Marks' /\ Laps'
  <2>1. Marks'
    BY <1>0, <1>1 DEF Marks
  <2>2. IF ccs' = cycle' THEN at' <= enqueue' ELSE enqueue' <= at'
    BY <1>0, <1>1, <1>2, <1>c DEF RingIndices, Laps
  <2>3. IF event_cycle' = pcs'
        THEN event_dequeue' <= event_enqueue' /\ (erdp' <= event_dequeue' \/ event_enqueue' < erdp')
        ELSE event_enqueue' < erdp' /\ erdp' <= event_dequeue'
    BY <1>0, <1>1, <1>3, <1>c DEF RingIndices, Bit, Laps
  <2> QED
    BY <2>1, <2>2, <2>3 DEF Laps
<1>9. CASE e.ok
  <2>1. due' = Tail(due) /\ UNCHANGED <<at, ccs, halted>> /\ Queued' = Queued
    BY <1>1, <1>2, <1>9 DEF Queued
  <2>2. Len(due') = Len(due) - 1 /\ \A k \in 1 .. Len(due) - 1 : due'[k] = due[k + 1]
    <3>1. due # <<>> /\ due \in Seq(Nat)
      BY <1>0, <1>4, <1>c DEF RingContents
    <3> QED
      BY SMTT(30), <2>1, <3>1
  <2>3. Len(due') = Unseen' + Queued' /\ Len(due') <= Outstanding
    BY <1>4, <1>c, <2>1, <2>2
  <2>4. halted' => Unseen' > 0
    BY SMTT(30), <1>4, <1>5, <1>9, <1>c, <2>1
  <2>5. ASSUME NEW s \in R!EventSlot, Place(s, event_dequeue', EVENT_TRBS) <= Unseen'
        PROVE  /\ trb_events'[s].name = due'[Place(s, event_dequeue', EVENT_TRBS)]
               /\ trb_events'[s].ok <=> ~halted' \/ Place(s, event_dequeue', EVENT_TRBS) < Unseen'
    <3> DEFINE k == Place(s, event_dequeue', EVENT_TRBS)
    <3>0. event_dequeue' \in 0 .. EVENT_TRBS
      BY <1>6, <1>c DEF RingIndices
    <3>1. k \in 1 .. EVENT_TRBS
      BY <1>c, <3>0, PlaceIn
    <3>2. k <= Unseen'
      BY <2>5
    <3>3. k \in 1 .. Len(due) - 1 /\ k + 1 <= Unseen /\ (k + 1 < Unseen <=> k < Unseen')
      <4> HIDE DEF k
      <4> QED
        BY SMTT(30), <1>4, <1>c, <3>1, <3>2
    <3>4. Place(s, event_dequeue, EVENT_TRBS) = k + 1
      BY <1>0, <1>1, <1>c, <3>3 DEF Place, RingIndices
    <3> HIDE DEF k
    <3>5. trb_events[s].name = due[k + 1] /\ (trb_events[s].ok <=> ~halted \/ k + 1 < Unseen)
      BY Zenon, <1>0, <3>3, <3>4 DEF Lined
    <3>6. due'[k] = due[k + 1]
      BY SMTT(30), <2>2, <3>3
    <3>7. trb_events'[s].name = due'[k] /\ (trb_events'[s].ok <=> ~halted' \/ k < Unseen')
      BY <1>1, <2>1, <3>3, <3>5, <3>6
    <3> QED
      BY <3>7 DEF k
  <2>6. ASSUME NEW s \in R!Slot, Place(s, at', TrbSlots) <= Queued'
        PROVE  trbs'[s].name = due'[Unseen' + Place(s, at', TrbSlots)]
    <3> DEFINE k == Place(s, at, TrbSlots)
    <3>1. k \in 1 .. TrbSlots
      BY <1>0, <1>c, PlaceIn DEF RingIndices
    <3>2. k <= Queued
      BY SMTT(30), <2>1, <2>6
    <3>3. trbs[s].name = due[Unseen + k]
      BY <1>0, <3>2 DEF Lined
    <3> HIDE DEF k
    <3>4. Unseen' + k \in 1 .. Len(due) - 1 /\ Unseen' + k + 1 = Unseen + k
      BY <1>4, <1>c, <3>1, <3>2
    <3>5. due'[Unseen' + k] = due[Unseen + k]
      BY <2>2, <3>4
    <3> QED
      BY Zenon, <1>1, <2>1, <3>3, <3>5 DEF k
  <2> QED
    BY Zenon, <1>6, <1>7, <1>8, <2>3, <2>4, <2>5, <2>6 DEF RingInv, Lined
<1>10. CASE ~e.ok
  <2>1. Unseen = 1
    BY <1>4, <1>5, <1>10, <1>c
  <2>2. due' = <<>> /\ at' = enqueue /\ ccs' = cycle /\ ~halted'
    BY <1>2, <1>10, Zenon
  <2>3. Unseen' = 0 /\ Queued' = 0 /\ Len(due') = 0
    BY <1>0, <1>1, <1>4, <1>c, <2>1, <2>2 DEF Queued, RingIndices
  <2>4. ASSUME NEW s \in R!EventSlot PROVE ~(Place(s, event_dequeue', EVENT_TRBS) <= 0)
    <3>0. event_dequeue' \in 0 .. EVENT_TRBS
      BY <1>6, <1>c DEF RingIndices
    <3>1. Place(s, event_dequeue', EVENT_TRBS) \in 1 .. EVENT_TRBS
      BY <1>c, <3>0, PlaceIn
    <3> QED
      BY <1>c, <3>1
  <2>5. ASSUME NEW s \in R!Slot PROVE ~(Place(s, at', TrbSlots) <= 0)
    <3>0. at' \in 0 .. TrbSlots
      BY <1>6 DEF RingIndices
    <3>1. Place(s, at', TrbSlots) \in 1 .. TrbSlots
      BY SMTT(30), <1>c, <3>0, PlaceIn
    <3> QED
      BY <1>c, <3>1
  <2>6. Lined'
    <3>1. Len(due') = Unseen' + Queued' /\ Len(due') <= Outstanding
      BY <1>c, <2>3
    <3> QED
      BY <2>2, <2>3, <2>4, <2>5, <3>1 DEF Lined
  <2> QED
    BY <1>6, <1>7, <1>8, <2>6 DEF RingInv
<1> QED
  BY <1>9, <1>10

\* The controller follows the link TRB back to the start of the ring.
LEMMA LinkKept == ASSUME RingConstants, RingInv, R!FollowLink PROVE RingInv'
<1>0. RingIndices /\ RingContents /\ Marks /\ Laps /\ Lined
  BY DEF RingInv
<1>c. TrbSlots \in Nat \ {0} /\ R!Slot = 0 .. TrbSlots - 1
  BY RingCounts
<1>1. /\ at = TrbSlots /\ at' = 0 /\ link = ccs /\ ccs' = 1 - ccs
      /\ UNCHANGED <<trbs, enqueue, cycle, link, trb_events, event_dequeue, event_cycle, halted,
                     event_enqueue, pcs, erdp, next, due>>
  BY DEF R!FollowLink, R!Flip, R!ring, TrbSlots
<1>2. ccs # cycle /\ ccs' = cycle
  BY <1>0, <1>1 DEF RingIndices, Bit, Marks
<1>3. RingIndices' /\ RingContents'
  BY SMTT(30), <1>0, <1>1, <1>2, <1>c DEF RingIndices, RingContents
<1>4. Marks' /\ Laps'
  BY <1>0, <1>1, <1>2 DEF RingIndices, Marks, Laps
<1>5. Queued' = Queued /\ Unseen' = Unseen
  BY <1>0, <1>1, <1>2, <1>c DEF RingIndices, Queued, Unseen
<1>6. \A s \in R!Slot : Place(s, at', TrbSlots) = Place(s, at, TrbSlots)
  BY <1>1, <1>c DEF Place
<1>7. Lined'
  BY Zenon, <1>0, <1>1, <1>5, <1>6 DEF Lined
<1> QED
  BY <1>3, <1>4, <1>7 DEF RingInv

\* Every transfer is answered once and in order, on rings of any size: what is due is
\* what has an event the driver has not seen, then what is queued (usb/mod.rs:193-216,
\* 387-408).
THEOREM RingAnswersInOrder == ASSUME RingConstants PROVE R!Spec => []AnsweredInOrder
<1>1. RingInv /\ [R!Next]_(R!vars) => RingInv'
  <2>1. RingInv /\ R!Next => RingInv' \/ UNCHANGED R!vars
    BY QueueKept, ProcessKept, TransferKept, LinkKept, Zenon DEF R!Next, R!Idle
  <2>2. RingInv /\ UNCHANGED R!vars => RingInv'
    <3> SUFFICES ASSUME RingInv, UNCHANGED R!vars PROVE RingInv'
      BY SMTT(30)
    <3>1. RingIndices' /\ RingContents' /\ Marks' /\ Laps'
      BY DEF RingInv, RingIndices, RingContents, Marks, Laps, R!vars, R!ring
    <3>2. Unseen' = Unseen /\ Queued' = Queued
      BY DEF Unseen, Queued, R!vars, R!ring
    <3>3. Lined'
      BY Zenon, <3>2 DEF RingInv, Lined, R!vars, R!ring
    <3> QED
      BY <3>1, <3>3 DEF RingInv
  <2> QED
    BY <2>1, <2>2
<1>2. RingInv => AnsweredInOrder
  <2> SUFFICES ASSUME RingInv, trb_events[event_dequeue].cycle = event_cycle
               PROVE  due # <<>> /\ trb_events[event_dequeue].name = Head(due)
    BY DEF AnsweredInOrder, R!AnsweredInOrder
  <2>1. event_dequeue \in 0 .. EVENT_TRBS - 1 /\ R!EventSlot = 0 .. EVENT_TRBS - 1
        /\ EVENT_TRBS \in Nat
    BY DEF RingInv, RingIndices, R!EventSlot, RingConstants
  <2>2. event_cycle = IF event_dequeue < event_enqueue THEN pcs ELSE 1 - pcs
    BY <2>1 DEF RingInv, Marks
  <2>3. Unseen > 0
    BY <2>1, <2>2 DEF RingInv, RingIndices, Bit, Laps, Unseen
  <2>4. Place(event_dequeue, event_dequeue, EVENT_TRBS) = 1
    BY <2>1 DEF Place
  <2>5. Unseen \in Nat /\ Len(due) \in Nat /\ Len(due) >= Unseen
    BY SMTT(30), RingCounts
  <2>6. trb_events[event_dequeue].name = due[1]
    BY <2>1, <2>3, <2>4, <2>5 DEF RingInv, Lined
  <2> QED
    BY <2>3, <2>5, <2>6 DEF RingInv, RingContents
<1> QED
  BY RingInitially, <1>1, <1>2, PTL DEF R!Spec
=============================================================================
