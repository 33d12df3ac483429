------------------------------ MODULE UsbPorts ------------------------------
(***************************************************************************)
(* The ports and device slots of one xHCI controller (drivers/usb/mod.rs):  *)
(* the scan of the ports at boot, and plugs and unplugs noticed by polling. *)
(* People plug and unplug at any time.  A port sends an event only when its *)
(* change bits were clear; the driver puts a flag up for it and looks at    *)
(* the port later, since enumerating waits for events itself.               *)
(***************************************************************************)
EXTENDS Naturals, Sequences

CONSTANTS N,            \* max_ports
          MaxSlots,
          MaxPlugs,     \* devices ever plugged in, numbered in order (a bound)
          MaxMoves,     \* plugs and unplugs (a bound)
          Early         \* whether some come during the scan

VARIABLES plugged,      \* the device in a port, 0 for none
          plugs, moves,
          csc,          \* the port has change bits set
          enabled,      \* slots the controller has handed out
          events,       \* ports with an event in the event ring
          port_changed, port_devices, devices,
          pc, port,     \* where the driver is, and with which port
          booting,
          failed        \* enumeration of what is in the port ended without a record

hardware == <<plugged, plugs, moves, csc, enabled, events>>
software == <<port_changed, port_devices, devices, pc, port, booting, failed>>
vars == <<hardware, software>>

Ports == 1 .. N
Slots == 1 .. MaxSlots

Init ==
  /\ \E p \in [Ports -> {0, 1}] :
       /\ \A i, j \in Ports : p[i] = 1 /\ p[j] = 1 => i = j
       /\ plugged = p
  /\ plugs = 1 /\ moves = 0
  /\ csc = [i \in Ports |-> plugged[i] # 0]
  /\ enabled = {} /\ events = <<>>
  /\ port_changed = [i \in Ports |-> FALSE]
  /\ port_devices = [i \in Ports |-> 0]
  /\ devices = [s \in Slots |-> 0]
  /\ pc = "scan" /\ port = 1 /\ booting = TRUE
  /\ failed = [i \in Ports |-> FALSE]

-----------------------------------------------------------------------------
(* The outside. *)

Change(i, dev) ==
  /\ moves < MaxMoves /\ moves' = moves + 1
  /\ ~booting \/ Early
  /\ plugged' = [plugged EXCEPT ![i] = dev]
  /\ csc' = [csc EXCEPT ![i] = TRUE]
  /\ events' = IF csc[i] THEN events ELSE Append(events, i)
  /\ failed' = [failed EXCEPT ![i] = FALSE]
  /\ UNCHANGED <<enabled, port_changed, port_devices, devices, pc, port, booting>>

Plug(i) == plugged[i] = 0 /\ plugs < MaxPlugs /\ plugs' = plugs + 1 /\ Change(i, plugs + 1)
Unplug(i) == plugged[i] # 0 /\ UNCHANGED plugs /\ Change(i, 0)

-----------------------------------------------------------------------------
(* Events, the scan and the poll. *)

\* process_events(), run by every wait too.
process_events ==
  /\ events # <<>>
  /\ port_changed' = [i \in Ports |-> port_changed[i] \/ \E k \in DOMAIN events : events[k] = i]
  /\ events' = <<>>
  /\ UNCHANGED <<plugged, plugs, moves, csc, enabled, port_devices, devices, pc, port, booting, failed>>

\* init() takes the next port: its change bits are cleared, a device enumerated.
Scan ==
  /\ pc = "scan" /\ port <= N
  /\ csc' = [csc EXCEPT ![port] = FALSE]
  /\ IF plugged[port] # 0 THEN pc' = "reset" /\ UNCHANGED port
     ELSE port' = port + 1 /\ UNCHANGED pc
  /\ UNCHANGED <<plugged, plugs, moves, enabled, events, port_changed, port_devices, devices, booting, failed>>

\* The end of init(): every flag that is up is taken down.
Scanned ==
  /\ pc = "scan" /\ port > N
  /\ events' = <<>>
  /\ port_changed' = [i \in Ports |-> FALSE]
  /\ pc' = "poll" /\ booting' = FALSE
  /\ UNCHANGED <<plugged, plugs, moves, csc, enabled, port_devices, devices, port, failed>>

\* Mutant: a port with nothing to do keeps its change bits.
PollLeavesBits(i) ==
  /\ pc = "poll" /\ port_changed[i]
  /\ port_changed' = [port_changed EXCEPT ![i] = FALSE]
  /\ port' = i
  /\ LET connected == plugged[i] # 0
         present == port_devices[i] # 0
     IN  pc' = IF ~connected /\ present THEN "release"
               ELSE IF connected /\ ~present THEN "reset" ELSE "poll"
  /\ csc' = [csc EXCEPT ![i] = @ /\ pc' = "poll"]
  /\ UNCHANGED <<plugged, plugs, moves, enabled, events, port_devices, devices, booting, failed>>

\* poll() finds a flag up: port_changed() reads the port and clears its bits.
poll(i) ==
  /\ pc = "poll" /\ port_changed[i]
  /\ port_changed' = [port_changed EXCEPT ![i] = FALSE]
  /\ csc' = [csc EXCEPT ![i] = FALSE]
  /\ port' = i
  /\ LET connected == plugged[i] # 0
         present == port_devices[i] # 0
     IN  pc' = IF ~connected /\ present THEN "release"
               ELSE IF connected /\ ~present THEN "reset" ELSE "poll"
  /\ UNCHANGED <<plugged, plugs, moves, enabled, events, port_devices, devices, booting, failed>>

-----------------------------------------------------------------------------
(* enumerate_port() and release_port(). *)

Done == IF booting THEN pc' = "scan" /\ port' = port + 1 ELSE pc' = "poll" /\ UNCHANGED port

\* port_reset(), with its own change bit and event unless the port is enabled
\* already or never answers, and new_device().
Reset(ok) ==
  /\ pc = "reset"
  /\ ok => plugged[port] # 0
  /\ events' \in {events, IF csc[port] THEN events ELSE Append(events, port)}
  /\ IF ok THEN /\ port_devices' = [port_devices EXCEPT ![port] = plugged[port]]
                /\ pc' = "enable" /\ UNCHANGED <<port, failed>>
     ELSE /\ failed' = [failed EXCEPT ![port] = plugged[port] # 0]
          /\ Done /\ UNCHANGED port_devices
  /\ UNCHANGED <<plugged, plugs, moves, csc, enabled, port_changed, devices, booting>>

\* address_device(): Enable Slot fails, or times out with a slot taken or not.
EnableSlot ==
  /\ pc = "enable"
  /\ \/ \E s \in Slots \ enabled :
          /\ enabled' = enabled \cup {s}
          /\ \/ devices' = [devices EXCEPT ![s] = port_devices[port]] /\ pc' = "address" /\ UNCHANGED port
             \/ Done /\ UNCHANGED devices
     \/ Done /\ UNCHANGED <<enabled, devices>>
  /\ UNCHANGED <<plugged, plugs, moves, csc, events, port_changed, port_devices, booting, failed>>

\* The rest: Address Device, the descriptors, and the class drivers' probes.
Address ==
  /\ pc = "address" /\ Done
  /\ UNCHANGED <<hardware, port_changed, port_devices, devices, booting, failed>>

Unrouted(dev) == [s \in Slots |-> IF devices[s] = dev THEN 0 ELSE devices[s]]

\* release_port(): Disable Slot comes last, and may time out.
release_port ==
  LET dev == port_devices[port]
      slots == {s \in Slots : devices[s] = dev}
  IN  /\ pc = "release"
      /\ port_devices' = [port_devices EXCEPT ![port] = 0]
      /\ devices' = Unrouted(dev)
      /\ enabled' \in {enabled, enabled \ slots}
      /\ pc' = "poll"
      /\ UNCHANGED <<plugged, plugs, moves, csc, events, port_changed, port, booting, failed>>

Next ==
  \/ \E i \in Ports : Plug(i) \/ Unplug(i) \/ poll(i)
  \/ process_events \/ Scan \/ Scanned
  \/ \E ok \in BOOLEAN : Reset(ok)
  \/ EnableSlot \/ Address \/ release_port
  \/ pc = "poll" /\ UNCHANGED vars

Spec == Init /\ [][Next]_vars

-----------------------------------------------------------------------------
(* Properties. *)

\* No plug or unplug that the poll is to handle is lost: once the driver has
\* nothing to do and no event is on its way, a port has a record exactly if it
\* has a device, whatever came while it was enumerating (mod.rs:962-973).
Quiet == pc = "poll" /\ events = <<>> /\ \A i \in Ports : ~port_changed[i]
NoChangeLost ==
  Quiet => \A i \in Ports : (plugged[i] # 0 <=> port_devices[i] # 0) \/ failed[i]

\* Events are routed only to devices that have a record and a slot of their own,
\* through slots that are used again and commands that time out (mod.rs:948-956).
RoutedToRecorded ==
  \A s \in Slots : devices[s] # 0 =>
    /\ s \in enabled
    /\ \E i \in Ports : port_devices[i] = devices[s]
    /\ \A t \in Slots : devices[t] = devices[s] => t = s

\* The two together.
DevicesTracked == NoChangeLost /\ RoutedToRecorded

\* "Just handled them all" (mod.rs:1059): the flags that init() takes down are of
\* ports it has dealt with.
JustHandledThemAll == NoChangeLost
=============================================================================
