---------------------------- MODULE DeviceDiff ----------------------------
(***************************************************************************)
(* core/state.py: the observed state of one device, and diff(), the pure   *)
(* function that turns two observations into the events between them.      *)
(* Addresses, times and the payload of events are left out, except the     *)
(* level and the network name, which a subscriber reads from the event.    *)
(***************************************************************************)
EXTENDS Integers, Sequences

CONSTANTS
  Levels,      \* battery levels
  LowBattery,  \* the threshold low_battery
  Ssids        \* Wi-Fi network names

ASSUME DiffAssumption == Levels \subseteq Nat /\ LowBattery \in Nat

CONNECTED == "connected"
DISCONNECTED == "disconnected"
UNAUTHORIZED == "unauthorized"
OFFLINE == "offline"
Connections == {CONNECTED, DISCONNECTED, UNAUTHORIZED, OFFLINE}

NoBattery == [level |-> -1, powered |-> FALSE]
Batteries == [level : Levels, powered : BOOLEAN] \union {NoBattery}
NoWifi == "none"

\* DeviceState; a device the observer has never seen has no state.
DeviceStates == [connection : Connections, battery : Batteries, wifi : Ssids \union {NoWifi}]
NewDevice == [connection |-> DISCONNECTED, battery |-> NoBattery, wifi |-> NoWifi]
Unseen == [connection |-> "unseen", battery |-> NoBattery, wifi |-> NoWifi]

Online(s) == s.connection = CONNECTED

Ev(type, initial, value) == [type |-> type, initial |-> initial, value |-> value]
When(condition, event) == IF condition THEN <<event>> ELSE <<>>

ConnectionEvents(old, new, initial) ==
  LET up == old.connection # new.connection /\ Online(new)
  IN  When(up /\ old.connection = UNAUTHORIZED, Ev("device.authorized", initial, 0))
      \o When(up, Ev("device.connected", initial, 0))
      \o When(old.connection # new.connection /\ new.connection = UNAUTHORIZED,
              Ev("device.unauthorized", initial, 0))
      \o When(Online(old) /\ new.connection \in {OFFLINE, DISCONNECTED},
              Ev("device.disconnected", initial, 0))

IsLow(level) == level < LowBattery

BatteryEvents_LateOk(old, new, initial) ==  \* mutant: recovered only above the threshold
  LET changed == new # NoBattery /\ new.level # old.level
      wasLow == old # NoBattery /\ IsLow(old.level)
  IN  When(changed, Ev("battery.changed", initial, new.level))
      \o When(changed /\ IsLow(new.level) /\ (initial \/ ~wasLow), Ev("battery.low", initial, new.level))
      \o When(changed /\ wasLow /\ new.level > LowBattery, Ev("battery.ok", initial, new.level))

BatteryEvents(old, new, initial) ==
  LET changed == new # NoBattery /\ new.level # old.level
      wasLow == old # NoBattery /\ IsLow(old.level)
  IN  When(changed, Ev("battery.changed", initial, new.level))
      \o When(changed /\ IsLow(new.level) /\ (initial \/ ~wasLow), Ev("battery.low", initial, new.level))
      \o When(changed /\ wasLow /\ ~IsLow(new.level), Ev("battery.ok", initial, new.level))

PowerEvents(old, new, initial) ==
  When(new # NoBattery /\ new.powered /\ (initial \/ ~old.powered), Ev("charging.started", initial, 0))
  \o When(new # NoBattery /\ old.powered /\ ~new.powered /\ ~initial, Ev("charging.stopped", initial, 0))

WifiEvents(old, new, initial) ==
  When(old # new /\ new # NoWifi, Ev("wifi.connected", initial, new))
  \o When(old # new /\ new = NoWifi /\ ~initial, Ev("wifi.disconnected", initial, old))

\* diff(previous, current, fresh=...): a device that is not online has only
\* connection events.
Diff(previous, current, fresh) ==
  LET initial == previous = Unseen \/ fresh
      before == IF previous = Unseen THEN NewDevice ELSE previous
  IN  ConnectionEvents(before, current, initial)
      \o IF Online(current)
           THEN BatteryEvents(before.battery, current.battery, initial)
                \o PowerEvents(before.battery, current.battery, initial)
                \o WifiEvents(before.wifi, current.wifi, initial)
           ELSE <<>>
=============================================================================
