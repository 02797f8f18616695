----------------------------- MODULE Providers -----------------------------
(***************************************************************************)
(* How a command finds its way to a phone: AdbTransport.select_device,     *)
(* select_provider, the capability reports of the two providers, and the   *)
(* choice the HTTP API makes from them (src/linkplane/transports.py,       *)
(* providers/, api/execute.py).  A wire is what the computer sees at one   *)
(* moment: adb, whether the program is installed; phones, a set of records *)
(* [serial, state], one for a serial; up, whether the phone's Termux can   *)
(* be reached, and tools, its programs; scrcpy, whether it is installed.   *)
(* A failure is a record [ok |-> FALSE, code].                             *)
(***************************************************************************)
EXTENDS Naturals, FiniteSets, Sequences

CONSTANT NoSerial  \* a profile without an ADB endpoint, a request without --serial

Failed(code) == [ok |-> FALSE, code |-> code]
Selected(serial) == [ok |-> TRUE, serial |-> serial]

\* describe_blocked_adb_state and classify, on the messages the selection raises.
Blocked(state) ==
  CASE state = "no permissions" -> Failed("usb_permission")
    [] state = "unauthorized" -> Failed("unauthorized_device")
    [] state = "offline" -> Failed("unreachable")
    [] OTHER -> Failed("failed")

Severity(state) ==
  CASE state = "no permissions" -> 0 [] state = "unauthorized" -> 1 [] state = "offline" -> 2 [] OTHER -> 3

\* AdbTransport.select_device: the phone asked for, or the only one that is ready.
SelectDevice(wire, serial) ==
  LET ready == {p \in wire.phones : p.state = "device"}
      named == {p \in wire.phones : p.serial = serial}
      worst == CHOOSE p \in wire.phones : \A q \in wire.phones : Severity(p.state) <= Severity(q.state)
  IN IF ~wire.adb THEN Failed("dependency_missing")
     ELSE IF serial # NoSerial /\ named = {} THEN Failed("no_device")
     ELSE IF serial # NoSerial
          THEN LET p == CHOOSE p \in named : TRUE
               IN IF p.state = "device" THEN Selected(serial) ELSE Blocked(p.state)
     ELSE IF wire.phones = {} THEN Failed("no_device")
     ELSE IF ready = {} THEN Blocked(worst.state)
     ELSE IF Cardinality(ready) > 1 THEN Failed("ambiguous")
     ELSE Selected((CHOOSE p \in ready : TRUE).serial)

\* select_provider; the serial comes from a profile, ssh says whether an SSH endpoint does.
SelectProvider(transport, serial, ssh, wire) ==
  LET adb == SelectDevice(wire, serial)
      over_ssh == [ok |-> TRUE, provider |-> "ssh"]
  IN IF transport = "ssh" THEN IF ssh THEN over_ssh ELSE Failed("config_missing")
     ELSE IF adb.ok THEN [ok |-> TRUE, provider |-> "adb", serial |-> adb.serial]
     ELSE IF transport = "adb" THEN adb
     ELSE IF ssh THEN over_ssh ELSE Failed("unreachable")

(***************************************************************************)
(* Capability reports                                                      *)
(***************************************************************************)
Telemetry == {"device.status", "battery.read", "storage.read"}
OverAdb == Telemetry \union {"device.ping", "files.send", "backup.photos", "notify.post", "device.find"}
TermuxTools ==
  [c \in {"notify.post", "clipboard.read", "clipboard.write", "clipboard.sync", "camera.capture"} |->
     CASE c = "notify.post" -> {"notification"}
       [] c = "clipboard.read" -> {"clipboard-get"}
       [] c = "clipboard.write" -> {"clipboard-set"}
       [] c = "clipboard.sync" -> {"clipboard-get", "clipboard-set"}
       [] c = "camera.capture" -> {"camera-photo"}]

AdbReport(wire, serial, capability) ==
  LET adb == SelectDevice(wire, serial) IN
  IF capability \in OverAdb
  THEN IF adb.ok THEN "supported"
       ELSE IF adb.code = "unauthorized_device" THEN "permission-denied" ELSE "unavailable"
  ELSE IF capability = "screen.control" /\ adb.ok
       THEN IF wire.scrcpy THEN "supported" ELSE "unavailable"
  ELSE "unsupported"

SshReport(wire, capability) ==
  IF ~wire.up
  THEN IF capability = "device.ping" THEN "unavailable"
       ELSE IF capability \in Telemetry THEN "provider-error" ELSE "unsupported"
  ELSE IF capability = "device.ping" THEN "supported"
  ELSE IF capability \in Telemetry
       THEN IF "status" \in wire.tools THEN "supported" ELSE "unavailable"
  ELSE IF capability \in DOMAIN TermuxTools
       THEN IF TermuxTools[capability] \subseteq wire.tools THEN "supported" ELSE "unavailable"
  ELSE "unsupported"

Report(wire, provider, capability) ==
  IF provider.provider = "adb" THEN AdbReport(wire, provider.serial, capability)
  ELSE SshReport(wire, capability)

(***************************************************************************)
(* api/execute.py: select and check_capability                             *)
(***************************************************************************)
\* An action only ADB can do, on a device without a serial, is refused before a
\* selection that would take any phone.
NeedsSerial_Never(transport, target) == FALSE  \* mutant: the refusal is missing
NeedsSerial(transport, target) == transport = "adb" /\ target.serial = NoSerial

SelectFor(target, spec, wire) ==
  LET transport == IF spec.over = {"adb", "ssh"}
                   THEN IF target.serial # NoSerial THEN "auto" ELSE "ssh"
                   ELSE CHOOSE t \in spec.over : TRUE
  IN IF NeedsSerial(transport, target) THEN Failed("no_device")
     ELSE IF transport = "ssh" /\ ~target.ssh THEN Failed("capability_unavailable")
     ELSE SelectProvider(transport, IF transport = "ssh" THEN NoSerial ELSE target.serial, target.ssh, wire)

\* The code a capability report that is not "supported" is refused with.
CapabilityRefusal(status) ==
  CASE status = "unsupported" -> "capability_unsupported"
    [] status = "permission-denied" -> "unauthorized_device"
    [] OTHER -> "capability_unavailable"
=============================================================================
