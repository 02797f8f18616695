------------------------------ MODULE Profiles ------------------------------
(***************************************************************************)
(* src/linkplane/profiles.py: the device profiles of config.json, what     *)
(* pairing, refreshing, removing and selecting do to them, and the phones, *)
(* which move from one Wi-Fi address to another.  A phone stands for its   *)
(* hardware serial, an address for host:port and for the SSH host; the     *)
(* order of a profile's serials is left out (any of them may be tried).    *)
(*                                                                         *)
(* desk.devices maps the names in use to profiles.  update_config holds a  *)
(* lock from its reading of the file to its saving it, so a change is one  *)
(* step; everything a command asked a phone before is in memo.             *)
(***************************************************************************)
EXTENDS Commands

CONSTANTS Names, Phones, Addresses, None

\* The phone of a pairing is what adb calls it: its serial, or the address at which
\* it is connected.
PairRequests ==
  [op : {"usb"}, name : Names, phone : Phones \union Addresses, default : BOOLEAN, dry : BOOLEAN]
  \union [op : {"wireless"}, name : Names, address : Addresses, default : BOOLEAN, dry : BOOLEAN]
  \union [op : {"ssh"}, name : Names, address : Addresses, phone : Phones \union Addresses, explicit : BOOLEAN,
          default : BOOLEAN, dry : BOOLEAN]
ProfileRequests ==
  [op : {"refresh"}, names : {{n} : n \in Names} \union {Names}, scan : BOOLEAN, dry : BOOLEAN]
  \union [op : {"remove", "default"}, name : Names]

\* profiles_from_config: an endpoint belongs to one identity.
Loads(devices) == \A m, n \in DOMAIN devices : devices[m].id # devices[n].id =>
  /\ devices[m].adb \intersect devices[n].adb = {}
  /\ devices[m].ssh = devices[n].ssh => devices[m].ssh = None

Hardware(profile) == profile.adb \intersect Phones
Known(n) == n \in DOMAIN desk.devices
Conflict(devices, n, id) == n \in DOMAIN devices /\ devices[n].id # id

merge_profile(devices, n, new) ==
  LET known == n \in DOMAIN devices
      merged == [id |-> IF known THEN devices[n].id ELSE new.id,
                 adb |-> new.adb \union (IF known THEN devices[n].adb ELSE {}),
                 ssh |-> IF known /\ new.ssh = None THEN devices[n].ssh ELSE new.ssh]
  IN [m \in DOMAIN devices \union {n} |-> IF m = n THEN merged ELSE devices[m]]

\* A command has read the config and goes on to step `to` with a profile to save.
Plans(c, from, to, new) ==
  /\ Goto(c, from, to)
  /\ memo' = [memo EXCEPT ![c] = <<[read |-> desk.devices, new |-> new, who |-> None]>>]

(***************************************************************************)
(* Pairing                                                                 *)
(***************************************************************************)
\* pair_usb_device: what adb calls the phone is the identity (strict).
PairUsb(c) ==
  LET n == req[c].name
      refused == ~Loads(desk.devices) \/ Conflict(desk.devices, n, req[c].phone)
  IN /\ req[c].op = "usb"
     /\ \/ \E code \in {"invalid_request", "dependency_missing", "transport_unavailable"} :
             Answer(c, "start", code) /\ UNCHANGED memo
        \/ refused /\ Answer(c, "start", "invalid_request") /\ UNCHANGED memo
        \/ ~refused /\ req[c].dry /\ Answer(c, "start", "success") /\ UNCHANGED memo
        \/ /\ ~refused /\ ~req[c].dry
           /\ Plans(c, "start", "save", [id |-> req[c].phone, adb |-> {req[c].phone}, ssh |-> None])
     /\ UNCHANGED <<phone, desk>>

\* pair_wireless_device: the address is no identity; it joins the profile there is.
PairWireless(c) ==
  LET n == req[c].name
      id == IF Known(n) THEN desk.devices[n].id ELSE req[c].address
      new == [id |-> id, adb |-> {req[c].address}, ssh |-> None]
      refused == ~Loads(desk.devices) \/ ~Loads(merge_profile(desk.devices, n, new))
  IN /\ req[c].op = "wireless"
     /\ \/ \E code \in {"invalid_request", "dependency_missing"} : Answer(c, "start", code) /\ UNCHANGED memo
        \/ refused /\ Answer(c, "start", "invalid_request") /\ UNCHANGED memo
        \/ ~refused /\ req[c].dry /\ Answer(c, "start", "success") /\ UNCHANGED memo
        \/ ~refused /\ ~req[c].dry /\ Plans(c, "start", "connect", new)
     /\ UNCHANGED <<phone, desk>>

\* The hardware serials the profile had when the command read the config.
Expected(c) == IF req[c].name \in DOMAIN memo[c][1].read THEN Hardware(memo[c][1].read[req[c].name]) ELSE {}

Accepts_Any(c, who) == TRUE  \* mutant: the serial the phone presents is not compared
Accepts(c, who) == Expected(c) = {} \/ who \in Expected(c)

ConnectWireless(c) ==
  /\ req[c].op = "wireless" /\ at[c] = "connect"
  /\ \/ Answer(c, "connect", "invalid_request") /\ UNCHANGED memo  \* no pairing code
     \/ Answer(c, "connect", "operation_failed") /\ UNCHANGED memo
     \/ \E who \in Phones :
          /\ phone.addr[who] = req[c].address /\ Accepts(c, who)
          /\ Goto(c, "connect", "save") /\ memo' = [memo EXCEPT ![c][1].who = who]
  /\ UNCHANGED <<phone, desk>>

\* pair_ssh_device: the identity is what adb calls the phone, or is given.
PairSsh(c) ==
  LET n == req[c].name
      adb == IF req[c].explicit THEN {} ELSE {req[c].phone}
      refused == ~Loads(desk.devices) \/ Conflict(desk.devices, n, req[c].phone)
  IN /\ req[c].op = "ssh"
     /\ \/ Answer(c, "start", "invalid_request") /\ UNCHANGED memo
        \/ /\ ~req[c].explicit /\ UNCHANGED memo
           /\ \E code \in {"dependency_missing", "transport_unavailable"} : Answer(c, "start", code)
        \/ refused /\ Answer(c, "start", "invalid_request") /\ UNCHANGED memo
        \/ ~refused /\ req[c].dry /\ Answer(c, "start", "success") /\ UNCHANGED memo
        \/ /\ ~refused /\ ~req[c].dry
           /\ Plans(c, "start", "probe", [id |-> req[c].phone, adb |-> adb, ssh |-> req[c].address])
     /\ UNCHANGED <<phone, desk>>

ProbeSsh(c) ==
  /\ req[c].op = "ssh"
  /\ \/ Answer(c, "probe", "operation_failed")
     \/ (\E q \in Phones : phone.addr[q] = req[c].address) /\ Goto(c, "probe", "save")
  /\ UNCHANGED <<memo, phone, desk>>

\* save_paired_profile under the lock: merged into the file as it is now, and
\* refused if the result would not load.
Allowed_Unchecked(devices, n, new) == ~Conflict(devices, n, new.id)  \* mutant: the merged file is not validated
Allowed(devices, n, new) == ~Conflict(devices, n, new.id) /\ Loads(merge_profile(devices, n, new))

SaveProfile(c) ==
  /\ req[c].op \in {"usb", "wireless", "ssh"} /\ at[c] = "save"
  /\ LET n == req[c].name
         new == memo[c][1].new
     IN \/ Answer(c, "save", "operation_failed") /\ UNCHANGED desk
        \/ /\ Allowed(desk.devices, n, new)
           /\ Answer(c, "save", "success")
           /\ desk' = [desk EXCEPT !.devices = merge_profile(@, n, new),
                                   !.default = IF req[c].default \/ @ = None THEN n ELSE @]
  /\ UNCHANGED <<memo, phone>>

(***************************************************************************)
(* Refresh                                                                 *)
(***************************************************************************)
\* A change to save for a profile.  `who` is the phone that was at the address when
\* the command looked; `sure` notes that it was one that had presented a hardware serial.
Change(n, field, was, now, who, sure) ==
  [name |-> n, field |-> field, was |-> was, now |-> now, who |-> who, sure |-> sure]

NoWay == [name |-> None, serial |-> None, scanned |-> None, who |-> None, at |-> None, left |-> {}, seen |-> 0]

\* The config is read and adb asked once for the serials that are connected: a
\* phone on USB, or whichever phone answers at an address.
RefreshStart(c) ==
  LET targets == IF req[c].names = Names THEN DOMAIN desk.devices ELSE req[c].names
      answering == Phones \union {phone.addr[q] : q \in {p \in Phones : phone.addr[p] # None}}
  IN /\ req[c].op = "refresh"
     /\ \/ ~Loads(desk.devices) /\ Answer(c, "start", "operation_failed") /\ UNCHANGED memo
        \/ /\ Loads(desk.devices) /\ ~(targets \subseteq DOMAIN desk.devices)
           /\ Answer(c, "start", "not_found") /\ UNCHANGED memo
        \/ /\ Loads(desk.devices) /\ targets \subseteq DOMAIN desk.devices
           /\ Goto(c, "start", "examine")
           /\ \E up \in SUBSET answering :
                memo' = [memo EXCEPT ![c] =
                           <<[read |-> desk.devices, todo |-> targets, up |-> up, changes |-> {}, way |-> NoWay]>>]
     /\ UNCHANGED <<phone, desk>>

\* _refresh_targets takes the profiles one by one; memo[c].way is the one in hand:
\* the serial it is reached at, whether the scan has found it there in place of an
\* alias, and the aliases still to be tried at the phone's address.  `seen` is
\* phone.roams when the phone was last asked, so it shows whether one has moved since.
Way(n, serial, scanned, who) ==
  [name |-> n, serial |-> serial, scanned |-> scanned, who |-> who, at |-> None, left |-> {}, seen |-> phone.roams]
Unmoved(c) == memo[c][1].way.seen = phone.roams

\* scan_for_profile: an address whose phone presents one of the profile's hardware
\* serials (_probe_scan_candidate) is found in place of an alias that has gone stale.
Scan(c, n) ==
  LET profile == memo[c][1].read[n] IN
  /\ req[c].scan /\ ~req[c].dry
  /\ \E alias \in profile.adb \intersect Addresses, q \in Hardware(profile) :
       /\ phone.addr[q] # None /\ Goto(c, "examine", "route")
       /\ memo' = [memo EXCEPT ![c][1].todo = @ \ {n}, ![c][1].way = Way(n, phone.addr[q], alias, q)]

RefreshTarget(c) ==
  /\ req[c].op = "refresh" /\ at[c] = "examine"
  /\ \E n \in memo[c][1].todo :
       LET direct == memo[c][1].read[n].adb \intersect memo[c][1].up
       IN \/ /\ direct = {} /\ Goto(c, "examine", "examine")  \* nothing reachable, or only a report
             /\ memo' = [memo EXCEPT ![c][1].todo = @ \ {n}]
          \/ \E serial \in direct :
               /\ Goto(c, "examine", "route")
               /\ memo' = [memo EXCEPT ![c][1].todo = @ \ {n}, ![c][1].way = Way(n, serial, None, None)]
          \/ direct = {} /\ Scan(c, n)
  /\ UNCHANGED <<phone, desk>>

Behind(serial) == IF serial \in Phones THEN {serial} ELSE {q \in Phones : phone.addr[q] = serial}

\* _device_wifi_address asks whichever phone is behind the serial now.  What the scan
\* found and the SSH host are noted; the other aliases are tried at the new address.
RefreshRoute(c) ==
  /\ req[c].op = "refresh" /\ at[c] = "route"
  /\ \/ Goto(c, "route", "examine") /\ UNCHANGED memo  \* no answer, or no Wi-Fi route
     \/ LET m == memo[c][1]
            way == m.way
            profile == m.read[way.name]
        IN \E q \in {p \in Behind(way.serial) : phone.addr[p] # None} :
             LET a == phone.addr[q]
                 sure == way.serial \in Phones \/ (way.scanned # None /\ Unmoved(c))
                 found == IF way.scanned # None /\ way.serial \notin profile.adb
                          THEN {Change(way.name, "adb", way.scanned, way.serial, way.who, TRUE)} ELSE {}
                 host == IF profile.ssh \notin {None, a} THEN {Change(way.name, "ssh", profile.ssh, a, q, sure)} ELSE {}
                 others == IF req[c].dry \/ a = way.serial \/ a \in profile.adb THEN {}
                           ELSE profile.adb \intersect Addresses
             IN /\ Goto(c, "route", IF others = {} THEN "examine" ELSE "connect")
                /\ memo' = [memo EXCEPT ![c][1].changes = @ \union found \union host,
                                        ![c][1].way = [way EXCEPT !.at = a, !.left = others, !.seen = phone.roams]]
  /\ UNCHANGED <<phone, desk>>

\* `adb connect` with `adb devices`: one alias gives way to the address if a phone
\* answers there, which is not asked who it is.
RefreshConnect(c) ==
  /\ req[c].op = "refresh" /\ at[c] = "connect"
  /\ LET way == memo[c][1].way IN
       \E alias \in way.left :
         /\ Goto(c, "connect", IF way.left = {alias} THEN "examine" ELSE "connect")
         /\ \/ memo' = [memo EXCEPT ![c][1].way.left = @ \ {alias}]
            \/ \E q \in Behind(way.at) :
                 memo' = [memo EXCEPT ![c][1].way.left = @ \ {alias},
                            ![c][1].changes = @ \union {Change(way.name, "adb", alias, way.at, q,
                                                             way.serial \in Phones /\ Unmoved(c))}]
  /\ UNCHANGED <<phone, desk>>

RefreshStops(c) ==
  /\ req[c].op = "refresh" /\ at[c] = "examine"
  /\ LET m == memo[c][1] IN
       \/ m.todo # {} /\ Answer(c, "examine", "cancelled")
       \/ m.todo = {} /\ (m.changes = {} \/ req[c].dry) /\ Answer(c, "examine", "success")
       \/ m.todo = {} /\ m.changes # {} /\ ~req[c].dry /\ Goto(c, "examine", "apply")
  /\ UNCHANGED <<memo, phone, desk>>

Applied(profile, changes) ==
  LET adb == {ch \in changes : ch.field = "adb"}
      ssh == {ch \in changes : ch.field = "ssh"}
  IN [profile EXCEPT !.adb = (@ \ {ch.was : ch \in adb}) \union {ch.now : ch \in adb},
                     !.ssh = IF ssh = {} THEN @ ELSE (CHOOSE ch \in ssh : TRUE).now]

\* The changes go into the file as it is now; a profile that has gone is left out.
Base_AsRead(c) == memo[c][1].read  \* mutant: the config read before the scan is saved
Base(c) == desk.devices

RefreshApply(c) ==
  /\ req[c].op = "refresh" /\ at[c] = "apply"
  /\ \/ Answer(c, "apply", "operation_failed") /\ UNCHANGED desk
     \/ /\ Answer(c, "apply", "success")
        /\ desk' = [desk EXCEPT !.devices =
             [n \in DOMAIN Base(c) |-> Applied(Base(c)[n], {ch \in memo[c][1].changes : ch.name = n})]]
  /\ UNCHANGED <<memo, phone>>

(***************************************************************************)
(* Remove and select                                                       *)
(***************************************************************************)
RemoveProfile(c) ==
  /\ req[c].op = "remove"
  /\ \/ Answer(c, "start", "operation_failed") /\ UNCHANGED desk
     \/ ~Known(req[c].name) /\ Answer(c, "start", "not_found") /\ UNCHANGED desk
     \/ /\ Known(req[c].name) /\ Answer(c, "start", "success")
        /\ desk' = [desk EXCEPT !.devices = [n \in DOMAIN @ \ {req[c].name} |-> @[n]],
                                !.default = IF @ = req[c].name THEN None ELSE @]
  /\ UNCHANGED <<memo, phone>>

SelectDefault(c) ==
  /\ req[c].op = "default"
  /\ \/ Answer(c, "start", "operation_failed") /\ UNCHANGED desk
     \/ Loads(desk.devices) /\ ~Known(req[c].name) /\ Answer(c, "start", "not_found") /\ UNCHANGED desk
     \/ /\ Loads(desk.devices) /\ Known(req[c].name) /\ Answer(c, "start", "success")
        /\ desk' = [desk EXCEPT !.default = req[c].name]
  /\ UNCHANGED <<memo, phone>>

ProfileStep(c) ==
  \/ PairUsb(c) \/ PairWireless(c) \/ ConnectWireless(c) \/ PairSsh(c) \/ ProbeSsh(c) \/ SaveProfile(c)
  \/ RefreshStart(c) \/ RefreshTarget(c) \/ RefreshRoute(c) \/ RefreshConnect(c)
  \/ RefreshStops(c) \/ RefreshApply(c)
  \/ RemoveProfile(c) \/ SelectDefault(c)

\* A phone gets another address, or leaves the network.
Roams == \E p \in Phones, a \in Addresses \union {None} :
  /\ phone.roams > 0 /\ phone.addr[p] # a
  /\ a # None => \A q \in Phones : phone.addr[q] # a
  /\ phone' = [addr |-> [phone.addr EXCEPT ![p] = a], roams |-> phone.roams - 1]
  /\ UNCHANGED <<req, at, reply, memo, desk>>
=============================================================================
