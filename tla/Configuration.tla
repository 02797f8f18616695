--------------------------- MODULE Configuration ---------------------------
(***************************************************************************)
(* The commands of Profiles and Records over one set of files.  A command  *)
(* without an operation ("none") leaves room for the others.               *)
(***************************************************************************)
EXTENDS Profiles, Records

Requests == PairRequests \union ProfileRequests \union RecordRequests \union [op : {"none"}]

\* Requests are what the programs take; a hardware serial is no address, two phones
\* have two addresses, and tokens are random, so that two clients never share one.
ASSUME ConfigurationAssumption ==
  /\ Phones \intersect Addresses = {} /\ None \notin Phones \union Addresses
  /\ \A w \in Worlds :
       /\ \A c \in Commands : w.plan[c] \in Requests
       /\ \A n \in DOMAIN w.devices :
            w.devices[n] \in [id : Phones \union Addresses, adb : SUBSET (Phones \union Addresses),
                              ssh : Addresses \union {None}]
       /\ w.addr \in [Phones -> Addresses \union {None}] /\ w.roams \in Nat
       /\ \A p, q \in Phones : w.addr[p] = w.addr[q] /\ w.addr[p] # None => p = q
       /\ \A r, s \in w.clients : r.token = s.token => r = s
       /\ \A c \in Commands, r \in w.clients : w.plan[c].op = "create" => r.token # c

Init ==
  /\ at = [c \in Commands |-> "start"]
  /\ reply = [c \in Commands |-> Unset]
  /\ memo = [c \in Commands |-> <<>>]
  /\ \E w \in Worlds :
       /\ req = w.plan
       /\ phone = [addr |-> w.addr, roams |-> w.roams]
       /\ desk = [devices |-> w.devices, default |-> None, clients |-> [all |-> w.clients, mtime |-> 1],
                  temporary |-> NoFile, cache |-> [all |-> {}, mtime |-> 0], revoked |-> {},
                  rules |-> [d \in Devices |-> NoRule], tick |-> 1, ticks |-> w.ticks,
                  sameTick |-> FALSE, raced |-> FALSE]

Next ==
  \/ \E c \in Commands : ProfileStep(c) \/ RecordStep(c)
  \/ Roams \/ Ticks

Spec == Init /\ [][Next]_vars

(***************************************************************************)
(* Properties                                                              *)
(***************************************************************************)
Commits(c) == at[c] # "end" /\ reply'[c] = "success"

ConfigLoads == Loads(desk.devices)

\* Whatever races, no pairing, removal or selection turns a config that loads into
\* one that profiles_from_config refuses, or leaves a default that is no profile
\* (save_paired_profile validates under the lock; a refresh does not).
ConfigStaysUsable == [][
  /\ ConfigLoads /\ ~ConfigLoads' => \E c \in Commands : at[c] = "apply" /\ Commits(c)
  /\ desk'.default # None => desk'.default \in DOMAIN desk'.devices]_vars

\* The names of the profiles, the clients and the rules a command may change.
Touched(c) ==
  IF req[c].op = "refresh" THEN {ch.name : ch \in memo[c][1].changes} \intersect DOMAIN desk.devices
  ELSE IF "name" \in DOMAIN req[c] THEN {req[c].name} ELSE {}
ProfileOf(devices, n) == IF n \in DOMAIN devices THEN <<devices[n]>> ELSE <<>>
Others(all, c) == {r \in all : r.id # req[c].id}

\* A change that was saved survives the commands that began before it: each changes
\* only what it was asked to (update_config works on the file as it is; clients.json
\* and the rules file are not locked, so there unless two commands overlapped).
ChangesSurvive == [][\A c \in Commands : Commits(c) =>
  /\ \A n \in Names \ Touched(c) : ProfileOf(desk'.devices, n) = ProfileOf(desk.devices, n)
  /\ req[c].op \in Clients /\ ~desk.raced => Others(desk'.clients.all, c) = Others(desk.clients.all, c)
  /\ req[c].op \in Rules /\ ~desk.raced =>
       \A d \in Devices \ {req[c].device} : desk'.rules[d] = desk.rules[d]]_vars

\* A pairing or a refresh that can tell by a hardware serial whose address it saves
\* saves that phone's, as long as the profile is still the one it read: the phone that
\* was paired over Wi-Fi, or found by the scan, had presented the serial; the SSH host,
\* or the alias, is the address that the phone on USB, or found by the scan, said it
\* had, and no phone has moved between its saying so and adb's connecting there.  (After
\* a move adb connects to whoever is there and nobody compares; and a profile reached
\* at a stored address trusts whichever phone answers.)
Same(c, n) == n \in DOMAIN desk.devices /\ n \in DOMAIN memo[c][1].read /\ desk.devices[n] = memo[c][1].read[n]
RightPhone == [][\A c \in Commands : Commits(c) =>
  /\ req[c].op = "wireless" /\ at[c] = "save" /\ Same(c, req[c].name) /\ Hardware(desk.devices[req[c].name]) # {} =>
       memo[c][1].who \in Hardware(desk.devices[req[c].name])
  /\ req[c].op = "refresh" /\ at[c] = "apply" => \A ch \in memo[c][1].changes :
       ch.sure /\ Same(c, ch.name) => ch.who \in Hardware(desk.devices[ch.name])]_vars

\* A token whose client had been revoked when the request came is refused, without a
\* reload of the daemon ("takes effect on the next request", ClientStore), unless
\* two commands overlapped or two saves fell into one tick of the file's time.
RevokedIsRefused == [][\A c \in Commands :
  at[c] = "look" /\ reply'[c] = "accepted" =>
    desk.raced \/ desk.sameTick \/ req[c].token \notin {r.token : r \in memo[c][1].revoked}]_vars
=============================================================================
