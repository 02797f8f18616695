---------------------------- MODULE Installation ----------------------------
(***************************************************************************)
(* Setups and uninstalls of one user, one after the other or in two        *)
(* terminals, while the daemon, the phone and systemd go their way.        *)
(***************************************************************************)
EXTENDS Setup, Uninstall

\* What systemd, the daemon and the requests may be found to be.
Found == \A w \in Worlds :
  /\ DOMAIN w.unit = {"file", "enabled", "wanted"}
  /\ DOMAIN w.daemon = DOMAIN NoDaemon /\ w.daemon.by \in Owners \cup {"none"}
  /\ \A c \in Commands : w.plan[c] \in SetupRequests \cup UninstallRequests
ASSUME InstallationAssumption == Found

Init ==
  /\ at = [c \in Commands |-> "start"]
  /\ reply = [c \in Commands |-> Unset]
  /\ memo = [c \in Commands |-> Nothing]
  /\ \E w \in Worlds :
       /\ req = w.plan /\ phone = w.lines
       /\ desk = [unit |-> w.unit, daemon |-> w.daemon, since |-> {}, profiles |-> w.profiles,
                  process |-> [k \in Owners |-> IF k = w.daemon.by THEN "runs" ELSE "none"],
                  default |-> Nobody, config |-> w.config, rule |-> "none", client |-> FALSE,
                  roots |-> w.roots, adb |-> w.adb, moves |-> w.moves, cables |-> w.cables,
                  lost |-> {}]

Next ==
  \/ \E c \in Commands : SetupStep(c) \/ UninstallStep(c)
  \/ UnitStarts \/ DaemonGoesOn \/ Interference \/ Replug

Spec == Init /\ [][Next]_vars

(***************************************************************************)
(* Properties                                                              *)
(***************************************************************************)
\* The setup that registers a phone and installs the service goes on to verify it
\* with a daemon of this version that has read the phone's profile, so that rules
\* and the backup it offers name the phone as the daemon does; unless the daemon is
\* one outside the service, or was started while that setup had yet to register the
\* phone, or an uninstall has removed the profile since.
ReadyDaemonServes == [][\A c \in Commands :
  /\ at'[c] = "observe" /\ at[c] # "observe" /\ memo'[c].running
  /\ memo[c].changed /\ memo[c].installed
  /\ desk.daemon.by = "unit" /\ c \notin desk.daemon.during
  /\ c \notin desk.lost
  => memo[c].phone \in desk.daemon.knows /\ desk.daemon.version = "new"]_vars

\* "Refusing to remove its state underneath it" (uninstall.py).  An uninstall that
\* removes the configuration, the state or the runtime files, or unlinks the socket,
\* does so beneath no daemon that answers, unless that one was started after the
\* uninstall looked for one; and, if its stop of the service reported no error, beneath
\* no process of the unit, whether it answers or not, unless that one was started after
\* systemd was asked for the stop.  It does not see the other daemons that answer no
\* more: the user's that is ending, one whose socket went, the unit's after an error.
Strips(c) ==
  /\ at'[c] # at[c] \/ memo'[c] # memo[c]
  /\ ~(desk.roots \subseteq desk'.roots) \/ (Up /\ desk'.daemon = NoDaemon)
NothingRemovedBeneath == [][\A c \in Commands : Strips(c) =>
  /\ ~Up \/ c \in desk.daemon.during
  /\ memo[c].removed => ~Alive("unit") \/ c \in desk.since]_vars

\* What the guide promises of a finished setup: "unit enabled and survives a restart".
ReadyIsEnabled == \A c \in Commands :
  /\ at[c] = "client" /\ memo[c].installed
  /\ \A d \in Commands \ {c} : at[d] \in {"start", "end"}
  => desk.unit.enabled
=============================================================================
