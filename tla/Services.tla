------------------------------ MODULE Services ------------------------------
(***************************************************************************)
(* The computer as setup and uninstall find it: the systemd --user unit    *)
(* (service.py), the daemon that answers on the socket, and the files.     *)
(*                                                                         *)
(* desk.unit    file: none, current (its ExecStart is the one setup would  *)
(*              write) or other; enabled; wanted: systemd runs it, or will *)
(*              again after a failure (Restart=on-failure)                 *)
(* desk.process what became of the unit's daemon and of the user's: none,  *)
(*              runs, told (to stop, and it still answers), closing (it    *)
(*              answers no more, its socket is yet to be unlinked) or      *)
(*              leaving (its jobs end and write their records)             *)
(* desk.daemon  by: whose daemon answers on the socket; its version; the   *)
(*              profiles it read when it started; during: the commands     *)
(*              that had looked for a daemon before it started             *)
(* desk.since   the commands that had begun when the unit's daemon last    *)
(*              started, less those that have told it to stop since        *)
(* desk.profiles, default, config, rule, client, roots, adb: the files     *)
(* desk.lost    the setups whose new profile an uninstall has removed       *)
(* desk.moves   how often the user or a crash may still interfere, and     *)
(* desk.cables  how often a cable or a tap on a phone (bounds)             *)
(* phone[p]     what adb devices says of phone p                           *)
(***************************************************************************)
EXTENDS Commands

CONSTANTS Phones, Nobody

Roots == {"config", "state", "runtime"}

Owners == {"unit", "user"}

\* daemon_status: a daemon answers on the socket.
Up == desk.daemon.by # "none"
NoDaemon == [by |-> "none", version |-> "old", knows |-> {}, during |-> {}]
Alive(k) == desk.process[k] # "none"

\* Between a command's look for a daemon and what it does on the strength of it.
Looked(c) == at[c] \in {"dependencies", "detection", "authorization", "registration", "pairing",
                        "runtime", "purge", "purging"}

\* run() of the daemon, once _claim_socket finds no other; it remakes its directories.
Runs(by, version) ==
  [desk EXCEPT !.process[by] = "runs", !.roots = @ \cup {"state", "runtime"},
               !.daemon = [by |-> by, version |-> version, knows |-> desk.profiles,
                           during |-> {c \in Commands : Looked(c)}],
               !.since = IF by = "unit" THEN {c \in Commands : at[c] # "start"} ELSE @]

\* systemd runs one process of the unit at a time.
UnitStarts ==
  /\ desk.unit.wanted /\ ~Up /\ ~Alive("unit") /\ desk.config # "broken"
  /\ desk' = Runs("unit", IF desk.unit.file = "current" THEN "new" ELSE "old")
  /\ UNCHANGED <<req, at, reply, memo, phone>>

\* The user runs a daemon (one at a time: a bound), tells one to stop (a clean exit:
\* systemd leaves it), or one dies, its socket left behind.
UserRuns ==
  /\ ~Up /\ ~Alive("user") /\ desk.config # "broken"
  /\ desk' = [Runs("user", "new") EXCEPT !.moves = @ - 1]
UserStops == \E k \in Owners :
  /\ desk.process[k] = "runs"
  /\ desk' = [desk EXCEPT !.process[k] = "told", !.unit.wanted = @ /\ k # "unit", !.moves = @ - 1]
Silent(k) == IF desk.daemon.by = k THEN NoDaemon ELSE desk.daemon
Dies == \E k \in Owners :
  /\ Alive(k)
  /\ desk' = [desk EXCEPT !.process[k] = "none", !.daemon = Silent(k), !.moves = @ - 1]

Interference ==
  /\ desk.moves > 0
  /\ UserRuns \/ UserStops \/ Dies
  /\ UNCHANGED <<req, at, reply, memo, phone>>

\* The end of run(): the servers are closed; the socket there is, whosever it is by
\* now, is unlinked; then the rules and jobs end, for as long as they take.  A daemon
\* that lives makes the state directory again to write its snapshot or a job record.
Closes(k) ==
  /\ desk.process[k] = "told"
  /\ desk' = [desk EXCEPT !.process[k] = "closing", !.daemon = Silent(k)]
Unlinks(k) ==
  /\ desk.process[k] = "closing"
  /\ desk' = [desk EXCEPT !.process[k] = "leaving", !.daemon = NoDaemon, !.roots = @ \cup {"state"}]
Leaves(k) ==
  /\ desk.process[k] = "leaving"
  /\ desk' = [desk EXCEPT !.process[k] = "none"]
Writes(k) ==
  /\ Alive(k) /\ "state" \notin desk.roots
  /\ desk' = [desk EXCEPT !.roots = @ \cup {"state"}]
DaemonGoesOn == \E k \in Owners :
  /\ Closes(k) \/ Unlinks(k) \/ Leaves(k) \/ Writes(k)
  /\ UNCHANGED <<req, at, reply, memo, phone>>

\* The cable goes in or out, the user taps Allow.
Replug == \E p \in Phones, line \in {"absent", "unauthorized", "offline", "no permissions", "device"} :
  /\ desk.cables > 0 /\ phone[p] # line
  /\ phone' = [phone EXCEPT ![p] = line]
  /\ desk' = [desk EXCEPT !.cables = @ - 1]
  /\ UNCHANGED <<req, at, reply, memo>>

\* systemctl start, alone or for enable --now.  It does nothing to a unit that is still
\* active, as it is while a daemon the user has told to stop ends.
Starting(d) == {[d EXCEPT !.unit.wanted = TRUE]} \cup (IF Alive("unit") THEN {d} ELSE {})
Enabled == Starting([desk EXCEPT !.unit.enabled = TRUE])

Systemctl(c, from, to, else, after) == \E o \in Outcomes :
  /\ Remote(c, from, o, to, else)
  /\ desk' \in (IF Happened(o) THEN after ELSE {desk})

\* A call that stops the unit's daemon: systemd tells the daemon, and the call returns
\* once that one has ended (another may have started since), or with an error, after
\* 30 s at the latest, while it may still be ending.
Told(c, enabled, wanted) ==
  [desk EXCEPT !.unit.enabled = enabled, !.unit.wanted = wanted, !.since = @ \ {c},
               !.process["unit"] = IF @ = "runs" THEN "told" ELSE @]
Disabled(c) == Told(c, FALSE, FALSE)
Restarted(c) == Told(c, desk.unit.enabled, TRUE)
Ended(c) == ~Alive("unit") \/ c \in desk.since
Stopping(c, from, to, else, after) ==
  \/ Goto(c, from, to) /\ desk' = after
  \/ Fail(c, from, else, "operation_failed") /\ UNCHANGED desk
Stopped(c, from, to, else) ==
  /\ (Ended(c) /\ Goto(c, from, to)) \/ Fail(c, from, else, "operation_failed")
  /\ UNCHANGED desk
=============================================================================
