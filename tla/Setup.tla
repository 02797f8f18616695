------------------------------- MODULE Setup -------------------------------
(***************************************************************************)
(* linkplane setup (src/linkplane/setup.py): one phase per step, in the    *)
(* order of _Run.run; a phase that fails ends the run "stopped".           *)
(* memo[c] holds what the run keeps: the phone, daemon_was_running,        *)
(* config_changed, whether there was no default (first), whether the unit  *)
(* is installed and was rewritten, whether a daemon is taken to be         *)
(* running; and of an uninstall: whether the daemon it found is not the    *)
(* service's, unit_removed, whether one answered at the second look        *)
(* (alive), and the roots it has yet to remove.                            *)
(***************************************************************************)
EXTENDS Services

SetupRequests == [op : {"setup"}, serial : Phones \cup {Nobody}, daemon : BOOLEAN,
                  interactive : BOOLEAN, dry : BOOLEAN, client : BOOLEAN]

Nothing == [phone |-> Nobody, was |-> FALSE, changed |-> FALSE, installed |-> FALSE,
            rewritten |-> FALSE, running |-> FALSE, unmanaged |-> FALSE, alive |-> FALSE,
            removed |-> FALSE, left |-> {}, first |-> FALSE]

Stop(c, from) == Answer(c, from, "stopped")
Keep == UNCHANGED <<memo, phone, desk>>

Preflight(c) ==
  \/ desk.config = "broken" /\ Stop(c, "start") /\ Keep
  \/ /\ desk.config # "broken" /\ Goto(c, "start", "dependencies")
     /\ memo' = [memo EXCEPT ![c].was = Up] /\ UNCHANGED <<phone, desk>>

\* Asked before a package manager is run; adb not on PATH afterwards stops too.
RequireAdb(c) ==
  \/ desk.adb /\ Goto(c, "dependencies", "detection") /\ Keep
  \/ ~desk.adb /\ Stop(c, "dependencies") /\ Keep
  \/ /\ ~desk.adb /\ req[c].interactive /\ ~req[c].dry /\ Goto(c, "dependencies", "detection")
     /\ desk' = [desk EXCEPT !.adb = TRUE] /\ UNCHANGED <<memo, phone>>

\* Waits for a phone; of several the user chooses, and it is this one from here on.
Attached(c) == {p \in Phones : phone[p] # "absent" /\ req[c].serial \in {p, Nobody}}
Detect(c) ==
  /\ \/ Attached(c) = {} /\ Stop(c, "detection") /\ UNCHANGED memo
     \/ Cardinality(Attached(c)) > 1 /\ Stop(c, "detection") /\ UNCHANGED memo
     \/ /\ Cardinality(Attached(c)) = 1 \/ req[c].interactive
        /\ Goto(c, "detection", "authorization")
        /\ \E p \in Attached(c) : memo' = [memo EXCEPT ![c].phone = p]
  /\ UNCHANGED <<phone, desk>>

Authorize(c) ==
  /\ \/ at[c] = "authorization" /\ phone[memo[c].phone] = "device" /\ Goto(c, "authorization", "registration")
     \/ at[c] = "authorization" /\ phone[memo[c].phone] # "device" /\ Stop(c, "authorization")
  /\ Keep

\* The config is read: a profile of this phone is reused, and becomes the default when
\* there is none; else the phone is paired under a name that was free then.
Register(c) ==
  /\ at[c] = "registration"
  /\ LET p == memo[c].phone IN
     \/ /\ p \in desk.profiles
        /\ Goto(c, "registration", IF desk.default = Nobody /\ ~req[c].dry THEN "selecting" ELSE "installation")
        /\ UNCHANGED memo
     \/ /\ p \notin desk.profiles /\ Goto(c, "registration", "pairing")
        /\ memo' = [memo EXCEPT ![c].first = desk.default = Nobody]
     \/ p \notin desk.profiles /\ Stop(c, "registration") /\ UNCHANGED memo
  /\ UNCHANGED <<phone, desk>>
SelectDefault(c) ==
  /\ Goto(c, "selecting", "installation")
  /\ \/ UNCHANGED desk
     \/ memo[c].phone \in desk.profiles /\ desk' = [desk EXCEPT !.default = memo[c].phone]
  /\ UNCHANGED <<memo, phone>>

\* pair_usb_device, after the user has been asked for the name: the profile is saved in
\* the config as it is by then.
Pair(c) ==
  /\ \/ Stop(c, "pairing") /\ UNCHANGED <<memo, desk>>
     \/ Goto(c, "pairing", "installation") /\ req[c].dry /\ UNCHANGED <<memo, desk>>
     \/ /\ Goto(c, "pairing", "installation") /\ ~req[c].dry
        /\ memo' = [memo EXCEPT ![c].changed = TRUE]
        /\ desk' = [desk EXCEPT !.profiles = @ \cup {memo[c].phone}, !.roots = @ \cup {"config"},
                                !.config = "readable",
                                !.default = IF memo[c].first \/ @ = Nobody THEN memo[c].phone ELSE @]
  /\ UNCHANGED phone

\* A unit that says what setup would write is left alone, enabled or not.
Untouched(c) == ~req[c].daemon \/ desk.unit.file = "current" \/ req[c].dry
Install(c) ==
  /\ \/ /\ Untouched(c) /\ Goto(c, "installation", "daemon")
        /\ memo' = [memo EXCEPT ![c].installed = req[c].daemon /\ desk.unit.file = "current"]
        /\ UNCHANGED desk
     \/ /\ ~Untouched(c) /\ Goto(c, "installation", "reload")
        /\ memo' = [memo EXCEPT ![c].rewritten = desk.unit.file = "other"]
        /\ desk' = [desk EXCEPT !.unit.file = "current"]
  /\ UNCHANGED phone
InstallReload(c) == Systemctl(c, "reload", "enable", "failed", {desk}) /\ UNCHANGED <<memo, phone>>
InstallEnable(c) ==
  /\ Systemctl(c, "enable", "daemon", "failed", Enabled)
  /\ memo' = [memo EXCEPT ![c].installed = TRUE] /\ UNCHANGED phone
Failed(c) == Stop(c, "failed") /\ Keep

\* What makes a daemon that answers be restarted.
NeedsRestart_VersionOnly(c) == desk.daemon.version # "new" \/ memo[c].rewritten  \* mutant: not for a new profile
NeedsRestart(c) == desk.daemon.version # "new" \/ (memo[c].changed /\ memo[c].was) \/ memo[c].rewritten
Judge(c, from) ==
  LET again == NeedsRestart(c) /\ memo[c].installed /\ ~req[c].dry
  IN /\ Up /\ Goto(c, from, IF again THEN "restart" ELSE "observe")
     /\ memo' = [memo EXCEPT ![c].running = ~again]

DaemonStatus(c) ==
  /\ \/ Judge(c, "daemon")
     \/ /\ ~Up /\ UNCHANGED memo
        /\ Goto(c, "daemon", IF memo[c].installed /\ ~req[c].dry THEN "starting" ELSE "observe")
  /\ UNCHANGED <<phone, desk>>
StartDaemon(c) == Systemctl(c, "starting", "awaiting", "failed", Starting(desk)) /\ UNCHANGED <<memo, phone>>
AwaitDaemon(c) ==
  /\ Judge(c, "awaiting") \/ (~Up /\ Stop(c, "awaiting") /\ UNCHANGED memo)
  /\ UNCHANGED <<phone, desk>>
RestartDaemon(c) ==
  /\ \/ at[c] = "restart" /\ Stopping(c, "restart", "restarting", "failed", Restarted(c))
     \/ at[c] = "restarting" /\ Stopped(c, "restarting", "awaiting_version", "failed")
  /\ UNCHANGED <<memo, phone>>
AwaitVersion(c) ==
  /\ \/ /\ desk.daemon.by # "none" /\ desk.daemon.version = "new"
        /\ Goto(c, "awaiting_version", "observe") /\ memo' = [memo EXCEPT ![c].running = TRUE]
     \/ /\ ~(Up /\ desk.daemon.version = "new")
        /\ Stop(c, "awaiting_version") /\ UNCHANGED memo
  /\ UNCHANGED <<phone, desk>>

\* The daemon must list the phone as connected; then ping, status and battery.
ObserveDevice(c) ==
  /\ \/ Goto(c, "observe", "first_use") /\ (memo[c].running => Up)
     \/ memo[c].running /\ Stop(c, "observe")
  /\ Keep
FirstUse(c) ==
  /\ \/ at[c] = "first_use" /\ phone[memo[c].phone] = "device" /\ Goto(c, "first_use", "backup")
     \/ Stop(c, "first_use")
  /\ Keep

\* Asked once, on the run that registers the phone; a daemon that runs is made to
\* read the rule, by a restart (which nothing waits for here but the command itself) or
\* over the socket, and whether it did stops nothing.
OfferBackup(c) ==
  /\ \/ Goto(c, "backup", "client") /\ UNCHANGED desk
     \/ /\ desk.rule = "none" /\ memo[c].changed /\ req[c].interactive
        /\ Goto(c, "backup", IF memo[c].running /\ memo[c].installed THEN "backup_restart" ELSE "client")
        /\ desk' = [desk EXCEPT !.rule = "on", !.roots = @ \cup {"config"}]
  /\ UNCHANGED <<memo, phone>>
BackupRestart(c) ==
  /\ Goto(c, "backup_restart", "client")
  /\ desk' \in {desk, Restarted(c)} /\ UNCHANGED <<memo, phone>>

CreateClient(c) ==
  /\ \/ Answer(c, "client", "ready")
     \/ req[c].client /\ Stop(c, "client")
  /\ desk' = [desk EXCEPT !.client = @ \/ (req[c].client /\ ~req[c].dry /\ reply'[c] = "ready")]
  /\ UNCHANGED <<memo, phone>>

SetupStep(c) ==
  /\ req[c].op = "setup"
  /\ \/ Preflight(c) \/ RequireAdb(c) \/ Detect(c) \/ Authorize(c)
     \/ Register(c) \/ SelectDefault(c) \/ Pair(c)
     \/ Install(c) \/ InstallReload(c) \/ InstallEnable(c) \/ Failed(c)
     \/ DaemonStatus(c) \/ StartDaemon(c) \/ AwaitDaemon(c) \/ RestartDaemon(c) \/ AwaitVersion(c)
     \/ ObserveDevice(c) \/ FirstUse(c) \/ OfferBackup(c) \/ BackupRestart(c) \/ CreateClient(c)
=============================================================================
