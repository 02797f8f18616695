----------------------------- MODULE Uninstall -----------------------------
(***************************************************************************)
(* linkplane uninstall [--purge] (src/linkplane/uninstall.py), and the     *)
(* service.uninstall it calls.  It looks for a daemon twice: first to say  *)
(* what runs, and again, once, before it removes anything.                 *)
(***************************************************************************)
EXTENDS Services

UninstallRequests == [op : {"uninstall"}, purge : BOOLEAN, force : BOOLEAN, interactive : BOOLEAN, dry : BOOLEAN]

\* A daemon is the unit's when systemd says its main process is that pid; when it
\* cannot be asked, the daemon counts as someone else's and is left alone.
Look(c) ==
  /\ Goto(c, "start", IF desk.unit.file = "none" \/ req[c].dry THEN "alive" ELSE "disable")
  /\ \E asked \in BOOLEAN : memo' = [memo EXCEPT ![c].was = Up,
        ![c].unmanaged = Up /\ (desk.unit.file = "none" \/ desk.daemon.by # "unit" \/ ~asked)]
  /\ UNCHANGED <<phone, desk>>

\* service.uninstall: disable --now, unlink, daemon-reload.  What fails is reported,
\* the rest of the unit is left, and the command goes on; a unit file that went
\* between the two looks at it is not caught.
Disable(c) ==
  /\ \/ at[c] = "disable" /\ desk.unit.file = "none"
        /\ Fail(c, "disable", "alive", "operation_failed") /\ UNCHANGED desk
     \/ at[c] = "disable" /\ desk.unit.file # "none" /\ Stopping(c, "disable", "disabling", "alive", Disabled(c))
     \/ at[c] = "disabling" /\ Stopped(c, "disabling", "unlink", "alive")
  /\ UNCHANGED <<memo, phone>>
UnlinkUnit(c) ==
  /\ IF desk.unit.file = "none" THEN Answer(c, "unlink", "raised") ELSE Goto(c, "unlink", "unload")
  /\ desk' = [desk EXCEPT !.unit.file = "none"] /\ UNCHANGED <<memo, phone>>
Unload(c) ==
  /\ \E o \in {"done", "lost"} :
       /\ Remote(c, "unload", o, IF memo[c].was /\ ~memo[c].unmanaged THEN "stopping" ELSE "alive", "alive")
       /\ memo' = [memo EXCEPT ![c].removed = Ok(o)]
  /\ UNCHANGED <<phone, desk>>
WaitStopped(c) ==
  /\ Goto(c, "stopping", "alive") \/ Answer(c, "stopping", "cancelled")
  /\ UNCHANGED <<memo, phone, desk>>

StillAlive_Managed(c) == memo[c].unmanaged  \* mutant: trusts the first look and the stop
StillAlive(c) == Up
Recheck(c) ==
  /\ Goto(c, "alive", "runtime")
  /\ memo' = [memo EXCEPT ![c].alive = StillAlive(c)] /\ UNCHANGED <<phone, desk>>

\* The socket and api.json, those that do not resist, and their directory once it is empty.
RemoveRuntime(c) ==
  /\ Goto(c, "runtime", "purge")
  /\ \/ UNCHANGED desk
     \/ /\ ~memo[c].alive /\ ~req[c].dry /\ "runtime" \in desk.roots
        /\ \E gone \in SUBSET {"runtime"} : desk' = [desk EXCEPT !.roots = @ \ gone, !.daemon = NoDaemon]
  /\ UNCHANGED <<memo, phone>>

\* Refused under a daemon, or declined.
MayPurge(c) ==
  /\ req[c].purge /\ desk.roots # {} /\ ~memo[c].alive /\ ~req[c].dry
  /\ req[c].force \/ req[c].interactive
Failing(c) == \* the steps that report an error
  req[c].purge /\ desk.roots # {} /\ (memo[c].alive \/ (~req[c].dry /\ ~req[c].force /\ ~req[c].interactive))
Purge(c) ==
  /\ \/ /\ Answer(c, "purge", IF reply[c] # Unset \/ Failing(c) THEN "failed" ELSE "removed")
        /\ (MayPurge(c) => ~req[c].force) /\ UNCHANGED memo
     \/ MayPurge(c) /\ Goto(c, "purge", "purging") /\ memo' = [memo EXCEPT ![c].left = desk.roots]
  /\ UNCHANGED <<phone, desk>>

\* remove_tree: with the root goes what is in it, the socket with "runtime".
Emptied(d, r) ==
  [d EXCEPT !.daemon = IF r = "runtime" THEN NoDaemon ELSE @,
            !.profiles = IF r = "config" THEN {} ELSE @, !.default = IF r = "config" THEN Nobody ELSE @,
            !.config = IF r = "config" THEN "none" ELSE @, !.rule = IF r = "config" THEN "none" ELSE @,
            !.client = @ /\ r # "config",
            !.lost = IF r = "config" THEN @ \cup {c \in Commands : memo[c].changed} ELSE @]

\* Root by root, in this order; one that is gone or resists, with all or nothing left
\* in it, is an error and the next one is taken.
Order == [config |-> 1, state |-> 2, runtime |-> 3]
PurgeRoot(c) ==
  /\ at[c] = "purging"
  /\ \/ Answer(c, "purging", "cancelled") /\ UNCHANGED <<memo, desk>>
     \/ \E r \in memo[c].left, removed \in BOOLEAN :
          /\ \A s \in memo[c].left : Order[r] <= Order[s]
          /\ removed => r \in desk.roots
          /\ LET failed == reply[c] # Unset \/ ~removed
                 so_far == IF failed THEN "failed" ELSE Unset
             IN IF memo[c].left = {r} THEN Answer(c, "purging", IF failed THEN "failed" ELSE "removed")
                                      ELSE Fail(c, "purging", "purging", so_far)
          /\ memo' = [memo EXCEPT ![c].left = @ \ {r}]
          /\ IF removed THEN desk' = [Emptied(desk, r) EXCEPT !.roots = @ \ {r}]
                        ELSE desk' \in {desk, Emptied(desk, r)}
  /\ UNCHANGED phone

UninstallStep(c) ==
  /\ req[c].op = "uninstall"
  /\ \/ Look(c) \/ Disable(c) \/ UnlinkUnit(c) \/ Unload(c) \/ WaitStopped(c)
     \/ Recheck(c) \/ RemoveRuntime(c) \/ Purge(c) \/ PurgeRoot(c)
=============================================================================
