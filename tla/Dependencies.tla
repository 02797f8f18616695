---------------------------- MODULE Dependencies ----------------------------
(***************************************************************************)
(* src/linkplane/dependencies.py: what this computer would have to run to  *)
(* get a program it lacks, and the two ways in which a command does so.  A *)
(* host is a record: the executables that can be found, among them the     *)
(* package managers and sudo, and whether the user is root; a kernel       *)
(* module counts as found when it is loaded.  desk.ran are the commands    *)
(* that have run the package manager.                                      *)
(***************************************************************************)
EXTENDS Commands, SequencesExt

Managers == <<"pacman", "apt-get", "dnf", "brew">>  \* in order of preference
Privileged(m) == m # "brew"

\* The managers that have no package for a program.
Unpackaged(program) ==
  CASE program \in {"adb", "ssh"} -> {}
    [] program = "scrcpy" -> {"dnf"}
    [] program = "v4l2loopback" -> {"dnf", "brew"}
    [] program \in {"localsend-cli", "systemctl"} -> ToSet(Managers)
    [] OTHER -> {"brew"}

SelectedManager(host) ==
  LET present == {i \in DOMAIN Managers : Managers[i] \in host.found}
  IN IF present = {} THEN "none" ELSE Managers[Min(present)]

\* dependency_plan: install_command is how to run the package manager, or "none".
InstallCommand(host, program) ==
  LET m == SelectedManager(host) IN
  IF m = "none" \/ m \in Unpackaged(program) THEN "none"
  ELSE IF ~Privileged(m) \/ host.root THEN "plain"
  ELSE IF "sudo" \in host.found THEN "sudo" ELSE "none"

Plan(host, program) ==
  [program |-> program,
   available |-> program \in host.found,
   install |-> InstallCommand(host, program)]

\* install_dependency runs the package manager and raises when there is no command,
\* when it does not start or fails, and when the program cannot be found afterwards;
\* v4l2loopback never can, being no program.
Tries(c, plan) ==
  desk' \in {desk} \union IF plan.install = "none" THEN {} ELSE {[desk EXCEPT !.ran = @ \union {c}]}

Install(c, plan, from, to, away) ==
  \/ Fail(c, from, away, "dependency_missing") /\ Tries(c, plan)
  \/ /\ plan.install # "none" /\ plan.program # "v4l2loopback"
     /\ Goto(c, from, to)
     /\ desk' = [desk EXCEPT !.host.found = @ \union {plan.program}, !.ran = @ \union {c}]

\* require_dependency uses the plan it is given, which may be out of date.
Require(c, plan, from, to, away) ==
  \/ plan.available /\ Goto(c, from, to) /\ UNCHANGED desk
  \/ ~plan.available /\ req[c].install /\ Install(c, plan, from, to, away)
  \/ ~plan.available /\ ~req[c].install /\ Fail(c, from, away, "dependency_missing") /\ UNCHANGED desk

\* ensure_scrcpy and ensure_v4l2loopback make a plan of their own, and ask.
Agreed(c) == req[c].install \/ req[c].answer = "yes"
Ensure(c, program, from, to, declined) ==
  LET plan == Plan(desk.host, program) IN
  \/ plan.available /\ Goto(c, from, to) /\ UNCHANGED desk
  \/ ~plan.available /\ ~Agreed(c) /\ Answer(c, from, declined) /\ UNCHANGED desk
  \/ ~plan.available /\ Agreed(c) /\ Install(c, plan, from, to, "end")
=============================================================================
