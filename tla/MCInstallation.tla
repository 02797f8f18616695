--------------------------- MODULE MCInstallation ---------------------------
(***************************************************************************)
(* Two commands and two phones: a setup after or beside a setup, and an    *)
(* uninstall beside a setup, from what a first or an upgraded installation *)
(* finds.                                                                  *)
(***************************************************************************)
EXTENDS Installation

CONSTANTS c1, c2, pixel, galaxy, nobody
MCCommands == {c1, c2}
MCPhones == {pixel, galaxy}

Absent == [by |-> "none", version |-> "old", knows |-> {}, during |-> {}]
Fresh == [file : {"none"}, enabled : {FALSE}, wanted : {FALSE}]
Held == [file : {"current", "other"}, enabled : {TRUE}, wanted : {TRUE}]
Current == {u \in Held : u.file = "current"}

Wide == {r \in SetupRequests : /\ r.serial = (IF r.client THEN nobody ELSE pixel)
                               /\ (r.client => r.interactive) /\ (r.dry => r.daemon)}
Plain == {r \in SetupRequests : r.serial = pixel /\ r.daemon /\ r.interactive /\ ~r.dry /\ ~r.client}
Uninstalls == {r \in UninstallRequests : ~r.force /\ (r.interactive => r.purge /\ ~r.dry) /\ (r.dry => r.purge)}
Purging == {r \in UninstallRequests : r.purge /\ r.force /\ ~r.dry /\ ~r.interactive}

Plans(R, S) == {[c \in MCCommands |-> IF c = c1 THEN r ELSE s] : r \in R, s \in S}

Worlds1(plans, units, daemons, roots, others, moves) ==
  [plan : plans, lines : {[x \in MCPhones |-> IF x = pixel THEN "device" ELSE "absent"]},
   unit : units, daemon : daemons, profiles : others, config : {"readable"}, roots : {roots}, adb : {TRUE},
   moves : {moves}, cables : {0}]

NewServed == [Absent EXCEPT !.by = "unit", !.version = "new"]
OldServed == [Absent EXCEPT !.by = "unit"]

MCWorlds ==
  Worlds1(Plans(Plain, Plain), Fresh, {Absent}, {}, {{}, {galaxy}}, 1)
  \cup Worlds1(Plans(Wide, Plain), Held, {NewServed}, Roots, {{}}, 1)
  \cup Worlds1(Plans(Plain, Purging), Current, {OldServed}, Roots, {{galaxy}}, 0)
  \cup Worlds1(Plans(Uninstalls, Plain), Current, {NewServed}, Roots, {{}}, 1)
  \cup Worlds1(Plans(Purging, Purging), Current, {NewServed, OldServed}, Roots, {{galaxy}}, 1)
  \cup [plan : Plans(Wide, Purging), lines : {[x \in MCPhones |-> "no permissions"]}, unit : Fresh, daemon : {Absent},
        profiles : {{}}, config : {"none", "broken"}, roots : {{}}, adb : {FALSE}, moves : {0}, cables : {1}]

\* Two setups, the second after the first, and nothing else.
RerunWorlds ==
  [plan : Plans(Plain, Plain), lines : {[x \in MCPhones |-> IF x = pixel THEN "device" ELSE "absent"]},
   unit : Fresh, daemon : {Absent}, profiles : {{}}, config : {"none"}, roots : {{}}, adb : {TRUE},
   moves : {0}, cables : {0}]
=============================================================================
