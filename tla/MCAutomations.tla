--------------------------- MODULE MCAutomations ---------------------------
(***************************************************************************)
(* Instances of Automations for TLC: one phone, a rule that keeps the      *)
(* clipboard in sync while it is connected, one that wants the same and    *)
(* then greets, one that backs up and reports when its battery is low, and *)
(* one whose command its rules file does not allow.                        *)
(***************************************************************************)
EXTENDS Automations

Do(action, gated) == [action |-> action, gated |-> gated]
Condition(key, op, operands) == [key |-> key, op |-> op, operands |-> operands]

Rule(name, when, do) ==
  [name |-> name, when |-> when, device |-> AnyDevice, enabled |-> TRUE, onInitial |-> FALSE,
   conditions |-> <<>>, cooldown |-> 0, do |-> do, onError |-> <<>>, keepGoing |-> FALSE, allow |-> {}]

SyncRule == Rule("sync", "device.connected", <<Do("clipboard-sync", FALSE)>>)
GreetRule == [Rule("greet", "device.connected", <<Do("clipboard-sync", FALSE), Do("notify-phone", FALSE)>>)
  EXCEPT !.keepGoing = TRUE]
BackupRule == [Rule("backup", "battery.low", <<Do("backup", FALSE), Do("notify-phone", TRUE)>>)
  EXCEPT !.cooldown = 1, !.onError = <<Do("notify-desktop", FALSE)>>,
         !.conditions = <<Condition("level", "below", {Number(15)})>>]
ShellRule == Rule("shell", "battery.low", <<Do("run", FALSE)>>)

NoData == [k \in {} |-> None]
Connected == [type |-> "device.connected", device |-> "phone", initial |-> FALSE, data |-> NoData]
Disconnected == [Connected EXCEPT !.type = "device.disconnected"]
Low(initial) == [Connected EXCEPT !.type = "battery.low", !.initial = initial,
                 !.data = [k \in {"level"} |-> Number(10)]]

MCDevices == {"phone"}
MCBodies == {Connected, Disconnected, Low(FALSE)}
MCFiles == {<<SyncRule, GreetRule>>, <<BackupRule, ShellRule>>}
StopFiles == {<<SyncRule>>}
=============================================================================
