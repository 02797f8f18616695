------------------------------- MODULE MCApi -------------------------------
(***************************************************************************)
(* Three requests: two actions, which may be duplicates, and one that may  *)
(* cancel the first; or one action of each kind, beside faulty requests.   *)
(***************************************************************************)
EXTENDS Api

CONSTANTS a1, a2, x, j0, none
MCAsks == {a1, a2, x}
MCKeys == {"backup.photos", "clipboard.sync"}

Phone == [serial |-> "s1", ssh |-> TRUE]
Targets == [serial : {"s1", none}, ssh : BOOLEAN]
Action(action, target, faults) == [kind |-> "action", action |-> action, target |-> target, faults |-> faults]
Cancel(job, faults) == [kind |-> "cancel", job |-> job, faults |-> faults]
Plan(asks, rules, wires) == [asks |-> asks, rules |-> rules, wires |-> wires]

AllFaults == {check[1] : check \in ToSet(HeaderChecks \o ActionChecks)}
Backup == Action("backup.photos", Phone, {})

Wire(adb, phones, tools) == [adb |-> adb, phones |-> phones, up |-> tools # {}, tools |-> tools, scrcpy |-> FALSE]
Is(s, how) == [serial |-> s, state |-> how]
Good == Wire(TRUE, {Is("s1", "device")}, {"clipboard-get", "clipboard-set"})
Refusing == Wire(TRUE, {Is("s1", "unauthorized")}, {})
Phones == [serial : {"s1"}, state : {"device", "unauthorized"}]
          \union [serial : {"s2"}, state : {"device", "no permissions", "offline"}]
Wires ==
  {Wire(TRUE, ps, tools) : ps \in {s \in SUBSET Phones : Cardinality(s) <= 2 /\ \A p, q \in s : p.serial = q.serial => p = q},
     tools \in {{}, {"clipboard-get", "notification"}, {"clipboard-get", "clipboard-set"}}}
  \union {Wire(FALSE, {}, {})}

MCPlans ==
  {Plan(a1 :> Backup @@ a2 :> Backup @@ x :> Cancel(a1, {}), {}, {Good}),
   Plan(a1 :> Backup @@ x :> Cancel(j0, {}), {<<j0, "backup.photos">>}, {Good}),
   Plan(x :> Cancel(a1, {"has_body"}), {}, {Good})}
  \union {Plan(a1 :> Action(a, t, {}), {}, Wires) : a \in DOMAIN Specs, t \in Targets}
  \union {Plan(a1 :> Action("notify.post", Phone, {f, g}), {}, {Refusing}) : f \in AllFaults, g \in AllFaults}
=============================================================================
