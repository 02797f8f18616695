-------------------------- MODULE MCConfiguration --------------------------
(***************************************************************************)
(* Two commands on the profiles of two phones that move between two        *)
(* addresses, and three on the clients and the rules.                      *)
(***************************************************************************)
EXTENDS Configuration, TLC

CONSTANTS c1, c2, c3, home, work, p1, p2, a1, a2
MCCommands == {c1, c2, c3}

Nothing == [op |-> "none"]
Plan(q, r, s) == (c1 :> q) @@ (c2 :> r) @@ (c3 :> s)
Plans2(R, S) == {Plan(r, s, Nothing) : r \in R, s \in S}

One == home :> [id |-> p1, adb |-> {p1, a1}, ssh |-> a1]
Two == One @@ (work :> [id |-> p2, adb |-> {p2, a2}, ssh |-> a2])
ByHand == home :> [id |-> p1, adb |-> {}, ssh |-> a1]

Saving == {r \in PairRequests : ~r.dry /\ ~r.default}
Simple == {r \in Saving : r.name = home /\ (r.op = "ssh" => ~r.explicit)} \union {r \in ProfileRequests : r.op = "remove"}
Home == {r \in ProfileRequests : r.op = "refresh" /\ ~r.dry /\ r.scan /\ r.names # {work}}
Select == {r \in ProfileRequests : r.op = "default"}

Still == (p1 :> a1) @@ (p2 :> a2)
Moved == (p1 :> a2) @@ (p2 :> None)
Profile(plans, devices, roams, addr) ==
  [plan : plans, devices : devices, roams : roams, addr : {addr}, clients : {{}}, ticks : {1}]
Old == {[id |-> "tool", token |-> c3]}
Creates == {r \in RecordRequests : r.op \in {"create", "revoke"}}
Asks == {r \in RecordRequests : r.op = "request" /\ r.token = c3}

MCWorlds ==
  Profile(Plans2(PairRequests \union ProfileRequests, Select), {<<>>, Two}, {1}, Still)
  \union Profile(Plans2(Saving, Simple), {<<>>, One, ByHand}, {0}, Still)
  \union Profile(Plans2(Home, Simple), {One, Two}, {2}, Still)
  \union Profile(Plans2(Home, {Nothing}), {One, Two}, {3}, Moved)
  \union [plan : {Plan(q, r, s) : q \in Creates, r \in Creates \union Asks, s \in Asks},
          devices : {<<>>}, roams : {0}, addr : {Still}, clients : {Old}, ticks : {2}]
  \union [plan : {Plan(q, r, s) : q, s \in {x \in RecordRequests : x.op = "enable" /\ ~x.dry},
                  r \in {x \in RecordRequests : x.op \in {"enable", "disable"}}},
          devices : {<<>>}, roams : {0}, addr : {Still}, clients : {{}}, ticks : {1}]
=============================================================================
