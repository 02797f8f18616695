------------------------------- MODULE Rules -------------------------------
(***************************************************************************)
(* core/automation.py: the decision whether an event fires a rule.  A      *)
(* value of an event's data or of a rule's condition is [kind, n]: n tells *)
(* the values of a kind apart, and a key the event does not carry reads as *)
(* None.  Comparing a number with an operand that is not one raises        *)
(* (TypeError): the parser does not look at operands.                      *)
(***************************************************************************)
EXTENDS Integers, Sequences

Number(n) == [kind |-> "number", n |-> n]
Bool(b) == [kind |-> "bool", n |-> IF b THEN 1 ELSE 0]
Text(n) == [kind |-> "text", n |-> n]
None == [kind |-> "none", n |-> 0]

Numeric == {"number", "bool"}

\* Python's ==: True is 1, values of other kinds differ.
Same(a, b) == a.n = b.n /\ (a.kind = b.kind \/ {a.kind, b.kind} \subseteq Numeric)

Holds(b) == IF b THEN "holds" ELSE "fails"

\* A condition is [key, op, operands]; op "is" is a plain value, and only "in"
\* has more than one operand.
ConditionHolds(actual, c) ==
  LET operand == CHOOSE o \in c.operands : TRUE IN
  CASE c.op \in {"is", "in"} -> Holds(\E o \in c.operands : Same(actual, o))
    [] c.op = "not" -> Holds(~Same(actual, operand))
    [] actual.kind # "number" -> "fails"
    [] operand.kind \notin Numeric -> "raises"
    [] c.op = "below" -> Holds(actual.n < operand.n)
    [] OTHER -> Holds(actual.n > operand.n)

ValueOf(data, key) == IF key \in DOMAIN data THEN data[key] ELSE None

\* all() over the conditions in their order: the first that does not hold decides.
AllHold(conditions, data) ==
  LET result(i) == ConditionHolds(ValueOf(data, conditions[i].key), conditions[i])
      open == {i \in DOMAIN conditions : result(i) # "holds"}
  IN  IF open = {} THEN "holds" ELSE result(CHOOSE i \in open : \A j \in open : i <= j)

AnyDevice == "any"

Matches(rule, event) ==
  IF /\ rule.enabled /\ event.type = rule.when
     /\ rule.device \in {AnyDevice, event.device}
     /\ event.initial => rule.onInitial
  THEN AllHold(rule.conditions, event.data)
  ELSE "fails"

\* The elements of a sequence that are in a set, in their order: SelectSeq with a set for
\* the test.
Among(s, S) ==
  LET taken[i \in 0 .. Len(s)] ==
        IF i = 0 THEN <<>> ELSE IF s[i] \in S THEN Append(taken[i - 1], s[i]) ELSE taken[i - 1]
  IN  taken[Len(s)]

\* Privileged actions this rule uses without listing them in `allow`: such a
\* rule is set aside when the file is loaded (load_rules).
Privileged == {"run"}
Steps(rule) == {rule.do[i] : i \in DOMAIN rule.do} \union {rule.onError[i] : i \in DOMAIN rule.onError}
ActionsOf(rule) == {step.action : step \in Steps(rule)}
Blocked(rule) == (ActionsOf(rule) \cap Privileged) \ rule.allow # {}
Active(file) == Among(file, {file[i] : i \in {x \in DOMAIN file : ~Blocked(file[x])}})
=============================================================================
