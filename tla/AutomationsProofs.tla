------------------------- MODULE AutomationsProofs -------------------------
(***************************************************************************)
(* Proofs about Automations, for any devices, events, rules files, pool    *)
(* and queue sizes, number of workers and reloading threads.               *)
(*                                                                         *)
(* Shape types the state, and says that events wait in the order of their  *)
(* ids and that each list of rules in use comes from a file.  On it stand  *)
(*   Quiet: a job that runs belongs to a worker that waits for it;         *)
(*   Timed: a selected firing is not later than its rule's last time, and  *)
(*     events still to be selected for come after those already done;      *)
(*   Accounts: a selected firing is in one place, and what was not         *)
(*     selected to run is in none.                                         *)
(***************************************************************************)
EXTENDS Automations, FiniteSetTheorems, SequenceTheorems, WellFoundedInduction, TLAPS

(***************************************************************************)
(* The elements of a sequence that are in a set                            *)
(***************************************************************************)
\* A set of numbers that is not empty has a least one: the induction of this module.
LEMMA Least == ASSUME NEW N \in SUBSET Nat, N # {} PROVE \E x \in N : \A y \in N : x <= y
<1> DEFINE R == {ss \in Nat \X Nat : ss[1] < ss[2]}
<1>1. IsWellFoundedOn(R, Nat)
  BY NatLessThanWellFounded DEF OpToRel
<1> HIDE DEF R
<1>2. PICK x \in N : \A y \in N : <<y, x>> \notin R
  BY <1>1, WFMin
<1>3. ASSUME NEW y \in N PROVE x <= y
  <2>1. x \in Nat /\ y \in Nat
    OBVIOUS
  <2>2. y < x => <<y, x>> \in R
    BY <2>1 DEF R
  <2> QED
    BY <1>2, <2>1, <2>2
<1> QED
  BY <1>3

Takes(s, S, n, f) ==
  f = [i \in 0 .. n |->
         IF i = 0 THEN <<>> ELSE IF s[i] \in S THEN Append(f[i - 1], s[i]) ELSE f[i - 1]]

LEMMA SomeTaken == ASSUME NEW s, NEW S, NEW len \in Nat PROVE \E f : Takes(s, S, len, f)
<1> DEFINE N == {n \in 0 .. len : ~ \E f : Takes(s, S, n, f)}
<1>1. CASE N = {}
  <2>1. len \in 0 .. len
    OBVIOUS
  <2>2. \A n \in 0 .. len : \E f : Takes(s, S, n, f)
    BY <1>1
  <2> QED
    BY <2>1, <2>2
<1>2. CASE N # {}
  <2> N \in SUBSET Nat
    OBVIOUS
  <2>1. PICK n \in N : \A m \in N : n <= m
    <3> HIDE DEF N
    <3> QED
      BY <1>2, Least
  <2>2. n \in Nat /\ ~ \E f : Takes(s, S, n, f)
    OBVIOUS
  <2>3. n # 0
    <3> DEFINE e == [i \in 0 .. 0 |-> <<>>]
    <3>1. Takes(s, S, 0, e)
      BY DEF Takes
    <3> QED
      BY <2>2, <3>1
  <2>4. PICK g : Takes(s, S, n - 1, g)
    <3>1. n - 1 \in 0 .. len /\ n - 1 \notin N
      BY <2>1, <2>2, <2>3
    <3> QED
      BY <3>1
  <2> DEFINE f == [i \in 0 .. n |->
                     IF i < n THEN g[i] ELSE IF s[n] \in S THEN Append(g[n - 1], s[n]) ELSE g[n - 1]]
  <2>5. Takes(s, S, n, f)
    <3>1. \A i \in 0 .. n - 1 : g[i] = IF i = 0 THEN <<>> ELSE IF s[i] \in S THEN Append(g[i - 1], s[i]) ELSE g[i - 1]
      BY <2>4 DEF Takes
    <3>2. ASSUME NEW i \in 0 .. n
          PROVE  f[i] = IF i = 0 THEN <<>> ELSE IF s[i] \in S THEN Append(f[i - 1], s[i]) ELSE f[i - 1]
      <4>1. i # 0 => f[i - 1] = g[i - 1]
        BY <2>2
      <4> QED
        BY <2>2, <2>3, <3>1, <4>1
    <3> HIDE DEF f
    <3>3. f = [i \in 0 .. n |-> f[i]]
      BY DEF f
    <3> QED
      BY <3>2, <3>3 DEF Takes
  <2> QED
    BY <2>2, <2>5
<1> QED
  BY <1>1, <1>2

LEMMA AmongTakes ==
  ASSUME NEW T, NEW s \in Seq(T), NEW S
  PROVE  \E f : Takes(s, S, Len(s), f) /\ Among(s, S) = f[Len(s)]
<1> DEFINE taken == CHOOSE f : Takes(s, S, Len(s), f)
<1>1. Takes(s, S, Len(s), taken)
  BY SomeTaken
<1>2. Among(s, S) = taken[Len(s)]
  BY DEF Among, Takes
<1> QED
  BY <1>1, <1>2

Distinct(s) == \A i, j \in DOMAIN s : s[i] = s[j] => i = j

LEMMA AmongIs ==
  ASSUME NEW T, NEW s \in Seq(T), NEW S
  PROVE  /\ Among(s, S) \in Seq(T)
         /\ \A i \in DOMAIN Among(s, S) : Among(s, S)[i] \in S /\ \E k \in DOMAIN s : s[k] = Among(s, S)[i]
         /\ \A k \in DOMAIN s : s[k] \in S => \E i \in DOMAIN Among(s, S) : Among(s, S)[i] = s[k]
         /\ Distinct(s) => Distinct(Among(s, S))
<1>1. PICK f : Takes(s, S, Len(s), f) /\ Among(s, S) = f[Len(s)]
  BY AmongTakes
<1> DEFINE Right(n) ==
      /\ f[n] \in Seq(T)
      /\ \A i \in DOMAIN f[n] : f[n][i] \in S /\ \E k \in 1 .. n : s[k] = f[n][i]
      /\ \A k \in 1 .. n : s[k] \in S => \E i \in DOMAIN f[n] : f[n][i] = s[k]
      /\ Distinct(s) => Distinct(f[n])
<1>2. f[0] = <<>> /\ \A n \in 1 .. Len(s) : f[n] = IF s[n] \in S THEN Append(f[n - 1], s[n]) ELSE f[n - 1]
  <2> DEFINE len == Len(s)
  <2>1. len \in Nat /\ Takes(s, S, len, f)
    BY <1>1
  <2> HIDE DEF len
  <2>2. \A n \in 0 .. len : f[n] = IF n = 0 THEN <<>> ELSE IF s[n] \in S THEN Append(f[n - 1], s[n]) ELSE f[n - 1]
    BY <2>1 DEF Takes
  <2>3. 0 \in 0 .. len /\ \A n \in 1 .. len : n \in 0 .. len /\ n # 0
    BY <2>1
  <2>4. f[0] = <<>> /\ \A n \in 1 .. len : f[n] = IF s[n] \in S THEN Append(f[n - 1], s[n]) ELSE f[n - 1]
    BY <2>2, <2>3
  <2> QED
    BY <2>4 DEF len
<1>3. ASSUME NEW n \in 1 .. Len(s), Right(n - 1) PROVE Right(n)
  <2>1. s[n] \in T /\ n - 1 \in Nat /\ 1 .. n = (1 .. n - 1) \union {n}
    OBVIOUS
  <2>2. CASE s[n] \notin S
    BY <1>2, <1>3, <2>1, <2>2
  <2>3. CASE s[n] \in S
    <3> DEFINE g == f[n - 1]
               h == Append(g, s[n])
    <3>1. f[n] = h /\ g \in Seq(T)
      BY <1>2, <1>3, <2>3
    <3>2. /\ h \in Seq(T) /\ DOMAIN g = 1 .. Len(g) /\ DOMAIN h = 1 .. Len(g) + 1 /\ Len(g) \in Nat
          /\ h[Len(g) + 1] = s[n] /\ \A i \in 1 .. Len(g) : h[i] = g[i]
      BY <2>1, <3>1
    <3> HIDE DEF g, h
    <3>3. \A i \in DOMAIN g : g[i] \in S /\ \E k \in 1 .. n - 1 : s[k] = g[i]
      BY <1>3 DEF g
    <3>4. \A i \in DOMAIN h : h[i] \in S /\ \E k \in 1 .. n : s[k] = h[i]
      BY <2>1, <2>3, <3>2, <3>3
    <3>5. \A k \in 1 .. n : s[k] \in S => \E i \in DOMAIN h : h[i] = s[k]
      <4>1. \A k \in 1 .. n - 1 : s[k] \in S => \E i \in DOMAIN g : g[i] = s[k]
        BY <1>3 DEF g
      <4> QED
        BY <2>1, <3>2, <4>1
    <3>6. Distinct(s) => Distinct(h)
      <4> SUFFICES ASSUME Distinct(s) PROVE Distinct(h)
        OBVIOUS
      <4>1. Distinct(g)
        BY <1>3 DEF g
      <4>2. \A i \in DOMAIN g : g[i] # s[n]
        BY <2>1, <3>3 DEF Distinct
      <4> QED
        BY <3>2, <4>1, <4>2 DEF Distinct
    <3> QED
      BY <3>1, <3>2, <3>4, <3>5, <3>6
  <2> QED
    BY <2>2, <2>3
<1>4. Right(0)
  <2>1. f[0] = <<>>
    BY <1>2
  <2> QED
    BY <2>1 DEF Distinct
<1>5. \A n \in 0 .. Len(s) : Right(n)
  <2> HIDE DEF Right
  <2> DEFINE N == {n \in 0 .. Len(s) : ~Right(n)}
  <2>1. CASE N # {}
    <3>0. N \in SUBSET Nat
      OBVIOUS
    <3>1. PICK n \in N : \A m \in N : n <= m
      <4> HIDE DEF N
      <4> QED
        BY <2>1, <3>0, Least
    <3>2. n \in 0 .. Len(s) /\ ~Right(n)
      OBVIOUS
    <3>4. n \in 1 .. Len(s) /\ n - 1 \in 0 .. Len(s)
      <4>1. n # 0
        BY <1>4, <3>2
      <4> QED
        BY <3>2, <4>1
    <3>3. Right(n - 1)
      <4>1. n - 1 \notin N
        BY <3>1, <3>4
      <4> QED
        BY <3>4, <4>1
    <3> QED
      BY <1>3, <3>2, <3>3, <3>4
  <2> QED
    BY <2>1
<1>6. Right(Len(s)) /\ DOMAIN s = 1 .. Len(s)
  BY <1>5
<1> QED
  BY <1>1, <1>6

(***************************************************************************)
(* The invariants                                                          *)
(***************************************************************************)
AllRules == UNION {{file[i] : i \in DOMAIN file} : file \in Files}
Given == {WithId(body, n) : body \in Bodies, n \in EventIds}

\* Rules of some file, none twice.
IsRuleList(list) ==
  /\ list \in Seq(AllRules)
  /\ \A i, j \in DOMAIN list : list[i].name = list[j].name => i = j

IsFiring(f) ==
  /\ DOMAIN f = {"list", "inJob", "rule", "event", "left", "failed"}
  /\ f.list \in {"do", "onError"} /\ f.inJob \in BOOLEAN
  /\ f.rule \in AllRules /\ f.event \in Given

RulesHold ==
  /\ IsRuleList(loaded) /\ IsRuleList(rules)
  /\ DOMAIN reload = Reloaders
  /\ \A h \in Reloaders : reload[h] # <<>> => Len(reload[h]) = 1 /\ IsRuleList(reload[h][1])

\* Events wait in the order of their ids, and the one in hand came before them.
QueueHolds ==
  /\ events \in 0 .. MaxEvents
  /\ queue \in Seq(Given \union {Stop})
  /\ \A i \in DOMAIN queue : queue[i].id <= events
  /\ \A i, j \in DOMAIN queue : i < j /\ queue[i] # Stop /\ queue[j] # Stop => queue[i].id < queue[j].id
  /\ rulesPc \in {"select", "dispatch"} =>
       /\ event \in Given /\ event.id <= events
       /\ \A i \in DOMAIN queue : queue[i] # Stop => event.id < queue[i].id

HandHolds ==
  /\ rulesPc \in {"get", "select", "dispatch", "ended", "dead"}
  /\ rulesPc = "dispatch" <=> selected # <<>>
  /\ selected \in Seq([rule : AllRules, skip : BOOLEAN])
  /\ \A i, j \in DOMAIN selected : selected[i].rule.name = selected[j].rule.name => i = j

PoolHolds ==
  /\ pool \in Seq([rule : AllRules, event : Given])
  /\ DOMAIN firing = Workers
  /\ \A w \in Workers : firing[w] = Idle \/ IsFiring(firing[w])
  /\ audit \in [RuleNames \X EventIds -> Nat]

Shape == RulesHold /\ QueueHolds /\ HandHolds /\ PoolHolds

\* A job that runs is one that a worker waits for, and a stop that has come
\* to the pool leaves nothing that a worker could begin.
Quiet ==
  /\ DOMAIN jobs = Keys
  /\ \A k \in Keys : jobs[k] # "free" => \E w \in Workers : InJob(w) /\ Key(w) = k
  /\ stop \in {"drain", "stopped"} => ~poolOpen /\ pool = <<>>
  /\ stop = "stopped" => WorkersIdle

\* The rules thread has still to select for this event, or it is still to come.
Pending(e) ==
  \/ e > events
  \/ \E i \in DOMAIN queue : queue[i].id = e
  \/ rulesPc = "select" /\ event.id = e

Timed ==
  /\ clock \in Nat
  /\ lastFired \in [RuleNames -> Nat \union {Never}]
  /\ \A r \in RuleNames : lastFired[r] <= clock
  /\ chosen \subseteq [rule : RuleNames, event : EventIds, at : Nat]
  /\ \A f \in chosen : lastFired[f.rule] # Never /\ f.at <= lastFired[f.rule]
  /\ \A f \in chosen, e \in EventIds : Pending(e) => f.event < e

Ids == RuleNames \X EventIds
ChosenIds == {<<f.rule, f.event>> : f \in chosen}
IdOf(f) == <<f.rule.name, f.event.id>>

InHand(id) == \E i \in DOMAIN selected : ~selected[i].skip /\ <<selected[i].rule.name, event.id>> = id
Waiting(id) == \E i \in DOMAIN pool : IdOf(pool[i]) = id
Running(id) == \E w \in Workers : firing[w] # Idle /\ IdOf(firing[w]) = id
Dropped(id) == id \in abandoned

\* A firing is in one place only.
Placed(id) ==
  \/ InHand(id) /\ ~Waiting(id) /\ ~Running(id) /\ ~Dropped(id) /\ audit[id] = 0
  \/ ~InHand(id) /\ Waiting(id) /\ ~Running(id) /\ ~Dropped(id) /\ audit[id] = 0
  \/ ~InHand(id) /\ ~Waiting(id) /\ Running(id) /\ ~Dropped(id) /\ audit[id] = 0
  \/ ~InHand(id) /\ ~Waiting(id) /\ ~Running(id) /\ Dropped(id) /\ audit[id] = 0
  \/ ~InHand(id) /\ ~Waiting(id) /\ ~Running(id) /\ ~Dropped(id) /\ audit[id] = 1

\* What was not selected to run is in none, though a skip may be audited.
Nowhere(id) == ~InHand(id) /\ ~Waiting(id) /\ ~Running(id) /\ ~Dropped(id)

Accounts ==
  /\ \A i \in DOMAIN selected : selected[i].skip => <<selected[i].rule.name, event.id>> \notin ChosenIds
  /\ \A i, j \in DOMAIN pool : IdOf(pool[i]) = IdOf(pool[j]) => i = j
  /\ \A v, w \in Workers : firing[v] # Idle /\ firing[w] # Idle /\ IdOf(firing[v]) = IdOf(firing[w]) => v = w
  /\ \A id \in Ids : IF id \in ChosenIds THEN Placed(id) ELSE Nowhere(id)
  /\ \A id \in Ids : Pending(id[2]) => audit[id] = 0

(***************************************************************************)
(* What the constants say of rules and events                              *)
(***************************************************************************)
LEMMA GivenIds ==
  \A e \in Given : e.id \in EventIds /\ e # Stop
<1>1. \A body, n : WithId(body, n).id = n
  BY DEF WithId
<1>2. \A n \in EventIds : n \in Nat /\ n >= 1
  BY AutomationsAssumption DEF EventIds
<1>3. Stop.id = -1
  BY DEF Stop
<1> QED
  BY <1>1, <1>2, <1>3 DEF Given

LEMMA RuleFields ==
  \A rule \in AllRules : rule.name \in RuleNames /\ rule.cooldown \in Int /\ rule.cooldown \in Cooldowns(rule.name)
<1> SUFFICES ASSUME NEW file \in Files, NEW i \in DOMAIN file
             PROVE  file[i].name \in RuleNames /\ file[i].cooldown \in Int /\ file[i].cooldown \in Cooldowns(file[i].name)
  BY DEF AllRules
<1>1. file[i].name \in RuleNames
  BY DEF RuleNames
<1>2. file[i].cooldown \in Int
  BY AutomationsAssumption
<1>3. file[i].cooldown \in Cooldowns(file[i].name)
  <2> DEFINE n == file[i].name
  <2>1. file[i].cooldown \in {file[x].cooldown : x \in {x \in DOMAIN file : file[x].name = n}}
    OBVIOUS
  <2> HIDE DEF n
  <2>2. file[i].cooldown \in Cooldowns(n)
    BY <2>1 DEF Cooldowns
  <2> QED
    BY <2>2 DEF n
<1> QED
  BY <1>1, <1>2, <1>3

LEMMA AmongList ==
  ASSUME NEW list, IsRuleList(list), NEW S PROVE IsRuleList(Among(list, S))
<1> DEFINE a == Among(list, S)
<1>1. Distinct(list)
  BY DEF IsRuleList, Distinct
<1>2. /\ a \in Seq(AllRules) /\ Distinct(a)
      /\ \A i \in DOMAIN a : \E k \in DOMAIN list : list[k] = a[i]
  BY <1>1, AmongIs DEF IsRuleList
<1> HIDE DEF a
<1>3. ASSUME NEW i \in DOMAIN a, NEW j \in DOMAIN a, a[i].name = a[j].name PROVE i = j
  <2>1. PICK k \in DOMAIN list : list[k] = a[i]
    BY <1>2
  <2>2. PICK l \in DOMAIN list : list[l] = a[j]
    BY <1>2
  <2>3. k = l
    BY <1>3, <2>1, <2>2 DEF IsRuleList
  <2> QED
    BY <1>2, <2>1, <2>2, <2>3 DEF Distinct
<1>4. IsRuleList(a)
  BY <1>2, <1>3 DEF IsRuleList
<1> QED
  BY <1>4 DEF a

LEMMA ActiveIsList == \A file \in Files : IsRuleList(Active(file))
<1> SUFFICES ASSUME NEW file \in Files PROVE IsRuleList(Active(file))
  OBVIOUS
<1>1. IsRuleList(file)
  <2>1. file \in Seq({file[i] : i \in DOMAIN file})
    BY AutomationsAssumption
  <2>2. {file[i] : i \in DOMAIN file} \subseteq AllRules
    BY DEF AllRules
  <2> QED
    BY <2>1, <2>2, AutomationsAssumption DEF IsRuleList
<1> QED
  BY <1>1, AmongList DEF Active

LEMMA HeadAndTail ==
  ASSUME NEW S, NEW q \in Seq(S), q # <<>>
  PROVE  /\ Head(q) = q[1] /\ Head(q) \in S /\ 1 \in DOMAIN q
         /\ Tail(q) \in Seq(S) /\ Len(q) \in Nat /\ Len(q) >= 1 /\ Len(Tail(q)) = Len(q) - 1
         /\ DOMAIN q = 1 .. Len(q) /\ DOMAIN Tail(q) = 1 .. Len(q) - 1
         /\ \A i \in DOMAIN Tail(q) : i + 1 \in DOMAIN q /\ Tail(q)[i] = q[i + 1]
OBVIOUS

LEMMA Appended ==
  ASSUME NEW S, NEW q \in Seq(S), NEW e \in S
  PROVE  /\ Append(q, e) \in Seq(S) /\ Len(q) \in Nat
         /\ DOMAIN q = 1 .. Len(q) /\ DOMAIN Append(q, e) = 1 .. Len(q) + 1
         /\ \A i \in DOMAIN q : Append(q, e)[i] = q[i]
         /\ Append(q, e)[Len(q) + 1] = e
OBVIOUS

(***************************************************************************)
(* What the steps of a worker do                                           *)
(***************************************************************************)
Goes(w) == Unmet(w) \/ ShortAction(w) \/ Duplicate(w) \/ StartJob(w) \/ EndJob(w) \/ OnError(w)
Ends(w) == StepRaises(w) \/ RecordFiring(w)

LEMMA GoesOn ==
  ASSUME PoolHolds, NEW w \in Workers, Goes(w)
  PROVE  /\ firing[w] # Idle
         /\ IsFiring(firing'[w]) /\ firing'[w] # Idle
         /\ firing'[w].rule = firing[w].rule /\ firing'[w].event = firing[w].event
         /\ DOMAIN firing' = Workers /\ \A v \in Workers : v # w => firing'[v] = firing[v]
         /\ UNCHANGED <<eventVars, clock, ruleVars, threadVars, pool, poolOpen, audit, stop, history>>
<1> DEFINE f == firing[w]
<1>1. f # Idle /\ IsFiring(f)
  BY DEF PoolHolds, Goes, Unmet, ShortAction, Duplicate, StartJob, EndJob, OnError, AtStep, AtEnd, InJob
<1>2. DOMAIN firing = Workers
  BY DEF PoolHolds
<1>3. \A g : IsFiring(g) => g # Idle
  BY DEF IsFiring, Idle
<1> DEFINE Like(g) == IsFiring(g) /\ g.rule = f.rule /\ g.event = f.event
<1>4. ASSUME NEW ok, NEW skipped PROVE Like(After(f, ok, skipped)) /\ Like(After([f EXCEPT !.inJob = FALSE], ok, skipped))
  BY <1>1 DEF After, IsFiring
<1>5. Like([f EXCEPT !.inJob = TRUE]) /\ \A left : Like([f EXCEPT !.list = "onError", !.left = left])
  BY <1>1 DEF IsFiring
<1>6. \E g : Like(g) /\ firing' = [firing EXCEPT ![w] = g]
  <2> HIDE DEF Like
  <2>1. CASE Unmet(w) \/ ShortAction(w) \/ Duplicate(w)
    BY <1>2, <1>4, <2>1 DEF Unmet, ShortAction, Duplicate
  <2>2. CASE StartJob(w)
    <3>1. firing' = [firing EXCEPT ![w] = [f EXCEPT !.inJob = TRUE]]
      BY <2>2 DEF StartJob
    <3> QED
      BY <1>5, <3>1
  <2>3. CASE EndJob(w)
    <3>1. \E ok : firing' = [firing EXCEPT ![w] = After([f EXCEPT !.inJob = FALSE], ok, FALSE)]
      BY <2>3 DEF EndJob
    <3> QED
      BY <1>4, <3>1
  <2>4. CASE OnError(w)
    <3>1. firing' = [firing EXCEPT ![w] = [f EXCEPT !.list = "onError", !.left = f.rule.onError]]
      BY <2>4 DEF OnError
    <3> QED
      BY <1>5, <3>1
  <2> QED
    BY <2>1, <2>2, <2>3, <2>4 DEF Goes
<1>7. UNCHANGED <<eventVars, clock, ruleVars, threadVars, pool, poolOpen, audit, stop, history>>
  <2>1. CASE Unmet(w) \/ ShortAction(w) \/ Duplicate(w)
    BY <2>1 DEF Unmet, ShortAction, Duplicate
  <2>2. CASE StartJob(w) \/ EndJob(w) \/ OnError(w)
    BY <2>2 DEF StartJob, EndJob, OnError
  <2> QED
    BY <2>1, <2>2 DEF Goes
<1>8. /\ DOMAIN firing' = Workers /\ Like(firing'[w])
      /\ \A v \in Workers : v # w => firing'[v] = firing[v]
  BY <1>2, <1>6
<1> QED
  BY <1>1, <1>3, <1>7, <1>8

LEMMA EndsHere ==
  ASSUME PoolHolds, NEW w \in Workers, Ends(w)
  PROVE  /\ AtStep(w) \/ AtEnd(w)
         /\ firing[w] # Idle /\ IsFiring(firing[w])
         /\ DOMAIN firing' = Workers /\ firing'[w] = Idle /\ \A v \in Workers : v # w => firing'[v] = firing[v]
         /\ IdOf(firing[w]) \in Ids
         /\ audit' = [audit EXCEPT ![IdOf(firing[w])] = @ + 1]
         /\ UNCHANGED <<eventVars, clock, ruleVars, threadVars, pool, poolOpen, jobs, stop, history>>
<1>1. firing[w] # Idle /\ IsFiring(firing[w])
  BY DEF PoolHolds, Ends, StepRaises, RecordFiring, AtStep, AtEnd
<1>2. IdOf(firing[w]) \in Ids
  BY <1>1, GivenIds, RuleFields DEF IsFiring, IdOf, Ids
<1>3. audit' = [audit EXCEPT ![IdOf(firing[w])] = @ + 1]
  BY DEF Ends, StepRaises, RecordFiring, Audited, IdOf
<1>4. firing' = [firing EXCEPT ![w] = Idle] /\ (AtStep(w) \/ AtEnd(w))
  BY DEF Ends, StepRaises, RecordFiring
<1>5. UNCHANGED <<eventVars, clock, ruleVars, threadVars, pool, poolOpen, jobs, stop, history>>
  BY DEF Ends, StepRaises, RecordFiring
<1> QED
  BY <1>1, <1>2, <1>3, <1>4, <1>5 DEF PoolHolds

LEMMA Begins ==
  ASSUME PoolHolds, NEW w \in Workers, Begin(w)
  PROVE  /\ firing[w] = Idle /\ pool # <<>> /\ pool' = Tail(pool)
         /\ IsFiring(firing'[w]) /\ firing'[w] # Idle /\ ~firing'[w].inJob
         /\ firing'[w].rule = pool[1].rule /\ firing'[w].event = pool[1].event
         /\ DOMAIN firing' = Workers /\ \A v \in Workers : v # w => firing'[v] = firing[v]
         /\ UNCHANGED <<eventVars, clock, ruleVars, threadVars, poolOpen, jobs, audit, stop, history>>
<1>1. Head(pool) = pool[1] /\ Head(pool) \in [rule : AllRules, event : Given]
  BY HeadAndTail DEF PoolHolds, Begin
<1> QED
  BY <1>1 DEF PoolHolds, Begin, IsFiring, Idle

(***************************************************************************)
(* The steps, and what each of them leaves alone                           *)
(***************************************************************************)
Stopping == Observed \/ Joined \/ WaitIdle \/ CloseAudit

LEMMA StepsAre ==
  ASSUME Next
  PROVE  \/ Tick \/ (\E body \in Bodies : Sink(body))
         \/ (\E h \in Reloaders : ReloadFile(h) \/ ReplaceRules(h))
         \/ Get \/ SelectRules \/ Dispatch
         \/ (\E w \in Workers : Begin(w) \/ Goes(w) \/ Ends(w))
         \/ PutStop \/ CancelAll \/ ShutPool \/ Stopping
BY DEF Next, RulesThread, WorkerStep, Goes, Ends, StopStep, Stopping

LEMMA StoppingKeeps ==
  ASSUME Stopping
  PROVE  UNCHANGED <<eventVars, clock, ruleVars, threadVars, poolVars, jobs, audit, history>>
BY DEF Stopping, Observed, Joined, WaitIdle, CloseAudit

\* The names of the rules among `held` whose cooldown is over.
Due(held) == {rules[i].name : i \in {x \in held : ~CoolingDown(rules[x])}}

LEMMA Selects ==
  ASSUME Shape, SelectRules
  PROVE  /\ rulesPc = "select"
         /\ UNCHANGED <<eventVars, clock, ruleVars, poolVars, jobs, audit, stop, abandoned>>
         /\ \E held \in SUBSET DOMAIN rules :
              /\ lastFired' = [r \in RuleNames |-> IF r \in Due(held) THEN clock ELSE lastFired[r]]
              /\ \/ Dies /\ UNCHANGED chosen
                 \/ \E hits :
                      /\ IsRuleList(hits)
                      /\ \A i \in DOMAIN hits : \E k \in held : rules[k] = hits[i]
                      /\ \A k \in held : \E i \in DOMAIN hits : hits[i] = rules[k]
                      /\ selected' = [i \in DOMAIN hits |-> [rule |-> hits[i], skip |-> CoolingDown(hits[i])]]
                      /\ Handed(selected')
                      /\ chosen' = chosen \union {[rule |-> r, event |-> event.id, at |-> clock] : r \in Due(held)}
<1> DEFINE answers == [i \in DOMAIN rules |-> Matches(rules[i], event)]
           raising == {i \in DOMAIN rules : answers[i] = "raises"}
           reached == {i \in DOMAIN rules : \A j \in raising : i < j}
           held == {x \in reached : answers[x] = "holds"}
           all == {x \in DOMAIN rules : answers[x] = "holds"}
           wanted == {rules[i] : i \in all}
           hits == Among(rules, wanted)
           firing_ == {rules[i].name : i \in {x \in reached : answers[x] = "holds" /\ ~CoolingDown(rules[x])}}
<1>1. firing_ = Due(held)
  BY DEF Due
<1>2. /\ rulesPc = "select"
      /\ UNCHANGED <<eventVars, clock, ruleVars, poolVars, jobs, audit, stop, abandoned>>
      /\ lastFired' = [r \in RuleNames |-> IF r \in firing_ THEN clock ELSE lastFired[r]]
      /\ IF raising = {}
           THEN /\ selected' = [i \in DOMAIN hits |-> [rule |-> hits[i], skip |-> CoolingDown(hits[i])]]
                /\ Handed(selected')
                /\ chosen' = chosen \union {[rule |-> r, event |-> event.id, at |-> clock] : r \in firing_}
           ELSE Dies /\ UNCHANGED chosen
  BY DEF SelectRules
<1>3. held \in SUBSET DOMAIN rules /\ all \in SUBSET DOMAIN rules
  OBVIOUS
<1>4. raising = {} => held = all
  OBVIOUS
<1>5. /\ IsRuleList(hits)
      /\ \A i \in DOMAIN hits : \E k \in all : rules[k] = hits[i]
      /\ \A k \in all : \E i \in DOMAIN hits : hits[i] = rules[k]
  <2> HIDE DEF all
  <2>1. IsRuleList(rules) /\ rules \in Seq(AllRules)
    BY DEF Shape, RulesHold, IsRuleList
  <2>2. \A k \in all : rules[k] \in wanted
    OBVIOUS
  <2>3. \A r \in wanted : \E k \in all : rules[k] = r
    OBVIOUS
  <2> HIDE DEF wanted
  <2>4. IsRuleList(hits)
    BY <2>1, AmongList
  <2>5. /\ \A i \in DOMAIN hits : hits[i] \in wanted
        /\ \A k \in DOMAIN rules : rules[k] \in wanted => \E i \in DOMAIN hits : hits[i] = rules[k]
    BY <2>1, AmongIs
  <2> HIDE DEF hits
  <2> QED
    BY <1>3, <2>2, <2>3, <2>4, <2>5
<1> HIDE DEF answers, raising, reached, held, all, wanted, hits, firing_
<1>6. CASE raising = {}
  BY <1>1, <1>2, <1>3, <1>4, <1>5, <1>6
<1>7. CASE raising # {}
  BY <1>1, <1>2, <1>3, <1>7
<1> QED
  BY <1>6, <1>7

(***************************************************************************)
(* Shape                                                                   *)
(***************************************************************************)
LEMMA InitShape == Init => Shape
<1> SUFFICES ASSUME Init PROVE Shape
  OBVIOUS
<1>1. RulesHold
  BY ActiveIsList DEF Init, RulesHold
<1>2. QueueHolds
  BY AutomationsAssumption DEF Init, QueueHolds
<1>3. HandHolds
  BY DEF Init, HandHolds
<1>4. PoolHolds
  BY DEF Init, PoolHolds
<1> QED
  BY <1>1, <1>2, <1>3, <1>4 DEF Shape

LEMMA RulesStep == ASSUME Shape, Next PROVE RulesHold'
<1> USE DEF Shape
<1>1. CASE UNCHANGED ruleVars
  BY <1>1 DEF RulesHold, ruleVars, IsRuleList
<1>2. ASSUME NEW h \in Reloaders, ReloadFile(h) PROVE RulesHold'
  <2>1. PICK file \in Files : loaded' = Active(file) /\ reload' = [reload EXCEPT ![h] = <<loaded'>>] /\ rules' = rules
    BY <1>2 DEF ReloadFile
  <2>2. IsRuleList(loaded')
    BY <2>1, ActiveIsList
  <2>3. Len(<<loaded'>>) = 1 /\ <<loaded'>>[1] = loaded'
    OBVIOUS
  <2>4. IsRuleList(rules')
    BY <2>1 DEF RulesHold
  <2>5. ASSUME NEW g \in Reloaders, reload'[g] # <<>> PROVE Len(reload'[g]) = 1 /\ IsRuleList(reload'[g][1])
    <3>1. CASE g = h
      BY <2>1, <2>2, <2>3, <3>1 DEF RulesHold
    <3>2. CASE g # h
      BY <2>1, <2>5, <3>2 DEF RulesHold
    <3> QED
      BY <3>1, <3>2
  <2> QED
    BY <2>1, <2>2, <2>4, <2>5 DEF RulesHold, IsRuleList
<1>3. ASSUME NEW h \in Reloaders, ReplaceRules(h) PROVE RulesHold'
  <2>1. /\ reload[h] # <<>> /\ rules' = reload[h][1] /\ reload' = [reload EXCEPT ![h] = <<>>] /\ loaded' = loaded
    BY <1>3 DEF ReplaceRules
  <2> QED
    BY <2>1 DEF RulesHold, IsRuleList
<1>4. ASSUME NEW w \in Workers, Begin(w) \/ Goes(w) \/ Ends(w) PROVE UNCHANGED ruleVars
  BY <1>4, Begins, GoesOn, EndsHere
<1>5. SelectRules \/ Stopping => UNCHANGED ruleVars
  BY Selects, StoppingKeeps
<1>6. Tick \/ (\E body \in Bodies : Sink(body)) \/ Get \/ Dispatch => UNCHANGED ruleVars
  BY DEF Tick, Sink, Get, Dispatch
<1>7. PutStop \/ CancelAll \/ ShutPool => UNCHANGED ruleVars
  BY DEF PutStop, CancelAll, ShutPool
<1> QED
  BY <1>1, <1>2, <1>3, <1>4, <1>5, <1>6, <1>7, StepsAre

\* What the rules thread holds after it has passed something on.
LEMMA HandedOn ==
  ASSUME NEW left, Handed(left)
  PROVE  \/ left = <<>> /\ rulesPc' = "get"
         \/ left # <<>> /\ rulesPc' = "dispatch" /\ event' = event
BY DEF Handed

LEMMA SelectsOn ==
  ASSUME Shape, SelectRules
  PROVE  rulesPc = "select" /\ (\/ rulesPc' \in {"get", "dead"} /\ selected' = <<>>
                                \/ rulesPc' = "dispatch" /\ event' = event /\ selected' # <<>>)
<1>1. Dies => rulesPc' = "dead" /\ selected' = <<>>
  BY DEF Dies
<1>2. Dies \/ Handed(selected')
  BY Selects
<1> QED
  BY <1>1, <1>2, HandedOn, Selects

LEMMA Dispatches ==
  ASSUME Shape, Dispatch
  PROVE  /\ rulesPc = "dispatch" /\ selected # <<>>
         /\ UNCHANGED <<eventVars, clock, ruleVars, lastFired, poolOpen, firing, jobs, stop, chosen>>
         /\ \/ /\ selected[1].skip /\ audit' = [audit EXCEPT ![<<selected[1].rule.name, event.id>>] = @ + 1]
               /\ selected' = Tail(selected) /\ Handed(selected')
               /\ UNCHANGED <<pool, abandoned>>
            \/ /\ ~selected[1].skip /\ poolOpen /\ pool' = Append(pool, [rule |-> selected[1].rule, event |-> event])
               /\ selected' = Tail(selected) /\ Handed(selected')
               /\ UNCHANGED <<audit, abandoned>>
            \/ /\ Dies
               /\ abandoned' = abandoned \union
                    {<<selected[i].rule.name, event.id>> : i \in {x \in DOMAIN selected : ~selected[x].skip}}
               /\ UNCHANGED <<pool, audit>>
<1>1. rulesPc = "dispatch" /\ selected # <<>>
  BY DEF Dispatch, Shape, HandHolds
<1>2. Head(selected) = selected[1]
  BY <1>1, HeadAndTail DEF Shape, HandHolds
<1> QED
  BY <1>1, <1>2 DEF Dispatch, Audited

LEMMA FirstInHand ==
  ASSUME HandHolds, selected # <<>>
  PROVE  selected[1].rule \in AllRules /\ selected[1].skip \in BOOLEAN
<1> DEFINE T == [rule : AllRules, skip : BOOLEAN]
<1>1. selected \in Seq(T)
  BY DEF HandHolds
<1>2. \A s \in T : s.rule \in AllRules /\ s.skip \in BOOLEAN
  OBVIOUS
<1> HIDE DEF T
<1>3. selected[1] \in T
  BY <1>1, HeadAndTail
<1> QED
  BY <1>2, <1>3

LEMMA QueueStep == ASSUME Shape, Next PROVE QueueHolds'
<1> USE DEF Shape
<1> DEFINE S == Given \union {Stop}
<1>0. /\ \A e \in Given : e.id \in EventIds /\ e.id \in Nat /\ e.id >= 1 /\ e # Stop
      /\ Stop.id = -1 /\ MaxEvents \in Nat
  BY GivenIds, AutomationsAssumption DEF EventIds, Stop
<1>1. ASSUME UNCHANGED eventVars, rulesPc' \in {"select", "dispatch"} => rulesPc' = rulesPc \/ rulesPc \in {"select", "dispatch"},
             rulesPc' \in {"select", "dispatch"} => event' = event
      PROVE  QueueHolds'
  BY <1>1 DEF QueueHolds, eventVars
<1>2. ASSUME NEW body \in Bodies, Sink(body) PROVE QueueHolds'
  <2>1. UNCHANGED <<rulesPc, event>> /\ events < MaxEvents /\ events' = events + 1
    BY <1>2 DEF Sink, threadVars
  <2> DEFINE e == WithId(body, events + 1)
  <2>2. e \in Given /\ e.id = events + 1
    BY <2>1, <1>0 DEF QueueHolds, Given, WithId, EventIds
  <2>3. queue' = queue \/ queue' = Append(queue, e)
    BY <1>2 DEF Sink
  <2> HIDE DEF e
  <2>4. CASE queue' = queue
    BY <1>0, <2>1, <2>4 DEF QueueHolds
  <2>5. CASE queue' = Append(queue, e)
    <3> DEFINE q == Append(queue, e)
    <3>1. /\ q \in Seq(S) /\ Len(queue) \in Nat /\ DOMAIN queue = 1 .. Len(queue) /\ DOMAIN q = 1 .. Len(queue) + 1
          /\ \A i \in DOMAIN queue : q[i] = queue[i]
          /\ q[Len(queue) + 1] = e
      BY <2>2, Appended DEF QueueHolds
    <3>2. /\ \A i \in DOMAIN queue : queue[i] \in S /\ queue[i].id \in Int
      BY <1>0, <3>1 DEF QueueHolds
    <3>3. queue' = q
      BY <2>5
    <3> HIDE DEF q
    <3>4. \A i \in DOMAIN q : i \in DOMAIN queue \/ q[i] = e
      BY <3>1
    <3>5. \A i \in DOMAIN q : q[i].id <= events + 1
      BY <2>2, <3>1, <3>2, <3>4 DEF QueueHolds
    <3>6. \A i, j \in DOMAIN q : i < j /\ q[i] # Stop /\ q[j] # Stop => q[i].id < q[j].id
      <4> SUFFICES ASSUME NEW i \in DOMAIN q, NEW j \in DOMAIN q, i < j, q[i] # Stop, q[j] # Stop PROVE q[i].id < q[j].id
        OBVIOUS
      <4>1. i \in DOMAIN queue
        BY <3>1
      <4> QED
        BY <2>2, <3>1, <3>2, <3>4, <4>1 DEF QueueHolds
    <3>7. \A i \in DOMAIN q : rulesPc \in {"select", "dispatch"} /\ q[i] # Stop => event.id < q[i].id
      BY <1>0, <2>2, <3>1, <3>2, <3>4 DEF QueueHolds
    <3>8. /\ rulesPc \in {"select", "dispatch"} => event \in Given /\ event.id <= events + 1
          /\ events + 1 \in 0 .. MaxEvents
      BY <1>0, <2>1 DEF QueueHolds
    <3> HIDE DEF Shape
    <3> QED
      BY <2>1, <3>1, <3>3, <3>5, <3>6, <3>7, <3>8 DEF QueueHolds
  <2> QED
    BY <2>3, <2>4, <2>5
<1>3. ASSUME PutStop PROVE QueueHolds'
  <2>1. UNCHANGED <<rulesPc, event, events>> /\ queue' = Append(queue, Stop)
    BY <1>3 DEF PutStop, threadVars
  <2> DEFINE q == Append(queue, Stop)
  <2>2. /\ q \in Seq(S) /\ Len(queue) \in Nat /\ DOMAIN queue = 1 .. Len(queue) /\ DOMAIN q = 1 .. Len(queue) + 1
        /\ \A i \in DOMAIN queue : q[i] = queue[i]
        /\ q[Len(queue) + 1] = Stop
    BY Appended DEF QueueHolds
  <2>3. queue' = q
    BY <2>1
  <2> HIDE DEF q
  <2>4. \A i \in DOMAIN q : i \in DOMAIN queue \/ q[i] = Stop
    BY <2>2
  <2>5. \A i \in DOMAIN q : q[i].id <= events
    BY <1>0, <2>2, <2>4 DEF QueueHolds
  <2> QED
    BY <2>1, <2>2, <2>3, <2>4, <2>5 DEF QueueHolds
<1>4. ASSUME Get PROVE QueueHolds'
  <2> DEFINE q == Tail(queue)
  <2>1. /\ queue # <<>> /\ queue' = Tail(queue) /\ events' = events
        /\ IF Head(queue) = Stop THEN rulesPc' = "ended" ELSE rulesPc' = "select" /\ event' = Head(queue)
    BY <1>4 DEF Get
  <2>2. /\ Head(queue) = queue[1] /\ queue[1] \in S /\ 1 \in DOMAIN queue /\ q \in Seq(S)
        /\ Len(queue) \in Nat /\ DOMAIN queue = 1 .. Len(queue) /\ DOMAIN q = 1 .. Len(queue) - 1
        /\ \A i \in DOMAIN q : i + 1 \in DOMAIN queue /\ q[i] = queue[i + 1]
    BY <2>1, HeadAndTail DEF QueueHolds
  <2>3. queue' = q
    BY <2>1
  <2> HIDE DEF q
  <2>4. \A i \in DOMAIN q : q[i].id <= events
    BY <2>2 DEF QueueHolds
  <2>5. \A i, j \in DOMAIN q : i < j /\ q[i] # Stop /\ q[j] # Stop => q[i].id < q[j].id
    <3> SUFFICES ASSUME NEW i \in DOMAIN q, NEW j \in DOMAIN q, i < j, q[i] # Stop, q[j] # Stop PROVE q[i].id < q[j].id
      OBVIOUS
    <3>1. i \in Int /\ j \in Int /\ i + 1 < j + 1
      BY <2>2
    <3> QED
      BY <2>2, <3>1 DEF QueueHolds
  <2>6. ASSUME queue[1] # Stop
        PROVE  /\ queue[1] \in Given /\ queue[1].id <= events
               /\ \A i \in DOMAIN q : q[i] # Stop => queue[1].id < q[i].id
    <3>1. \A i \in DOMAIN q : 1 < i + 1
      BY <2>2
    <3> QED
      BY <2>2, <2>6, <3>1 DEF QueueHolds
  <2>7. rulesPc' \in {"select", "dispatch"} => queue[1] # Stop /\ event' = queue[1]
    BY <2>1, <2>2
  <2> QED
    BY <2>1, <2>2, <2>3, <2>4, <2>5, <2>6, <2>7 DEF QueueHolds
<1>5. SelectRules => QueueHolds'
  BY <1>1, Selects, SelectsOn
<1>6. ASSUME Dispatch PROVE QueueHolds'
  <2>1. rulesPc' \in {"select", "dispatch"} => event' = event
    BY <1>6, Dispatches, HandedOn DEF Dies
  <2> QED
    BY <1>1, <1>6, <2>1, Dispatches
<1>7. ASSUME NEW w \in Workers, Begin(w) \/ Goes(w) \/ Ends(w) PROVE UNCHANGED <<eventVars, threadVars>>
  BY <1>7, Begins, GoesOn, EndsHere
<1>8. Stopping => UNCHANGED <<eventVars, threadVars>>
  BY StoppingKeeps
<1>9. \A h \in Reloaders : ReloadFile(h) \/ ReplaceRules(h) => UNCHANGED <<eventVars, threadVars>>
  BY DEF ReloadFile, ReplaceRules
<1>10. Tick \/ CancelAll \/ ShutPool => UNCHANGED <<eventVars, threadVars>>
  BY DEF Tick, CancelAll, ShutPool
<1>11. UNCHANGED <<eventVars, threadVars>> => QueueHolds'
  BY <1>1 DEF threadVars
<1> QED
  BY <1>2, <1>3, <1>4, <1>5, <1>6, <1>7, <1>8, <1>9, <1>10, <1>11, StepsAre

LEMMA HandStep == ASSUME Shape, Next PROVE HandHolds'
<1> USE DEF Shape
<1>1. ASSUME NEW S, NEW q \in Seq(S), q # <<>>, \A i, j \in DOMAIN q : q[i].rule.name = q[j].rule.name => i = j
      PROVE  \A i, j \in DOMAIN Tail(q) : Tail(q)[i].rule.name = Tail(q)[j].rule.name => i = j
  <2> SUFFICES ASSUME NEW i \in DOMAIN Tail(q), NEW j \in DOMAIN Tail(q), Tail(q)[i].rule.name = Tail(q)[j].rule.name
               PROVE  i = j
    OBVIOUS
  <2>1. i + 1 \in DOMAIN q /\ j + 1 \in DOMAIN q /\ q[i + 1].rule.name = q[j + 1].rule.name /\ i \in Int /\ j \in Int
    BY <1>1, HeadAndTail
  <2>2. i + 1 = j + 1
    BY <1>1, <2>1
  <2> QED
    BY <2>1, <2>2
<1>2. UNCHANGED <<rulesPc, selected>> => HandHolds'
  BY DEF HandHolds
<1>3. ASSUME rulesPc' \in {"get", "select", "dead", "ended"}, selected' = <<>> PROVE HandHolds'
  BY <1>3 DEF HandHolds
<1>4. ASSUME Get PROVE HandHolds'
  <2>1. rulesPc = "get" /\ rulesPc' \in {"ended", "select"} /\ selected' = selected
    BY <1>4 DEF Get
  <2> QED
    BY <1>3, <2>1 DEF HandHolds
<1>5. ASSUME SelectRules PROVE HandHolds'
  <2>1. CASE selected' = <<>>
    BY <1>3, <1>5, <2>1, SelectsOn
  <2>2. CASE selected' # <<>>
    <3>1. rulesPc' = "dispatch"
      BY <1>5, <2>2, SelectsOn
    <3>2. PICK hits : IsRuleList(hits) /\ selected' = [i \in DOMAIN hits |-> [rule |-> hits[i], skip |-> CoolingDown(hits[i])]]
      BY <1>5, <2>2, Selects DEF Dies
    <3>3. hits \in Seq(AllRules) /\ \A i \in DOMAIN hits : hits[i] \in AllRules /\ CoolingDown(hits[i]) \in BOOLEAN
      BY <3>2 DEF IsRuleList, CoolingDown
    <3>4. DOMAIN selected' = DOMAIN hits /\ \A i \in DOMAIN hits : selected'[i].rule = hits[i] /\ selected'[i] \in [rule : AllRules, skip : BOOLEAN]
      BY <3>2, <3>3
    <3>5. selected' \in Seq([rule : AllRules, skip : BOOLEAN])
      <4> DEFINE T == [rule : AllRules, skip : BOOLEAN]
      <4>1. PICK n \in Nat : DOMAIN hits = 1 .. n
        BY <3>3
      <4>2. selected' \in [1 .. n -> T]
        BY <3>2, <3>4, <4>1
      <4> HIDE DEF T
      <4>3. selected' \in Seq(T)
        BY <4>2
      <4> QED
        BY <4>3 DEF T
    <3> QED
      BY <2>2, <3>1, <3>2, <3>4, <3>5 DEF HandHolds, IsRuleList
  <2> QED
    BY <2>1, <2>2
<1>6. ASSUME Dispatch PROVE HandHolds'
  <2>1. CASE Dies
    BY <1>3, <2>1 DEF Dies
  <2>2. CASE selected' = Tail(selected) /\ Handed(selected')
    <3>1. selected # <<>>
      BY <1>6, Dispatches
    <3>2. Tail(selected) \in Seq([rule : AllRules, skip : BOOLEAN])
      BY <3>1, HeadAndTail DEF HandHolds
    <3>3. \A i, j \in DOMAIN Tail(selected) : Tail(selected)[i].rule.name = Tail(selected)[j].rule.name => i = j
      BY <1>1, <3>1 DEF HandHolds
    <3> QED
      BY <2>2, <3>2, <3>3, HandedOn DEF HandHolds
  <2> QED
    BY <1>6, <2>1, <2>2, Dispatches
<1>7. ASSUME NEW w \in Workers, Begin(w) \/ Goes(w) \/ Ends(w) PROVE UNCHANGED threadVars
  BY <1>7, Begins, GoesOn, EndsHere
<1>8. Stopping => UNCHANGED threadVars
  BY StoppingKeeps
<1>9. \A h \in Reloaders : ReloadFile(h) \/ ReplaceRules(h) => UNCHANGED threadVars
  BY DEF ReloadFile, ReplaceRules
<1>10. Tick \/ (\E body \in Bodies : Sink(body)) \/ PutStop \/ CancelAll \/ ShutPool => UNCHANGED threadVars
  BY DEF Tick, Sink, PutStop, CancelAll, ShutPool
<1>11. UNCHANGED threadVars => HandHolds'
  BY <1>2 DEF threadVars
<1> QED
  BY <1>4, <1>5, <1>6, <1>7, <1>8, <1>9, <1>10, <1>11, StepsAre

LEMMA PoolStep == ASSUME Shape, Next PROVE PoolHolds'
<1> USE DEF Shape
<1> DEFINE S == [rule : AllRules, event : Given]
<1>1. UNCHANGED <<pool, firing, audit>> => PoolHolds'
  BY DEF PoolHolds
<1>2. ASSUME Dispatch PROVE PoolHolds'
  <2>1. /\ rulesPc = "dispatch" /\ selected # <<>> /\ firing' = firing
        /\ \/ audit' = [audit EXCEPT ![<<selected[1].rule.name, event.id>>] = @ + 1] /\ pool' = pool
           \/ pool' = Append(pool, [rule |-> selected[1].rule, event |-> event]) /\ audit' = audit
           \/ pool' = pool /\ audit' = audit
    BY <1>2, Dispatches
  <2>2. selected[1].rule \in AllRules /\ event \in Given
    BY <2>1, FirstInHand DEF QueueHolds
  <2>3. CASE audit' = [audit EXCEPT ![<<selected[1].rule.name, event.id>>] = @ + 1] /\ pool' = pool
    <3> DEFINE id == <<selected[1].rule.name, event.id>>
    <3>1. id \in RuleNames \X EventIds
      BY <2>2, GivenIds, RuleFields
    <3>2. audit' = [audit EXCEPT ![id] = audit[id] + 1]
      BY <2>3
    <3> HIDE DEF id
    <3>3. audit' \in [RuleNames \X EventIds -> Nat]
      BY <3>1, <3>2 DEF PoolHolds
    <3> QED
      BY <2>1, <2>3, <3>3 DEF PoolHolds
  <2>4. CASE pool' = Append(pool, [rule |-> selected[1].rule, event |-> event]) /\ audit' = audit
    <3> DEFINE p == [rule |-> selected[1].rule, event |-> event]
    <3>1. p \in S
      BY <2>2
    <3> HIDE DEF p
    <3>2. Append(pool, p) \in Seq(S)
      BY <3>1 DEF PoolHolds
    <3> QED
      BY <2>1, <2>4, <3>2 DEF PoolHolds, p
  <2> QED
    BY <1>1, <2>1, <2>3, <2>4
<1>3. ASSUME ShutPool PROVE PoolHolds'
  BY <1>3 DEF ShutPool, PoolHolds
<1>4. ASSUME NEW w \in Workers, Begin(w) PROVE PoolHolds'
  <2>1. Tail(pool) \in Seq(S)
    BY <1>4, Begins, HeadAndTail DEF PoolHolds
  <2> QED
    BY <1>4, <2>1, Begins DEF PoolHolds
<1>5. ASSUME NEW w \in Workers, Goes(w) PROVE PoolHolds'
  BY <1>5, GoesOn DEF PoolHolds
<1>6. ASSUME NEW w \in Workers, Ends(w) PROVE PoolHolds'
  BY <1>6, EndsHere DEF PoolHolds
<1>7. SelectRules \/ Stopping => UNCHANGED <<poolVars, audit>>
  BY StoppingKeeps, Selects
<1>8. \A h \in Reloaders : ReloadFile(h) \/ ReplaceRules(h) => UNCHANGED <<poolVars, audit>>
  BY DEF ReloadFile, ReplaceRules
<1>9. Tick \/ (\E body \in Bodies : Sink(body)) \/ Get \/ PutStop \/ CancelAll => UNCHANGED <<poolVars, audit>>
  BY DEF Tick, Sink, Get, PutStop, CancelAll
<1>10. UNCHANGED <<poolVars, audit>> => PoolHolds'
  BY <1>1 DEF poolVars
<1> QED
  BY <1>2, <1>3, <1>4, <1>5, <1>6, <1>7, <1>8, <1>9, <1>10, StepsAre

LEMMA ShapeStep == ASSUME Shape, [Next]_vars PROVE Shape'
<1>1. CASE Next
  BY <1>1, RulesStep, QueueStep, HandStep, PoolStep DEF Shape
<1>2. CASE UNCHANGED vars
  BY <1>2 DEF vars, eventVars, ruleVars, threadVars, poolVars, Shape, RulesHold, QueueHolds, HandHolds, PoolHolds, IsRuleList, IsFiring
<1> QED
  BY <1>1, <1>2

(***************************************************************************)
(* Nothing is left when the audit file is closed                           *)
(***************************************************************************)
Holders == \A k \in Keys : jobs[k] # "free" => \E w \in Workers : InJob(w) /\ Key(w) = k

LEMMA HoldersKeep ==
  ASSUME Holders, firing' = firing, \A k \in Keys : jobs'[k] # "free" => jobs[k] # "free"
  PROVE  Holders'
BY DEF Holders, InJob, Key, Step

\* Who is in no job does not count as a holder.
LEMMA OthersKeep ==
  ASSUME Holders, NEW w \in Workers, \A v \in Workers : v # w => firing'[v] = firing[v],
         NEW k \in Keys, jobs[k] # "free", ~InJob(w) \/ Key(w) # k
  PROVE  \E v \in Workers : (InJob(v) /\ Key(v) = k)'
<1>1. PICK v \in Workers : InJob(v) /\ Key(v) = k
  BY DEF Holders
<1>2. v # w
  BY <1>1
<1> QED
  BY <1>1, <1>2 DEF InJob, Key, Step

LEMMA TokensKeep ==
  ASSUME DOMAIN jobs = Keys, NEW keys, SetTokens(keys)
  PROVE  DOMAIN jobs' = Keys /\ \A k \in Keys : jobs'[k] # "free" => jobs[k] # "free"
BY DEF SetTokens

LEMMA JobsStep == ASSUME Shape, DOMAIN jobs = Keys, Holders, Next PROVE DOMAIN jobs' = Keys /\ Holders'
<1> USE DEF Shape
<1>1. UNCHANGED <<firing, jobs>> => DOMAIN jobs' = Keys /\ Holders'
  BY HoldersKeep
<1>2. ASSUME firing' = firing, NEW keys, SetTokens(keys) PROVE DOMAIN jobs' = Keys /\ Holders'
  BY <1>2, HoldersKeep, TokensKeep
<1>3. ASSUME Get PROVE DOMAIN jobs' = Keys /\ Holders'
  <2>1. firing' = firing /\ (UNCHANGED jobs \/ \E keys : SetTokens(keys))
    BY <1>3 DEF Get, poolVars
  <2> QED
    BY <1>1, <1>2, <2>1
<1>4. ASSUME CancelAll PROVE DOMAIN jobs' = Keys /\ Holders'
  <2>1. firing' = firing /\ SetTokens(Keys)
    BY <1>4 DEF CancelAll, poolVars
  <2> QED
    BY <1>2, <2>1
<1>5. ASSUME NEW w \in Workers, ~InJob(w), jobs' = jobs, \A v \in Workers : v # w => firing'[v] = firing[v]
      PROVE  DOMAIN jobs' = Keys /\ Holders'
  <2>1. \A k \in Keys : jobs[k] # "free" => \E v \in Workers : (InJob(v) /\ Key(v) = k)'
    BY <1>5, OthersKeep
  <2> QED
    BY <1>5, <2>1 DEF Holders
<1>6. ASSUME NEW w \in Workers, Begin(w) PROVE DOMAIN jobs' = Keys /\ Holders'
  BY <1>5, <1>6, Begins DEF InJob
<1>7. ASSUME NEW w \in Workers, Ends(w) PROVE DOMAIN jobs' = Keys /\ Holders'
  BY <1>5, <1>7, EndsHere DEF AtStep, AtEnd
<1>8. ASSUME NEW w \in Workers, Unmet(w) \/ ShortAction(w) \/ Duplicate(w) \/ OnError(w)
      PROVE  DOMAIN jobs' = Keys /\ Holders'
  <2>1. ~InJob(w) /\ jobs' = jobs
    BY <1>8 DEF Unmet, ShortAction, Duplicate, OnError, AtStep, AtEnd
  <2>2. Goes(w)
    BY <1>8 DEF Goes
  <2> QED
    BY <1>5, <2>1, <2>2, GoesOn
<1>9. ASSUME NEW w \in Workers, StartJob(w) PROVE DOMAIN jobs' = Keys /\ Holders'
  <2>1. /\ ~InJob(w) /\ IsFiring(firing[w]) /\ jobs' = [jobs EXCEPT ![Key(w)] = "running"]
        /\ firing' = [firing EXCEPT ![w].inJob = TRUE]
    BY <1>9 DEF StartJob, AtStep, PoolHolds
  <2>2. \A v \in Workers : v # w => firing'[v] = firing[v]
    BY <2>1 DEF PoolHolds
  <2>3. firing'[w] # Idle
    BY <1>9, GoesOn DEF Goes
  <2>4. firing'[w] = [firing[w] EXCEPT !.inJob = TRUE]
    BY <2>1 DEF PoolHolds
  <2>5. firing'[w].inJob /\ firing'[w].event = firing[w].event /\ firing'[w].left = firing[w].left
    BY <2>1, <2>4 DEF IsFiring
  <2>6. InJob(w)' /\ Key(w)' = Key(w)
    BY <2>3, <2>5 DEF InJob, Key, Step
  <2>7. ASSUME NEW k \in Keys, jobs'[k] # "free" PROVE \E v \in Workers : (InJob(v) /\ Key(v) = k)'
    <3>1. CASE k = Key(w)
      BY <2>6, <3>1
    <3>2. CASE k # Key(w)
      <4>1. jobs[k] # "free"
        BY <2>1, <2>7, <3>2
      <4> QED
        BY <2>1, <2>2, <4>1, OthersKeep
    <3> QED
      BY <3>1, <3>2
  <2>8. DOMAIN jobs' = Keys
    BY <2>1
  <2> QED
    BY <2>7, <2>8 DEF Holders
<1>10. ASSUME NEW w \in Workers, EndJob(w) PROVE DOMAIN jobs' = Keys /\ Holders'
  <2>1. jobs' = [jobs EXCEPT ![Key(w)] = "free"]
    BY <1>10 DEF EndJob
  <2>2. \A v \in Workers : v # w => firing'[v] = firing[v]
    BY <1>10, GoesOn DEF Goes
  <2>3. ASSUME NEW k \in Keys, jobs'[k] # "free" PROVE \E v \in Workers : (InJob(v) /\ Key(v) = k)'
    <3>1. jobs[k] # "free" /\ Key(w) # k
      BY <2>1, <2>3
    <3> QED
      BY <2>2, <3>1, OthersKeep
  <2>4. DOMAIN jobs' = Keys
    BY <2>1
  <2> QED
    BY <2>3, <2>4 DEF Holders
<1>11. Stopping \/ SelectRules \/ Dispatch => UNCHANGED <<firing, jobs>>
  BY StoppingKeeps, Selects, Dispatches DEF poolVars
<1>12. \A h \in Reloaders : ReloadFile(h) \/ ReplaceRules(h) => UNCHANGED <<firing, jobs>>
  BY DEF ReloadFile, ReplaceRules, poolVars
<1>13. Tick \/ (\E body \in Bodies : Sink(body)) \/ PutStop \/ ShutPool => UNCHANGED <<firing, jobs>>
  BY DEF Tick, Sink, PutStop, ShutPool, poolVars
<1> QED
  BY <1>1, <1>3, <1>4, <1>6, <1>7, <1>8, <1>9, <1>10, <1>11, <1>12, <1>13, StepsAre DEF Goes

Down ==
  /\ stop \in {"drain", "stopped"} => ~poolOpen /\ pool = <<>>
  /\ stop = "stopped" => WorkersIdle

LEMMA DownStep == ASSUME Shape, Down, Next PROVE Down'
<1> USE DEF Shape
<1>1. ASSUME UNCHANGED <<stop, poolVars>> PROVE Down'
  BY <1>1 DEF Down, WorkersIdle, poolVars
<1>2. ASSUME stop' \notin {"drain", "stopped"} PROVE Down'
  BY <1>2 DEF Down
<1>3. ASSUME NEW w \in Workers, firing[w] # Idle, UNCHANGED <<stop, pool, poolOpen>> PROVE Down'
  BY <1>3 DEF Down, WorkersIdle
<1>4. ASSUME NEW w \in Workers, Begin(w) PROVE Down'
  <2>1. pool # <<>> /\ stop' = stop
    BY <1>4, Begins
  <2> QED
    BY <1>2, <2>1 DEF Down
<1>5. ASSUME NEW w \in Workers, Goes(w) \/ Ends(w) PROVE Down'
  BY <1>3, <1>5, GoesOn, EndsHere
<1>6. ASSUME Dispatch PROVE Down'
  <2>1. stop' = stop /\ poolOpen' = poolOpen /\ firing' = firing /\ (pool' = pool \/ poolOpen)
    BY <1>6, Dispatches
  <2> QED
    BY <2>1 DEF Down, WorkersIdle
<1>7. ShutPool => Down'
  BY DEF ShutPool, Down
<1>8. CloseAudit => Down'
  BY DEF CloseAudit, Down, WorkersIdle, poolVars
<1>9. Observed \/ Joined \/ WaitIdle \/ PutStop \/ CancelAll => Down'
  BY <1>2 DEF Observed, Joined, WaitIdle, PutStop, CancelAll
<1>10. SelectRules => Down'
  BY <1>1, Selects
<1>11. \A h \in Reloaders : ReloadFile(h) \/ ReplaceRules(h) => UNCHANGED <<stop, poolVars>>
  BY DEF ReloadFile, ReplaceRules
<1>12. Tick \/ (\E body \in Bodies : Sink(body)) \/ Get => UNCHANGED <<stop, poolVars>>
  BY DEF Tick, Sink, Get
<1> QED
  BY <1>1, <1>4, <1>5, <1>6, <1>7, <1>8, <1>9, <1>10, <1>11, <1>12, StepsAre DEF Stopping

LEMMA QuietInvariant ==
  /\ Init => Quiet
  /\ Shape /\ Quiet /\ [Next]_vars => Quiet'
<1>1. Quiet <=> DOMAIN jobs = Keys /\ Holders /\ Down
  BY DEF Quiet, Holders, Down
<1>2. Init => DOMAIN jobs = Keys /\ Holders /\ Down
  BY DEF Init, Holders, Down
<1>3. ASSUME Shape, Quiet, Next PROVE Quiet'
  <2>1. DOMAIN jobs' = Keys /\ Holders' /\ Down'
    BY <1>1, <1>3, JobsStep, DownStep
  <2> QED
    BY <2>1 DEF Quiet, Holders, Down
<1>4. Quiet /\ UNCHANGED vars => Quiet'
  BY DEF Quiet, vars, poolVars, InJob, Key, Step, WorkersIdle
<1> QED
  BY <1>1, <1>2, <1>3, <1>4

\* Once the audit file is closed, no worker runs or will run a firing, and no
\* job of a rule is left: the shutdown waits for the workers, each job belongs
\* to a worker that waits for it, and the pool takes nothing more
\* (daemon.py run, JobRunner.run).
THEOREM StopsQuietly == Spec => []StoppedIsQuiet
<1>1. Quiet => StoppedIsQuiet
  BY DEF Quiet, StoppedIsQuiet, WorkersIdle, InJob
<1> QED
  BY <1>1, InitShape, ShapeStep, QuietInvariant, PTL DEF Spec

(***************************************************************************)
(* Cooldowns                                                               *)
(***************************************************************************)
LEMMA Numbers ==
  /\ \A e \in EventIds : e \in Nat /\ e >= 1
  /\ \A e \in Given : e.id \in EventIds
  /\ Stop.id = -1
BY GivenIds, AutomationsAssumption DEF EventIds, Stop

\* No step makes an event pending again.
LEMMA PendingKeeps == ASSUME Shape, [Next]_vars, NEW e \in EventIds, Pending(e)' PROVE Pending(e)
<1> USE DEF Shape
<1> DEFINE S == Given \union {Stop}
<1>1. ASSUME UNCHANGED eventVars, rulesPc' = "select" => rulesPc = "select" /\ event' = event PROVE Pending(e)
  BY <1>1 DEF Pending, eventVars
<1>2. ASSUME NEW body \in Bodies, Sink(body) PROVE Pending(e)
  <2>1. UNCHANGED <<rulesPc, event>> /\ events' = events + 1 /\ events \in Nat /\ e \in Nat
    BY <1>2, Numbers DEF Sink, threadVars, QueueHolds
  <2> DEFINE new == WithId(body, events + 1)
  <2>2. new.id = events + 1 /\ new \in Given
    <3>1. events + 1 \in EventIds
      BY <1>2, AutomationsAssumption DEF Sink, EventIds, QueueHolds
    <3> QED
      BY <3>1 DEF WithId, Given
  <2>3. queue' = queue \/ queue' = Append(queue, new)
    BY <1>2 DEF Sink
  <2> HIDE DEF new
  <2>4. ASSUME NEW i \in DOMAIN queue', queue'[i].id = e PROVE Pending(e)
    <3>1. CASE i \in DOMAIN queue /\ queue'[i] = queue[i]
      BY <2>4, <3>1 DEF Pending
    <3>2. CASE queue'[i] = new
      BY <2>1, <2>2, <2>4, <3>2 DEF Pending
    <3>3. queue' = Append(queue, new) => (i \in DOMAIN queue /\ queue'[i] = queue[i]) \/ queue'[i] = new
      <4> DEFINE q == Append(queue, new)
      <4>1. /\ Len(queue) \in Nat /\ DOMAIN queue = 1 .. Len(queue) /\ DOMAIN q = 1 .. Len(queue) + 1
            /\ \A j \in DOMAIN queue : q[j] = queue[j]
            /\ q[Len(queue) + 1] = new
        BY <2>2, Appended DEF QueueHolds
      <4> HIDE DEF q
      <4>2. queue' = q => (i \in DOMAIN queue /\ queue'[i] = queue[i]) \/ queue'[i] = new
        BY <2>4, <4>1
      <4> QED
        BY <4>2 DEF q
    <3> QED
      BY <2>3, <2>4, <3>1, <3>2, <3>3
  <2>5. CASE e > events'
    BY <2>1, <2>5 DEF Pending
  <2>6. CASE rulesPc' = "select" /\ event'.id = e
    BY <2>1, <2>6 DEF Pending
  <2> QED
    BY <2>4, <2>5, <2>6 DEF Pending
<1>3. ASSUME PutStop PROVE Pending(e)
  <2>1. UNCHANGED <<rulesPc, event, events>> /\ queue' = Append(queue, Stop)
    BY <1>3 DEF PutStop, threadVars
  <2> DEFINE q == Append(queue, Stop)
  <2>2. /\ Len(queue) \in Nat /\ DOMAIN queue = 1 .. Len(queue) /\ DOMAIN q = 1 .. Len(queue) + 1
        /\ \A j \in DOMAIN queue : q[j] = queue[j]
        /\ q[Len(queue) + 1] = Stop
    BY Appended DEF QueueHolds
  <2>3. queue' = q
    BY <2>1
  <2> HIDE DEF q
  <2>4. \A i \in DOMAIN q : i \in DOMAIN queue \/ q[i] = Stop
    BY <2>2
  <2>5. \A i \in DOMAIN q : q[i].id = e => i \in DOMAIN queue /\ queue[i].id = e
    BY <2>2, <2>4, Numbers
  <2> QED
    BY <2>1, <2>3, <2>5 DEF Pending
<1>4. ASSUME Get PROVE Pending(e)
  <2> DEFINE q == Tail(queue)
  <2>1. /\ queue # <<>> /\ queue' = Tail(queue) /\ events' = events
        /\ IF Head(queue) = Stop THEN rulesPc' = "ended" ELSE rulesPc' = "select" /\ event' = Head(queue)
    BY <1>4 DEF Get
  <2>2. /\ Head(queue) = queue[1] /\ 1 \in DOMAIN queue
        /\ \A i \in DOMAIN q : i + 1 \in DOMAIN queue /\ q[i] = queue[i + 1]
    BY <2>1, HeadAndTail DEF QueueHolds
  <2>3. queue' = q
    BY <2>1
  <2> HIDE DEF q
  <2> QED
    BY <2>1, <2>2, <2>3 DEF Pending
<1>5. SelectRules => Pending(e)
  BY <1>1, Selects, SelectsOn
<1>6. ASSUME Dispatch PROVE Pending(e)
  <2>1. rulesPc' # "select"
    BY <1>6, Dispatches, HandedOn DEF Dies
  <2> QED
    BY <1>1, <1>6, <2>1, Dispatches
<1>7. UNCHANGED <<eventVars, threadVars>> => Pending(e)
  BY <1>1 DEF threadVars
<1>8. ASSUME NEW w \in Workers, Begin(w) \/ Goes(w) \/ Ends(w) PROVE UNCHANGED <<eventVars, threadVars>>
  BY <1>8, Begins, GoesOn, EndsHere
<1>9. Stopping => UNCHANGED <<eventVars, threadVars>>
  BY StoppingKeeps
<1>10. \A h \in Reloaders : ReloadFile(h) \/ ReplaceRules(h) => UNCHANGED <<eventVars, threadVars>>
  BY DEF ReloadFile, ReplaceRules
<1>11. Tick \/ CancelAll \/ ShutPool => UNCHANGED <<eventVars, threadVars>>
  BY DEF Tick, CancelAll, ShutPool
<1>12. CASE UNCHANGED vars
  BY <1>7, <1>12 DEF vars
<1>13. CASE Next
  BY <1>2, <1>3, <1>4, <1>5, <1>6, <1>7, <1>8, <1>9, <1>10, <1>11, <1>13, StepsAre
<1> QED
  BY <1>12, <1>13

\* What is still pending when an event has been selected for came after it.
LEMMA SelectedIsPast == ASSUME Shape, SelectRules, NEW e \in EventIds, Pending(e)' PROVE event.id < e
<1>1. rulesPc = "select" /\ UNCHANGED eventVars /\ rulesPc' # "select"
  BY Selects, SelectsOn
<1>2. event \in Given /\ event.id <= events /\ events \in Nat
  BY <1>1, AutomationsAssumption DEF Shape, QueueHolds
<1>3. ASSUME NEW i \in DOMAIN queue, queue[i].id = e PROVE event.id < e
  <2>1. queue[i] # Stop
    BY <1>3, Numbers
  <2> QED
    BY <1>1, <1>3, <2>1 DEF Shape, QueueHolds
<1>4. CASE e > events
  BY <1>2, <1>4, Numbers
<1>5. e > events \/ \E i \in DOMAIN queue : queue[i].id = e
  BY <1>1 DEF Pending, eventVars
<1> QED
  BY <1>3, <1>4, <1>5

LEMMA DueNames == ASSUME Shape, NEW held \in SUBSET DOMAIN rules
                  PROVE  /\ Due(held) \subseteq RuleNames
                         /\ \A r \in Due(held) : \E rule \in AllRules : rule.name = r /\ ~CoolingDown(rule)
<1>1. \A i \in DOMAIN rules : rules[i] \in AllRules
  BY DEF Shape, RulesHold, IsRuleList
<1> QED
  BY <1>1, RuleFields DEF Due

LEMMA TimedStep == ASSUME Shape, Timed, CooldownHolds, [Next]_vars PROVE Timed' /\ CooldownHolds'
<1>1. \A e \in EventIds : Pending(e)' => Pending(e)
  BY PendingKeeps
<1>2. ASSUME UNCHANGED <<lastFired, chosen>>, clock' \in Nat, clock' >= clock PROVE Timed' /\ CooldownHolds'
  <2>1. \A r \in RuleNames : lastFired[r] \in Int /\ lastFired[r] <= clock'
    BY <1>2 DEF Timed, Never
  <2>2. \A f \in chosen, e \in EventIds : Pending(e)' => f.event < e
    BY <1>1 DEF Timed
  <2>3. CooldownHolds'
    BY <1>2 DEF CooldownHolds
  <2> HIDE DEF CooldownHolds
  <2> QED
    BY <1>2, <2>1, <2>2, <2>3 DEF Timed
<1>3. ASSUME SelectRules PROVE Timed' /\ CooldownHolds'
  <2>1. PICK held \in SUBSET DOMAIN rules :
          /\ lastFired' = [r \in RuleNames |-> IF r \in Due(held) THEN clock ELSE lastFired[r]]
          /\ \/ UNCHANGED chosen
             \/ chosen' = chosen \union {[rule |-> r, event |-> event.id, at |-> clock] : r \in Due(held)}
    BY <1>3, Selects
  <2>2. clock' = clock /\ rulesPc = "select"
    BY <1>3, Selects
  <2>3. event \in Given /\ event.id \in EventIds /\ event.id \in Nat
    BY <2>2, Numbers DEF Shape, QueueHolds
  <2>4. Due(held) \subseteq RuleNames
    BY DueNames
  <2> DEFINE new == {[rule |-> r, event |-> event.id, at |-> clock] : r \in Due(held)}
  <2>5. \A f \in new : f.rule \in Due(held) /\ f.event = event.id /\ f.at = clock
                       /\ f \in [rule : RuleNames, event : EventIds, at : Nat]
    BY <2>3, <2>4 DEF Timed
  <2>6. chosen' \subseteq chosen \union new
    BY <2>1
  <2> HIDE DEF new
  <2>7. lastFired' \in [RuleNames -> Nat \union {Never}] /\ \A r \in RuleNames : lastFired'[r] <= clock'
    BY <2>1, <2>2 DEF Timed
  <2>8. \A f \in chosen' : lastFired'[f.rule] # Never /\ f.at <= lastFired'[f.rule]
    <3>1. ASSUME NEW f \in chosen PROVE lastFired'[f.rule] # Never /\ f.at <= lastFired'[f.rule]
      <4>1. f.rule \in RuleNames /\ f.at \in Nat /\ lastFired[f.rule] \in Int /\ clock \in Nat /\ f.at <= clock
        BY DEF Timed, Never
      <4> QED
        BY <2>1, <4>1 DEF Timed, Never
    <3>2. ASSUME NEW f \in new PROVE lastFired'[f.rule] # Never /\ f.at <= lastFired'[f.rule]
      BY <2>1, <2>4, <2>5 DEF Timed, Never
    <3> QED
      BY <2>6, <3>1, <3>2
  <2>9. \A f \in chosen', e \in EventIds : Pending(e)' => f.event < e
    <3>1. \A e \in EventIds : Pending(e)' => event.id < e
      BY <1>3, SelectedIsPast
    <3> QED
      BY <1>1, <2>5, <2>6, <3>1 DEF Timed
  <2>10. Timed'
    <3>1. chosen' \subseteq [rule : RuleNames, event : EventIds, at : Nat]
      BY <2>5, <2>6 DEF Timed
    <3>2. clock' \in Nat
      BY <2>2 DEF Timed
    <3> QED
      BY <2>7, <2>8, <2>9, <3>1, <3>2 DEF Timed
  <2>11. \A f \in chosen : f.event < event.id
    <3>1. Pending(event.id)
      BY <2>2 DEF Pending
    <3> QED
      BY <2>3, <3>1 DEF Timed
  <2>12. ASSUME NEW f \in chosen', NEW g \in chosen', f.rule = g.rule, f.event < g.event
         PROVE  \E c \in Cooldowns(f.rule) : g.at - f.at >= c
    <3>1. CASE g \in chosen
      <4>1. f \in chosen
        <5>1. f \in new => ~(f.event < g.event)
          <6>1. g.event \in Nat /\ g.event < event.id
            BY <2>11, <3>1, Numbers DEF Timed
          <6> QED
            BY <2>3, <2>5, <6>1
        <5> QED
          BY <2>6, <2>12, <5>1
      <4> QED
        BY <2>12, <3>1, <4>1 DEF CooldownHolds
    <3>2. CASE g \in new
      <4>1. f \in chosen
        BY <2>3, <2>5, <2>6, <2>12, <3>2
      <4>2. PICK rule \in AllRules : rule.name = g.rule /\ ~CoolingDown(rule)
        BY <2>5, <3>2, DueNames
      <4>3. rule.cooldown \in Int /\ rule.cooldown \in Cooldowns(f.rule)
        BY <2>12, <4>2, RuleFields
      <4>4. /\ f.at \in Nat /\ f.at <= lastFired[f.rule] /\ lastFired[f.rule] # Never
            /\ lastFired[f.rule] \in Int /\ lastFired[f.rule] <= clock /\ clock \in Nat
        BY <4>1 DEF Timed, Never
      <4>5. rule.cooldown = 0 \/ clock - lastFired[f.rule] >= rule.cooldown
        BY <2>12, <4>2, <4>3, <4>4 DEF CoolingDown
      <4>6. g.at = clock
        BY <2>5, <3>2
      <4>7. g.at - f.at >= rule.cooldown
        BY <4>3, <4>4, <4>5, <4>6
      <4> QED
        BY <4>3, <4>7
    <3> QED
      BY <2>6, <3>1, <3>2
  <2>13. CooldownHolds'
    BY <2>12 DEF CooldownHolds, Cooldowns
  <2> QED
    BY <2>10, <2>13
<1>4. UNCHANGED <<clock, lastFired, chosen>> => Timed' /\ CooldownHolds'
  BY <1>2 DEF Timed
<1>5. ASSUME Tick PROVE Timed' /\ CooldownHolds'
  BY <1>2, <1>5 DEF Tick, Timed, threadVars, history
<1>6. ASSUME NEW w \in Workers, Begin(w) \/ Goes(w) \/ Ends(w) PROVE UNCHANGED <<clock, lastFired, chosen>>
  BY <1>6, Begins, GoesOn, EndsHere DEF Shape, threadVars, history
<1>7. Stopping \/ Dispatch => UNCHANGED <<clock, lastFired, chosen>>
  BY StoppingKeeps, Dispatches DEF threadVars, history
<1>8. \A h \in Reloaders : ReloadFile(h) \/ ReplaceRules(h) => UNCHANGED <<clock, lastFired, chosen>>
  BY DEF ReloadFile, ReplaceRules, threadVars, history
<1>9. (\E body \in Bodies : Sink(body)) \/ Get \/ PutStop \/ CancelAll \/ ShutPool => UNCHANGED <<clock, lastFired, chosen>>
  BY DEF Sink, Get, PutStop, CancelAll, ShutPool, threadVars, history
<1>10. CASE UNCHANGED vars
  BY <1>4, <1>10 DEF vars, threadVars, history
<1>11. CASE Next
  BY <1>3, <1>4, <1>5, <1>6, <1>7, <1>8, <1>9, <1>11, StepsAre
<1> QED
  BY <1>10, <1>11

LEMMA InitTimed == Init => Timed /\ CooldownHolds
<1> SUFFICES ASSUME Init PROVE Timed /\ CooldownHolds
  OBVIOUS
<1>1. clock = 0 /\ chosen = {} /\ lastFired = [r \in RuleNames |-> Never]
  BY DEF Init
<1>2. CooldownHolds
  BY <1>1 DEF CooldownHolds
<1>3. Timed
  BY <1>1 DEF Timed, Never
<1> QED
  BY <1>2, <1>3

\* Two firings of one rule name are never closer than the shortest cooldown
\* that a version of the file gives it, however reloads interleave with events:
\* every list the engine holds comes from a file, a reload keeps the times, and
\* a firing's time is never later than the last time of its rule
\* (Engine.select, Engine.replace_rules).
THEOREM CooldownsHold == Spec => []CooldownHolds
BY InitShape, InitTimed, ShapeStep, TimedStep, PTL DEF Spec

(***************************************************************************)
(* Every firing is accounted for                                           *)
(***************************************************************************)
Skips == \A i \in DOMAIN selected : selected[i].skip => <<selected[i].rule.name, event.id>> \notin ChosenIds
PoolOnce == \A i, j \in DOMAIN pool : IdOf(pool[i]) = IdOf(pool[j]) => i = j
WorkerOnce == \A v, w \in Workers : firing[v] # Idle /\ firing[w] # Idle /\ IdOf(firing[v]) = IdOf(firing[w]) => v = w
Located == \A id \in Ids : IF id \in ChosenIds THEN Placed(id) ELSE Nowhere(id)
Unwritten == \A id \in Ids : Pending(id[2]) => audit[id] = 0

LEMMA AccountsAre == Accounts <=> Skips /\ PoolOnce /\ WorkerOnce /\ Located /\ Unwritten
BY DEF Accounts, Skips, PoolOnce, WorkerOnce, Located, Unwritten

LEMMA ChosenArePast == ASSUME Timed, NEW id \in ChosenIds PROVE id \in Ids /\ ~Pending(id[2])
<1>1. PICK f \in chosen : id = <<f.rule, f.event>>
  BY DEF ChosenIds
<1>2. f.rule \in RuleNames /\ f.event \in EventIds
  BY DEF Timed
<1>3. ~Pending(f.event)
  BY <1>2, Numbers DEF Timed
<1> QED
  BY <1>1, <1>2, <1>3 DEF Ids

LEMMA UnwrittenKeeps ==
  ASSUME Shape, Unwritten, [Next]_vars, \A id \in Ids : audit'[id] = audit[id] \/ ~Pending(id[2])
  PROVE  Unwritten'
<1> SUFFICES ASSUME NEW id \in Ids, Pending(id[2])' PROVE audit'[id] = 0
  BY DEF Unwritten
<1>1. id[2] \in EventIds
  BY DEF Ids
<1>2. Pending(id[2])
  BY <1>1, PendingKeeps
<1> QED
  BY <1>2 DEF Unwritten

\* The first entry in hand, and the others.
InTail(id) == \E i \in DOMAIN Tail(selected) : ~Tail(selected)[i].skip /\ <<Tail(selected)[i].rule.name, event.id>> = id
FirstId == <<selected[1].rule.name, event.id>>

LEMMA InHandIs ==
  ASSUME HandHolds, selected # <<>>
  PROVE  /\ \A id : InHand(id) <=> (~selected[1].skip /\ FirstId = id) \/ InTail(id)
         /\ ~InTail(FirstId)
<1> DEFINE T == [rule : AllRules, skip : BOOLEAN]
<1>0. selected \in Seq(T)
  BY DEF HandHolds
<1> HIDE DEF T
<1>1. /\ 1 \in DOMAIN selected /\ Len(selected) \in Nat
      /\ DOMAIN selected = 1 .. Len(selected) /\ DOMAIN Tail(selected) = 1 .. Len(selected) - 1
      /\ \A i \in DOMAIN Tail(selected) : i + 1 \in DOMAIN selected /\ Tail(selected)[i] = selected[i + 1]
  BY <1>0, HeadAndTail
<1>2. ASSUME NEW i \in DOMAIN selected, i # 1
      PROVE  i - 1 \in DOMAIN Tail(selected) /\ Tail(selected)[i - 1] = selected[i]
  <2>1. i - 1 \in DOMAIN Tail(selected) /\ (i - 1) + 1 = i
    BY <1>1, <1>2
  <2> QED
    BY <1>1, <2>1
<1>3. ASSUME NEW id PROVE InHand(id) <=> (~selected[1].skip /\ FirstId = id) \/ InTail(id)
  BY <1>1, <1>2 DEF InHand, InTail, FirstId
<1>4. ASSUME InTail(FirstId) PROVE FALSE
  <2>1. PICK i \in DOMAIN Tail(selected) : <<Tail(selected)[i].rule.name, event.id>> = FirstId
    BY <1>4 DEF InTail
  <2>2. i + 1 \in DOMAIN selected /\ selected[i + 1].rule.name = selected[1].rule.name /\ i \in Nat /\ i >= 1
    BY <1>1, <2>1 DEF FirstId
  <2> QED
    BY <1>1, <2>2 DEF HandHolds
<1> QED
  BY <1>3, <1>4

LEMMA FirstIdIsId ==
  ASSUME Shape, rulesPc = "dispatch"
  PROVE  FirstId \in Ids /\ ~Pending(FirstId[2]) /\ event.id \in EventIds
<1>1. selected # <<>> /\ event \in Given /\ event.id <= events /\ events \in Nat
  BY AutomationsAssumption DEF Shape, HandHolds, QueueHolds
<1>2. selected[1].rule.name \in RuleNames /\ event.id \in EventIds /\ event.id \in Nat
  BY <1>1, FirstInHand, RuleFields, Numbers DEF Shape
<1>3. ~Pending(event.id)
  <2>1. ASSUME NEW i \in DOMAIN queue PROVE queue[i].id # event.id
    <3>1. CASE queue[i] = Stop
      BY <1>2, <3>1, Numbers
    <3>2. CASE queue[i] # Stop
      <4>1. event.id < queue[i].id
        BY <3>2 DEF Shape, QueueHolds
      <4> QED
        BY <1>2, <4>1
    <3> QED
      BY <3>1, <3>2
  <2> QED
    BY <1>1, <1>2, <2>1 DEF Pending
<1> QED
  BY <1>2, <1>3 DEF FirstId, Ids

\* After an entry has been passed on, the others are in hand.
LEMMA PassedOn ==
  ASSUME HandHolds, selected # <<>>, selected' = Tail(selected), Handed(selected')
  PROVE  /\ \A id : InHand(id)' <=> InTail(id)
         /\ Skips /\ UNCHANGED chosen => Skips'
<1> DEFINE T == [rule : AllRules, skip : BOOLEAN]
<1>0. selected \in Seq(T)
  BY DEF HandHolds
<1> HIDE DEF T
<1>1. \A i \in DOMAIN Tail(selected) : i + 1 \in DOMAIN selected /\ Tail(selected)[i] = selected[i + 1]
  BY <1>0, HeadAndTail
<1>2. CASE Tail(selected) = <<>>
  BY <1>2 DEF InHand, InTail, Skips
<1>3. CASE Tail(selected) # <<>>
  <2>1. event' = event
    BY <1>3, HandedOn
  <2>2. UNCHANGED chosen => ChosenIds' = ChosenIds
    BY DEF ChosenIds
  <2>3. Skips /\ UNCHANGED chosen => Skips'
    BY <1>1, <2>1, <2>2 DEF Skips
  <2> QED
    BY <2>1, <2>3 DEF InHand, InTail
<1> QED
  BY <1>2, <1>3

LEMMA SamePlaces ==
  ASSUME Shape, Accounts, [Next]_vars, UNCHANGED <<selected, pool, firing, abandoned, audit, chosen>>,
         selected # <<>> => event' = event
  PROVE  Accounts'
<1>1. ChosenIds' = ChosenIds
  BY DEF ChosenIds
<1>2. \A id : InHand(id)' <=> InHand(id)
  <2>1. CASE selected = <<>>
    BY <2>1 DEF InHand
  <2>2. CASE selected # <<>>
    BY <2>2 DEF InHand
  <2> QED
    BY <2>1, <2>2
<1>3. \A id : (Waiting(id)' <=> Waiting(id)) /\ (Running(id)' <=> Running(id)) /\ (Dropped(id)' <=> Dropped(id))
  BY DEF Waiting, Running, Dropped
<1>4. Located'
  <2> SUFFICES ASSUME NEW id \in Ids PROVE IF id \in ChosenIds THEN Placed(id)' ELSE Nowhere(id)'
    BY <1>1 DEF Located
  <2>1. IF id \in ChosenIds THEN Placed(id) ELSE Nowhere(id)
    BY AccountsAre DEF Located
  <2> QED
    BY <1>2, <1>3, <2>1 DEF Placed, Nowhere
<1>5. Skips'
  <2>1. CASE selected = <<>>
    BY <2>1 DEF Skips
  <2>2. CASE selected # <<>>
    BY <1>1, <2>2, AccountsAre DEF Skips
  <2> QED
    BY <2>1, <2>2
<1>6. PoolOnce' /\ WorkerOnce'
  BY AccountsAre DEF PoolOnce, WorkerOnce
<1>7. Unwritten'
  BY UnwrittenKeeps, AccountsAre
<1> QED
  BY <1>4, <1>5, <1>6, <1>7 DEF Accounts, Skips, PoolOnce, WorkerOnce, Located, Unwritten

LEMMA DispatchAccounts == ASSUME Shape, Timed, Accounts, Dispatch PROVE Accounts'
<1>0. /\ rulesPc = "dispatch" /\ selected # <<>> /\ HandHolds /\ [Next]_vars /\ ChosenIds' = ChosenIds
      /\ UNCHANGED <<firing, chosen>>
  BY Dispatches DEF Shape, Next, RulesThread, ChosenIds
<1>1. Skips /\ PoolOnce /\ WorkerOnce /\ Located /\ Unwritten
  BY AccountsAre
<1>2. FirstId \in Ids /\ ~Pending(FirstId[2])
  BY <1>0, FirstIdIsId
<1>3. WorkerOnce' /\ \A id : Running(id)' <=> Running(id)
  BY <1>0, <1>1 DEF WorkerOnce, Running
<1>4. ASSUME selected[1].skip, audit' = [audit EXCEPT ![FirstId] = @ + 1],
             selected' = Tail(selected), Handed(selected'), UNCHANGED <<pool, abandoned>>
      PROVE  Accounts'
  <2>1. 1 \in DOMAIN selected
    BY <1>0, FirstInHand, EmptySeq DEF HandHolds
  <2>2. FirstId \notin ChosenIds
    BY <1>1, <1>4, <2>1 DEF Skips, FirstId
  <2>3. \A id : InHand(id)' <=> InHand(id)
    BY <1>0, <1>4, InHandIs, PassedOn
  <2>4. \A id : (Waiting(id)' <=> Waiting(id)) /\ (Dropped(id)' <=> Dropped(id))
    BY <1>4 DEF Waiting, Dropped
  <2>5. \A id \in Ids : id # FirstId => audit'[id] = audit[id]
    BY <1>4 DEF Shape, PoolHolds, Ids
  <2>6. Located'
    <3> SUFFICES ASSUME NEW id \in Ids PROVE IF id \in ChosenIds THEN Placed(id)' ELSE Nowhere(id)'
      BY <1>0 DEF Located
    <3>1. IF id \in ChosenIds THEN Placed(id) ELSE Nowhere(id)
      BY <1>1 DEF Located
    <3>2. id \in ChosenIds => audit'[id] = audit[id]
      BY <2>2, <2>5
    <3> QED
      BY <1>3, <2>3, <2>4, <3>1, <3>2 DEF Placed, Nowhere
  <2>7. Skips' /\ PoolOnce'
    BY <1>0, <1>1, <1>4, PassedOn DEF PoolOnce
  <2>8. Unwritten'
    BY <1>0, <1>1, <1>2, <2>5, UnwrittenKeeps
  <2> QED
    BY <1>3, <2>6, <2>7, <2>8 DEF Accounts, Skips, PoolOnce, WorkerOnce, Located, Unwritten
<1>5. ASSUME ~selected[1].skip, pool' = Append(pool, [rule |-> selected[1].rule, event |-> event]),
             selected' = Tail(selected), Handed(selected'), UNCHANGED <<audit, abandoned>>
      PROVE  Accounts'
  <2>1. InHand(FirstId)
    BY <1>0, <1>5, InHandIs
  <2>2. FirstId \in ChosenIds /\ ~Waiting(FirstId)
    BY <1>1, <1>2, <2>1 DEF Located, Placed, Nowhere
  <2>3. \A id : InHand(id)' <=> InHand(id) /\ id # FirstId
    BY <1>0, <1>5, InHandIs, PassedOn
  <2> DEFINE p == [rule |-> selected[1].rule, event |-> event]
             q == Append(pool, p)
  <2>4. IdOf(p) = FirstId
    BY DEF IdOf, FirstId
  <2>5. /\ DOMAIN pool = 1 .. Len(pool) /\ Len(pool) \in Nat /\ DOMAIN q = 1 .. Len(pool) + 1
        /\ \A i \in DOMAIN pool : q[i] = pool[i]
        /\ q[Len(pool) + 1] = p
    <3> DEFINE S == [rule : AllRules, event : Given]
    <3>1. p \in S
      BY <1>0, FirstInHand DEF Shape, QueueHolds
    <3>2. pool \in Seq(S)
      BY DEF Shape, PoolHolds
    <3> HIDE DEF S, p
    <3> QED
      BY <3>1, <3>2, Appended
  <2>6. pool' = q
    BY <1>5
  <2> HIDE DEF p, q
  <2>7. /\ \A i \in DOMAIN pool : i \in DOMAIN q /\ q[i] = pool[i] /\ i # Len(pool) + 1
        /\ Len(pool) + 1 \in DOMAIN q
        /\ \A i \in DOMAIN q : i = Len(pool) + 1 \/ i \in DOMAIN pool
    BY <2>5
  <2>8. \A id : Waiting(id)' <=> Waiting(id) \/ id = FirstId
    BY <2>4, <2>5, <2>6, <2>7 DEF Waiting
  <2>9. PoolOnce'
    <3> SUFFICES ASSUME NEW i \in DOMAIN q, NEW j \in DOMAIN q, IdOf(q[i]) = IdOf(q[j]) PROVE i = j
      BY <2>6 DEF PoolOnce
    <3>1. \A k \in DOMAIN pool : IdOf(pool[k]) # FirstId
      BY <2>2 DEF Waiting
    <3> QED
      BY <1>1, <2>4, <2>5, <2>7, <3>1 DEF PoolOnce
  <2>10. \A id : Dropped(id)' <=> Dropped(id)
    BY <1>5 DEF Dropped
  <2>11. Located'
    <3> SUFFICES ASSUME NEW id \in Ids PROVE IF id \in ChosenIds THEN Placed(id)' ELSE Nowhere(id)'
      BY <1>0 DEF Located
    <3>1. IF id \in ChosenIds THEN Placed(id) ELSE Nowhere(id)
      BY <1>1 DEF Located
    <3>2. audit'[id] = audit[id]
      BY <1>5
    <3>3. CASE id = FirstId
      <4>1. Placed(id) /\ InHand(id)
        BY <2>1, <2>2, <3>1, <3>3
      <4> QED
        BY <1>3, <2>2, <2>3, <2>8, <2>10, <3>2, <3>3, <4>1 DEF Placed
    <3>4. CASE id # FirstId
      BY <1>3, <2>3, <2>8, <2>10, <3>1, <3>2, <3>4 DEF Placed, Nowhere
    <3> QED
      BY <3>3, <3>4
  <2>12. Skips' /\ Unwritten'
    BY <1>0, <1>1, <1>5, PassedOn, UnwrittenKeeps
  <2> QED
    BY <1>3, <2>9, <2>11, <2>12 DEF Accounts, Skips, PoolOnce, WorkerOnce, Located, Unwritten
<1>6. ASSUME Dies, UNCHANGED <<pool, audit>>,
             abandoned' = abandoned \union
               {<<selected[i].rule.name, event.id>> : i \in {x \in DOMAIN selected : ~selected[x].skip}}
      PROVE  Accounts'
  <2>1. \A id : ~InHand(id)'
    BY <1>6 DEF Dies, InHand
  <2>2. \A id : Dropped(id)' <=> Dropped(id) \/ InHand(id)
    BY <1>6 DEF Dropped, InHand
  <2>3. \A id : Waiting(id)' <=> Waiting(id)
    BY <1>6 DEF Waiting
  <2>4. Located'
    <3> SUFFICES ASSUME NEW id \in Ids PROVE IF id \in ChosenIds THEN Placed(id)' ELSE Nowhere(id)'
      BY <1>0 DEF Located
    <3>1. IF id \in ChosenIds THEN Placed(id) ELSE Nowhere(id)
      BY <1>1 DEF Located
    <3>2. audit'[id] = audit[id]
      BY <1>6
    <3> QED
      BY <1>3, <2>1, <2>2, <2>3, <3>1, <3>2 DEF Placed, Nowhere
  <2>5. Skips' /\ PoolOnce'
    BY <1>1, <1>6 DEF Dies, Skips, PoolOnce
  <2>6. Unwritten'
    BY <1>0, <1>1, <1>6, UnwrittenKeeps
  <2> QED
    BY <1>3, <2>4, <2>5, <2>6 DEF Accounts, Skips, PoolOnce, WorkerOnce, Located, Unwritten
<1> QED
  BY <1>4, <1>5, <1>6, Dispatches DEF FirstId

LEMMA SelectAccounts == ASSUME Shape, Timed, Accounts, SelectRules PROVE Accounts'
<1>0. /\ rulesPc = "select" /\ selected = <<>> /\ IsRuleList(rules) /\ [Next]_vars
      /\ UNCHANGED <<pool, firing, audit, abandoned>>
  BY Selects DEF Shape, HandHolds, RulesHold, Next, RulesThread, poolVars
<1>1. Skips /\ PoolOnce /\ WorkerOnce /\ Located /\ Unwritten
  BY AccountsAre
<1>2. event.id \in EventIds /\ Pending(event.id)
  BY <1>0, Numbers DEF Shape, QueueHolds, Pending
<1>3. ASSUME Dies, UNCHANGED chosen PROVE Accounts'
  BY <1>0, <1>3, SamePlaces DEF Dies
<1>4. ASSUME NEW held \in SUBSET DOMAIN rules, NEW hits,
             IsRuleList(hits),
             \A i \in DOMAIN hits : \E k \in held : rules[k] = hits[i],
             \A k \in held : \E i \in DOMAIN hits : hits[i] = rules[k],
             selected' = [i \in DOMAIN hits |-> [rule |-> hits[i], skip |-> CoolingDown(hits[i])]],
             Handed(selected'),
             chosen' = chosen \union {[rule |-> r, event |-> event.id, at |-> clock] : r \in Due(held)}
      PROVE  Accounts'
  <2>1. /\ DOMAIN selected' = DOMAIN hits
        /\ \A i \in DOMAIN hits : selected'[i].rule = hits[i] /\ (selected'[i].skip <=> CoolingDown(hits[i]))
    BY <1>4 DEF CoolingDown
  <2>2. DOMAIN hits # {} => event' = event
    <3>1. DOMAIN hits # {} => selected' # <<>>
      BY <2>1
    <3> QED
      BY <1>4, <3>1, HandedOn
  <2> DEFINE New(id) == \E r \in Due(held) : id = <<r, event.id>>
  <2>3. \A id : id \in ChosenIds' <=> id \in ChosenIds \/ New(id)
    <3> DEFINE new == {[rule |-> r, event |-> event.id, at |-> clock] : r \in Due(held)}
    <3>1. ASSUME NEW id PROVE (\E f \in new : id = <<f.rule, f.event>>) <=> New(id)
      <4>1. ASSUME NEW f \in new, id = <<f.rule, f.event>> PROVE New(id)
        <5>1. PICK r \in Due(held) : f = [rule |-> r, event |-> event.id, at |-> clock]
          OBVIOUS
        <5> QED
          BY <4>1, <5>1
      <4>2. ASSUME NEW r \in Due(held), id = <<r, event.id>> PROVE \E f \in new : id = <<f.rule, f.event>>
        <5> DEFINE f == [rule |-> r, event |-> event.id, at |-> clock]
        <5>1. f \in new /\ f.rule = r /\ f.event = event.id
          OBVIOUS
        <5> QED
          BY <4>2, <5>1
      <4> QED
        BY <4>1, <4>2
    <3> HIDE DEF new, New
    <3>2. chosen' = chosen \union new
      BY <1>4 DEF new
    <3> QED
      BY <3>1, <3>2 DEF ChosenIds
  <2>4. \A id : New(id) => id[2] = event.id /\ id \in Ids /\ id \notin ChosenIds
    <3>1. \A r \in Due(held) : <<r, event.id>> \in Ids
      BY <1>2, DueNames DEF Ids
    <3> QED
      BY <1>2, <3>1, ChosenArePast
  <2>5. ASSUME NEW i \in DOMAIN hits PROVE CoolingDown(hits[i]) <=> hits[i].name \notin Due(held)
    <3>1. PICK k \in held : rules[k] = hits[i]
      BY <1>4
    <3>2. ~CoolingDown(hits[i]) => hits[i].name \in Due(held)
      BY <3>1 DEF Due
    <3>3. ASSUME hits[i].name \in Due(held) PROVE ~CoolingDown(hits[i])
      <4>1. PICK l \in held : rules[l].name = hits[i].name /\ ~CoolingDown(rules[l])
        BY <3>3 DEF Due
      <4>2. l = k
        BY <1>0, <3>1, <4>1 DEF IsRuleList
      <4> QED
        BY <3>1, <4>1, <4>2
    <3> QED
      BY <3>2, <3>3
  <2>6. \A r \in Due(held) : \E i \in DOMAIN hits : hits[i].name = r
    BY <1>4 DEF Due
  <2>7. ASSUME NEW id PROVE InHand(id)' <=> New(id)
    <3>1. ASSUME InHand(id)' PROVE New(id)
      <4>1. PICK i \in DOMAIN hits : ~selected'[i].skip /\ <<selected'[i].rule.name, event'.id>> = id
        BY <2>1, <3>1 DEF InHand
      <4> QED
        BY <2>1, <2>2, <2>5, <4>1
    <3>2. ASSUME New(id) PROVE InHand(id)'
      <4>1. PICK i \in DOMAIN hits : hits[i].name \in Due(held) /\ id = <<hits[i].name, event.id>>
        BY <2>6, <3>2
      <4>2. ~selected'[i].skip /\ selected'[i].rule = hits[i] /\ event' = event /\ i \in DOMAIN selected'
        BY <2>1, <2>2, <2>5, <4>1
      <4> QED
        BY <4>1, <4>2 DEF InHand
    <3> QED
      BY <3>1, <3>2
  <2> HIDE DEF New
  <2>8. \A id : (Waiting(id)' <=> Waiting(id)) /\ (Running(id)' <=> Running(id)) /\ (Dropped(id)' <=> Dropped(id))
    BY <1>0 DEF Waiting, Running, Dropped
  <2>9. Located'
    <3> SUFFICES ASSUME NEW id \in Ids PROVE IF id \in ChosenIds' THEN Placed(id)' ELSE Nowhere(id)'
      BY DEF Located
    <3>1. IF id \in ChosenIds THEN Placed(id) ELSE Nowhere(id)
      BY <1>1 DEF Located
    <3>2. ~InHand(id) /\ audit'[id] = audit[id]
      BY <1>0 DEF InHand
    <3>3. CASE New(id)
      <4>1. audit[id] = 0
        BY <1>1, <1>2, <2>4, <3>3 DEF Unwritten
      <4>2. Nowhere(id) /\ id \in ChosenIds'
        BY <2>3, <2>4, <3>1, <3>3
      <4> QED
        BY <2>7, <2>8, <3>2, <3>3, <4>1, <4>2 DEF Placed, Nowhere
    <3>4. CASE ~New(id)
      BY <2>3, <2>7, <2>8, <3>1, <3>2, <3>4 DEF Placed, Nowhere
    <3> QED
      BY <3>3, <3>4
  <2>10. Skips'
    <3> SUFFICES ASSUME NEW i \in DOMAIN hits, selected'[i].skip
                 PROVE  <<selected'[i].rule.name, event'.id>> \notin ChosenIds'
      BY <2>1 DEF Skips
    <3> DEFINE id == <<hits[i].name, event.id>>
    <3>1. hits[i].name \notin Due(held)
      BY <2>1, <2>5
    <3>2. ~New(id)
      BY <3>1 DEF New
    <3>3. id[2] = event.id
      OBVIOUS
    <3> HIDE DEF id
    <3>4. id \notin ChosenIds
      BY <1>2, <3>3, ChosenArePast
    <3>5. id \notin ChosenIds'
      BY <2>3, <3>2, <3>4
    <3>6. event' = event /\ selected'[i].rule = hits[i]
      BY <2>1, <2>2
    <3> QED
      BY <3>5, <3>6 DEF id
  <2>11. PoolOnce' /\ WorkerOnce'
    BY <1>0, <1>1 DEF PoolOnce, WorkerOnce
  <2>12. Unwritten'
    BY <1>0, <1>1, UnwrittenKeeps
  <2> QED
    BY <2>9, <2>10, <2>11, <2>12 DEF Accounts, Skips, PoolOnce, WorkerOnce, Located, Unwritten
<1>5. PICK held \in SUBSET DOMAIN rules :
        \/ Dies /\ UNCHANGED chosen
        \/ \E hits :
             /\ IsRuleList(hits)
             /\ \A i \in DOMAIN hits : \E k \in held : rules[k] = hits[i]
             /\ \A k \in held : \E i \in DOMAIN hits : hits[i] = rules[k]
             /\ selected' = [i \in DOMAIN hits |-> [rule |-> hits[i], skip |-> CoolingDown(hits[i])]]
             /\ Handed(selected')
             /\ chosen' = chosen \union {[rule |-> r, event |-> event.id, at |-> clock] : r \in Due(held)}
  BY Selects
<1> QED
  BY <1>3, <1>4, <1>5

LEMMA WorkerAccounts ==
  ASSUME Shape, Timed, Accounts, NEW w \in Workers, Begin(w) \/ Goes(w) \/ Ends(w) PROVE Accounts'
<1>0. PoolHolds /\ [Next]_vars
  BY DEF Shape, Next, WorkerStep, Goes, Ends
<1>1. Skips /\ PoolOnce /\ WorkerOnce /\ Located /\ Unwritten
  BY AccountsAre
<1>2. UNCHANGED <<eventVars, threadVars, history>>
  BY <1>0, Begins, GoesOn, EndsHere
<1>3. /\ ChosenIds' = ChosenIds /\ Skips'
      /\ \A id : (InHand(id)' <=> InHand(id)) /\ (Dropped(id)' <=> Dropped(id))
  BY <1>1, <1>2 DEF ChosenIds, Skips, InHand, Dropped, threadVars, history
<1>4. \A v \in Workers : firing[v] # Idle => Running(IdOf(firing[v]))
  BY DEF Running
<1>5. ASSUME Begin(w) PROVE Accounts'
  <2> DEFINE pid == IdOf(pool[1])
             q == Tail(pool)
             S == [rule : AllRules, event : Given]
  <2>1. /\ firing[w] = Idle /\ pool # <<>> /\ pool' = q /\ firing'[w] # Idle /\ IdOf(firing'[w]) = pid
        /\ \A v \in Workers : v # w => firing'[v] = firing[v]
        /\ audit' = audit
    BY <1>0, <1>5, Begins DEF IdOf
  <2>2. pool \in Seq(S)
    BY <1>0 DEF PoolHolds
  <2> HIDE DEF S
  <2>3. /\ 1 \in DOMAIN pool /\ Len(pool) \in Nat /\ DOMAIN pool = 1 .. Len(pool) /\ DOMAIN q = 1 .. Len(pool) - 1
        /\ \A i \in DOMAIN q : i + 1 \in DOMAIN pool /\ q[i] = pool[i + 1]
    BY <2>1, <2>2, HeadAndTail
  <2> HIDE DEF q
  <2>4. \A i \in DOMAIN pool : i # 1 => i - 1 \in DOMAIN q /\ q[i - 1] = pool[i]
    <3> SUFFICES ASSUME NEW i \in DOMAIN pool, i # 1 PROVE i - 1 \in DOMAIN q /\ q[i - 1] = pool[i]
      OBVIOUS
    <3>1. i - 1 \in DOMAIN q /\ (i - 1) + 1 = i
      BY <2>3
    <3> QED
      BY <2>3, <3>1
  <2>5. Waiting(pid)
    BY <2>3 DEF Waiting
  <2>6. pool[1] \in S
    BY <2>1, <2>2, HeadAndTail
  <2>7. pid \in Ids
    BY <2>6, RuleFields, Numbers DEF S, IdOf, Ids
  <2>8. \A i \in DOMAIN q : IdOf(q[i]) # pid
    <3> SUFFICES ASSUME NEW i \in DOMAIN q, IdOf(pool[i + 1]) = pid PROVE FALSE
      BY <2>3
    <3>1. i + 1 = 1
      BY <1>1, <2>3 DEF PoolOnce
    <3> QED
      BY <2>3, <3>1
  <2>9. ~Running(pid)
    BY <1>1, <2>5, <2>7 DEF Located, Placed, Nowhere
  <2> HIDE DEF pid
  <2>10. ASSUME NEW id PROVE Waiting(id)' <=> Waiting(id) /\ id # pid
    <3>1. Waiting(id)' <=> \E i \in DOMAIN q : IdOf(q[i]) = id
      BY <2>1 DEF Waiting
    <3>2. Waiting(id) <=> \E i \in DOMAIN pool : IdOf(pool[i]) = id
      BY DEF Waiting
    <3> QED
      BY <2>3, <2>4, <2>8, <3>1, <3>2 DEF pid
  <2>11. \A id : Running(id)' <=> Running(id) \/ id = pid
    <3> SUFFICES ASSUME NEW id PROVE Running(id)' <=> Running(id) \/ id = pid
      OBVIOUS
    <3>1. Running(id)' <=> \E v \in Workers : firing'[v] # Idle /\ IdOf(firing'[v]) = id
      BY DEF Running, Idle, IdOf
    <3> QED
      BY <2>1, <3>1 DEF Running
  <2>12. PoolOnce'
    <3> SUFFICES ASSUME NEW i \in DOMAIN q, NEW j \in DOMAIN q, IdOf(q[i]) = IdOf(q[j]) PROVE i = j
      BY <2>1 DEF PoolOnce
    <3>1. i + 1 = j + 1
      BY <1>1, <2>3 DEF PoolOnce
    <3> QED
      BY <2>3, <3>1
  <2>13. WorkerOnce'
    <3> SUFFICES ASSUME NEW v \in Workers, NEW u \in Workers, firing'[v] # Idle, firing'[u] # Idle,
                        IdOf(firing'[v]) = IdOf(firing'[u])
                 PROVE  v = u
      BY DEF WorkerOnce, Idle, IdOf
    <3> QED
      BY <1>1, <1>4, <2>1, <2>9 DEF WorkerOnce
  <2>14. Located'
    <3> SUFFICES ASSUME NEW id \in Ids PROVE IF id \in ChosenIds THEN Placed(id)' ELSE Nowhere(id)'
      BY <1>3 DEF Located
    <3>1. IF id \in ChosenIds THEN Placed(id) ELSE Nowhere(id)
      BY <1>1 DEF Located
    <3>2. audit'[id] = audit[id]
      BY <2>1
    <3> QED
      BY <1>3, <2>5, <2>10, <2>11, <3>1, <3>2 DEF Placed, Nowhere
  <2>15. Unwritten'
    BY <1>0, <1>1, <2>1, UnwrittenKeeps
  <2> QED
    BY <1>3, <2>12, <2>13, <2>14, <2>15 DEF Accounts, Skips, PoolOnce, WorkerOnce, Located, Unwritten
<1>6. ASSUME Goes(w) PROVE Accounts'
  <2>1. /\ firing[w] # Idle /\ firing'[w] # Idle /\ IdOf(firing'[w]) = IdOf(firing[w])
        /\ \A v \in Workers : v # w => firing'[v] = firing[v]
        /\ audit' = audit /\ pool' = pool
    BY <1>0, <1>6, GoesOn DEF IdOf
  <2>2. \A v \in Workers : (firing'[v] # Idle <=> firing[v] # Idle) /\ IdOf(firing'[v]) = IdOf(firing[v])
    BY <2>1
  <2>3. \A id : Running(id)' <=> \E v \in Workers : firing'[v] # Idle /\ IdOf(firing'[v]) = id
    BY DEF Running, Idle, IdOf
  <2>4. \A id : (Waiting(id)' <=> Waiting(id)) /\ (Running(id)' <=> Running(id))
    <3>1. \A id : Waiting(id)' <=> Waiting(id)
      BY <2>1 DEF Waiting
    <3> QED
      BY <2>2, <2>3, <3>1 DEF Running
  <2>5. PoolOnce'
    BY <1>1, <2>1 DEF PoolOnce
  <2>6. WorkerOnce'
    <3> SUFFICES ASSUME NEW v \in Workers, NEW u \in Workers, firing'[v] # Idle, firing'[u] # Idle,
                        IdOf(firing'[v]) = IdOf(firing'[u])
                 PROVE  v = u
      BY DEF WorkerOnce, Idle, IdOf
    <3> QED
      BY <1>1, <2>2 DEF WorkerOnce
  <2>7. Located'
    <3> SUFFICES ASSUME NEW id \in Ids PROVE IF id \in ChosenIds THEN Placed(id)' ELSE Nowhere(id)'
      BY <1>3 DEF Located
    <3>1. IF id \in ChosenIds THEN Placed(id) ELSE Nowhere(id)
      BY <1>1 DEF Located
    <3>2. audit'[id] = audit[id]
      BY <2>1
    <3> QED
      BY <1>3, <2>4, <3>1, <3>2 DEF Placed, Nowhere
  <2>8. Unwritten'
    BY <1>0, <1>1, <2>1, UnwrittenKeeps
  <2> QED
    BY <1>3, <2>5, <2>6, <2>7, <2>8 DEF Accounts, Skips, PoolOnce, WorkerOnce, Located, Unwritten
<1>7. ASSUME Ends(w) PROVE Accounts'
  <2> DEFINE wid == IdOf(firing[w])
  <2>1. /\ firing[w] # Idle /\ firing'[w] = Idle
        /\ \A v \in Workers : v # w => firing'[v] = firing[v]
        /\ wid \in Ids /\ audit' = [audit EXCEPT ![wid] = @ + 1] /\ pool' = pool
    BY <1>0, <1>7, EndsHere
  <2>2. Running(wid)
    BY <1>4, <2>1
  <2>3. wid \in ChosenIds /\ Placed(wid) /\ audit[wid] = 0 /\ ~InHand(wid) /\ ~Waiting(wid) /\ ~Dropped(wid)
    BY <1>1, <2>1, <2>2 DEF Located, Placed, Nowhere
  <2>4. ~Pending(wid[2])
    BY <2>3, ChosenArePast
  <2>5. \A v \in Workers : v # w /\ firing[v] # Idle => IdOf(firing[v]) # wid
    BY <1>1, <2>1 DEF WorkerOnce
  <2>6. \A id : Running(id)' <=> \E v \in Workers : firing'[v] # Idle /\ IdOf(firing'[v]) = id
    BY DEF Running, Idle, IdOf
  <2>7. \A id : Running(id)' <=> Running(id) /\ id # wid
    BY <2>1, <2>5, <2>6 DEF Running
  <2> HIDE DEF wid
  <2>8. audit'[wid] = 1 /\ \A id \in Ids : id # wid => audit'[id] = audit[id]
    BY <1>0, <2>1, <2>3 DEF PoolHolds, Ids
  <2>9. \A id : Waiting(id)' <=> Waiting(id)
    BY <2>1 DEF Waiting
  <2>10. PoolOnce'
    BY <1>1, <2>1 DEF PoolOnce
  <2>11. WorkerOnce'
    <3> SUFFICES ASSUME NEW v \in Workers, NEW u \in Workers, firing'[v] # Idle, firing'[u] # Idle,
                        IdOf(firing'[v]) = IdOf(firing'[u])
                 PROVE  v = u
      BY DEF WorkerOnce, Idle, IdOf
    <3> QED
      BY <1>1, <2>1 DEF WorkerOnce
  <2>12. Located'
    <3> SUFFICES ASSUME NEW id \in Ids PROVE IF id \in ChosenIds THEN Placed(id)' ELSE Nowhere(id)'
      BY <1>3 DEF Located
    <3>1. IF id \in ChosenIds THEN Placed(id) ELSE Nowhere(id)
      BY <1>1 DEF Located
    <3>2. CASE id = wid
      BY <1>3, <2>3, <2>7, <2>8, <2>9, <3>2 DEF Placed
    <3>3. CASE id # wid
      BY <1>3, <2>7, <2>8, <2>9, <3>1, <3>3 DEF Placed, Nowhere
    <3> QED
      BY <3>2, <3>3
  <2>13. Unwritten'
    BY <1>0, <1>1, <2>4, <2>8, UnwrittenKeeps
  <2> QED
    BY <1>3, <2>10, <2>11, <2>12, <2>13 DEF Accounts, Skips, PoolOnce, WorkerOnce, Located, Unwritten
<1> QED
  BY <1>5, <1>6, <1>7

LEMMA ShutAccounts == ASSUME Shape, Accounts, ShutPool PROVE Accounts'
<1>0. /\ pool' = <<>> /\ UNCHANGED <<eventVars, threadVars, firing, audit, chosen>> /\ [Next]_vars
      /\ abandoned' = abandoned \union {<<pool[i].rule.name, pool[i].event.id>> : i \in DOMAIN pool}
  BY DEF ShutPool, Next, StopStep
<1>1. Skips /\ PoolOnce /\ WorkerOnce /\ Located /\ Unwritten
  BY AccountsAre
<1>2. ChosenIds' = ChosenIds /\ Skips' /\ \A id : InHand(id)' <=> InHand(id)
  BY <1>0, <1>1 DEF ChosenIds, Skips, InHand, threadVars
<1>3. WorkerOnce' /\ PoolOnce' /\ \A id : (Running(id)' <=> Running(id)) /\ ~Waiting(id)'
  BY <1>0, <1>1 DEF WorkerOnce, PoolOnce, Running, Waiting
<1>4. \A id : Dropped(id)' <=> Dropped(id) \/ Waiting(id)
  BY <1>0 DEF Dropped, Waiting, IdOf
<1>5. Located'
  <2> SUFFICES ASSUME NEW id \in Ids PROVE IF id \in ChosenIds THEN Placed(id)' ELSE Nowhere(id)'
    BY <1>2 DEF Located
  <2>1. IF id \in ChosenIds THEN Placed(id) ELSE Nowhere(id)
    BY <1>1 DEF Located
  <2>2. audit'[id] = audit[id]
    BY <1>0
  <2> QED
    BY <1>2, <1>3, <1>4, <2>1, <2>2 DEF Placed, Nowhere
<1>6. Unwritten'
  BY <1>0, <1>1, UnwrittenKeeps
<1> QED
  BY <1>2, <1>3, <1>5, <1>6 DEF Accounts, Skips, PoolOnce, WorkerOnce, Located, Unwritten

LEMMA AccountsStep == ASSUME Shape, Timed, Accounts, [Next]_vars PROVE Accounts'
<1> DEFINE Still == UNCHANGED <<selected, pool, firing, abandoned, audit, chosen>> /\ (selected # <<>> => event' = event)
<1>1. Still => Accounts'
  BY SamePlaces
<1>2. UNCHANGED <<threadVars, poolVars, audit, history>> => Still
  BY DEF threadVars, poolVars, history
<1>3. Get => Still
  BY DEF Get, Shape, HandHolds, poolVars, history
<1>4. Stopping => Still
  BY <1>2, StoppingKeeps
<1>5. \A h \in Reloaders : ReloadFile(h) \/ ReplaceRules(h) => Still
  BY <1>2 DEF ReloadFile, ReplaceRules
<1>6. Tick \/ (\E body \in Bodies : Sink(body)) \/ PutStop \/ CancelAll => Still
  BY <1>2 DEF Tick, Sink, PutStop, CancelAll
<1>7. UNCHANGED vars => Still
  BY <1>2 DEF vars
<1> HIDE DEF Still
<1>8. CASE Next
  BY <1>1, <1>3, <1>4, <1>5, <1>6, <1>8, StepsAre, DispatchAccounts, SelectAccounts, WorkerAccounts, ShutAccounts
<1> QED
  BY <1>1, <1>7, <1>8

LEMMA InitAccounts == Init => Accounts
<1> SUFFICES ASSUME Init PROVE Accounts
  OBVIOUS
<1>1. \A id : Nowhere(id) /\ id \notin ChosenIds
  BY DEF Init, Nowhere, InHand, Waiting, Running, Dropped, ChosenIds
<1>2. \A id \in Ids : audit[id] = 0
  BY DEF Init, Ids
<1> QED
  BY <1>1, <1>2 DEF Init, Accounts

\* A firing that is in one place only is counted once.
LEMMA PlacedCounts == ASSUME Shape, Timed, Accounts PROVE FiringsAccounted
<1> SUFFICES ASSUME NEW f \in chosen
             PROVE  LET id == <<f.rule, f.event>>
                        inHand == {i \in DOMAIN selected : ~selected[i].skip /\ <<selected[i].rule.name, event.id>> = id}
                        waiting == {i \in DOMAIN pool : <<pool[i].rule.name, pool[i].event.id>> = id}
                        running == {w \in Workers : firing[w] # Idle /\ <<firing[w].rule.name, firing[w].event.id>> = id}
                    IN Cardinality(inHand) + Cardinality(waiting) + Cardinality(running)
                         + audit[id] + Cardinality({id} \cap abandoned) = 1
  BY DEF FiringsAccounted
<1> DEFINE id == <<f.rule, f.event>>
           inHand == {i \in DOMAIN selected : ~selected[i].skip /\ <<selected[i].rule.name, event.id>> = id}
           waiting == {i \in DOMAIN pool : <<pool[i].rule.name, pool[i].event.id>> = id}
           running == {w \in Workers : firing[w] # Idle /\ <<firing[w].rule.name, firing[w].event.id>> = id}
           dropped == {id} \cap abandoned
<1> HIDE DEF id
<1>1. id \in ChosenIds
  BY DEF ChosenIds, id
<1>2. Placed(id)
  BY <1>1, ChosenArePast, AccountsAre DEF Located
<1>3. ASSUME NEW S, \A x, y \in S : x = y PROVE Cardinality(S) = IF S = {} THEN 0 ELSE 1
  <2>1. CASE S = {}
    BY <2>1, FS_EmptySet
  <2>2. CASE S # {}
    <3>1. PICK x \in S : TRUE
      BY <2>2
    <3>2. S = {x}
      BY <1>3, <3>1
    <3> QED
      BY <2>2, <3>2, FS_Singleton
  <2> QED
    BY <2>1, <2>2
<1>4. (inHand # {} <=> InHand(id)) /\ \A x, y \in inHand : x = y
  <2>1. inHand # {} <=> InHand(id)
    BY DEF InHand
  <2>2. ASSUME NEW x \in inHand, NEW y \in inHand PROVE x = y
    <3>1. <<selected[x].rule.name, event.id>> = <<selected[y].rule.name, event.id>>
      OBVIOUS
    <3>2. selected[x].rule.name = selected[y].rule.name
      BY <3>1
    <3> QED
      BY <3>2 DEF Shape, HandHolds
  <2> QED
    BY <2>1, <2>2
<1>5. (waiting # {} <=> Waiting(id)) /\ \A x, y \in waiting : x = y
  BY AccountsAre DEF Waiting, IdOf, PoolOnce
<1>6. (running # {} <=> Running(id)) /\ \A x, y \in running : x = y
  BY AccountsAre DEF Running, IdOf, WorkerOnce
<1>7. (dropped # {} <=> Dropped(id)) /\ \A x, y \in dropped : x = y
  BY DEF Dropped
<1> HIDE DEF inHand, waiting, running, dropped
<1>8. /\ Cardinality(inHand) = IF InHand(id) THEN 1 ELSE 0
      /\ Cardinality(waiting) = IF Waiting(id) THEN 1 ELSE 0
      /\ Cardinality(running) = IF Running(id) THEN 1 ELSE 0
      /\ Cardinality(dropped) = IF Dropped(id) THEN 1 ELSE 0
  BY <1>3, <1>4, <1>5, <1>6, <1>7
<1>9. Cardinality(inHand) + Cardinality(waiting) + Cardinality(running) + audit[id] + Cardinality(dropped) = 1
  BY <1>2, <1>8 DEF Placed
<1> QED
  BY <1>9 DEF id, inHand, waiting, running, dropped

\* Every firing that select() decides is in one place only: with the rules
\* thread, in the pool, on a worker, in the audit file, or dropped by the stop.
\* None is lost when a step, a submit or the audit raises, and none is audited
\* twice (daemon.py _run_rules, _fire, run; Engine.fire).
THEOREM FiringsAreAccounted == Spec => []FiringsAccounted
<1>1. Init => CooldownHolds /\ Timed
  BY InitTimed
<1> QED
  BY <1>1, InitShape, InitAccounts, ShapeStep, TimedStep, AccountsStep, PlacedCounts, PTL DEF Spec
=============================================================================
