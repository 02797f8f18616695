----------------------------- MODULE ApiProofs -----------------------------
(***************************************************************************)
(* Proofs about Api, for any requests, plans, pool and jobs of rules.      *)
(*                                                                         *)
(* The argument: a request that has been refused has no job, and none of   *)
(* its own in the queue, so nothing can start for it; what else can become *)
(* of a request is listed, each outcome with its answer, its audit entries *)
(* and whether its action ran.                                             *)
(***************************************************************************)
EXTENDS Api, SequenceTheorems, WellFoundedInduction, TLAPS

Domains ==
  /\ DOMAIN at = Asks /\ DOMAIN reply = Asks /\ DOMAIN audit = Asks
  /\ DOMAIN via = Asks /\ DOMAIN reached = Asks /\ DOMAIN shown = Asks
  /\ DOMAIN state = JobIds
  /\ queue \in Seq(Made)
  /\ plan \in Plans

Queued(r) == \E i \in DOMAIN queue : queue[i] = r
Started(r) == state[r] \notin {"none", "skipped"}
Untouched(r) == ~Ran(r) /\ state[r] = "none" /\ ~Queued(r)

\* The provider selected is the phone's own.
Own(r) == Endpoint(r) # "none" /\ (Endpoint(r) = Asked(r).target.serial \/ (Endpoint(r) = "ssh" /\ Asked(r).target.ssh))

\* What a job has come to, as far as requests can tell.
JobHolds(r) ==
  /\ Queued(r) \/ state[r] # "none" => IsJob(r) /\ Own(r) /\ at[r] \in {"wait", "done"}
  /\ IsJob(r) => (Ran(r) <=> Started(r))
  /\ Ran(r) => Asked(r).kind = "action" /\ (reached[r] = Endpoint(r)) /\ Own(r)
  /\ shown[r] \in {"none", "skipped", "running"}
  /\ shown[r] = "skipped" => state[r] = "skipped"
  /\ shown[r] = "running" => Started(r)

Immediate(r) == Asked(r).kind = "action" /\ ~IsJob(r)

Outcome(r) ==
  \/ Untouched(r) /\ reply[r] \notin {200, 202} /\ audit[r] \in {<<>>, <<"blocked">>, <<"failed">>}
  \/ Asked(r).kind = "cancel" /\ Untouched(r)
  \/ Immediate(r) /\ Ran(r) /\ reply[r] = 200 /\ audit[r] = <<"started", "completed">>
  \/ Immediate(r) /\ Ran(r) /\ reply[r] \in {409, 502} /\ audit[r] = <<"started", "failed">>
  \/ IsJob(r) /\ state[r] = "skipped" /\ reply[r] = 409 /\ audit[r] = <<"blocked">>
  \/ IsJob(r) /\ Started(r) /\ reply[r] = 202 /\ audit[r] = <<"started">>
  \/ IsJob(r) /\ reply[r] = 500 /\ audit[r] = <<>>

\* Where a request's handler is, and what it has written until then.
HandlerHolds(r) ==
  /\ at[r] \in {"new", "ready", "token"} => Untouched(r) /\ audit[r] = <<>>
  /\ at[r] = "token" => Asked(r).kind = "cancel"
  /\ at[r] = "run" => Immediate(r) /\ Own(r) /\ Untouched(r) /\ audit[r] = <<"started">>
  /\ at[r] = "submit" => IsJob(r) /\ Own(r) /\ Untouched(r) /\ audit[r] = <<>>
  /\ at[r] = "wait" => IsJob(r) /\ audit[r] = <<>>
  /\ at[r] = "done" => Outcome(r)

\* Requests that are not made stay as they are.
NotMade(r) == at[r] = "new" /\ reached[r] = "none"

IInv ==
  /\ Domains
  /\ \A r \in Made : JobHolds(r) /\ HandlerHolds(r)
  /\ \A r \in Asks \ Made : NotMade(r)

LEMMA InitIInv == Init => IInv
<1> SUFFICES ASSUME Init PROVE IInv
  OBVIOUS
<1>1. Domains
  BY DEF Init, Domains, Job!Init
<1>2. Made \subseteq Asks
  BY ApiAssumption DEF Init, Made
<1>3. ASSUME NEW r \in Asks
      PROVE  /\ at[r] = "new" /\ audit[r] = <<>> /\ reached[r] = "none" /\ shown[r] = "none"
             /\ state[r] = "none" /\ ~Queued(r)
  BY DEF Init, Job!Init, JobIds, Queued
<1> QED
  BY <1>1, <1>2, <1>3 DEF IInv, NotMade, JobHolds, HandlerHolds, Untouched, Ran, Started

LEMMA Plain ==
  ASSUME IInv
  PROVE  /\ Made \subseteq Asks
         /\ \A r \in Made : \/ Asked(r).kind = "cancel"
                            \/ /\ Asked(r).kind = "action" /\ Asked(r).action \in DOMAIN Specs
                               /\ Asked(r).target.serial # "none"
BY ApiAssumption DEF IInv, Domains, Made, Asked

(***************************************************************************)
(* The provider                                                            *)
(***************************************************************************)
\* A serial that is asked for is the one that is selected, or none is.
LEMMA SerialIsKept ==
  ASSUME NEW wire, NEW serial, serial # NoSerial, SelectDevice(wire, serial).ok
  PROVE  SelectDevice(wire, serial) = Selected(serial)
<1>1. \A code : ~Failed(code).ok
  BY DEF Failed
<1>2. \A how : ~Blocked(how).ok
  BY <1>1 DEF Blocked
<1> QED
  BY <1>1, <1>2 DEF SelectDevice

LEMMA ProviderIsOwn ==
  ASSUME NEW target, NEW a \in DOMAIN Specs, NEW wire, SelectFor(target, Specs[a], wire).ok
  PROVE  LET provider == SelectFor(target, Specs[a], wire) IN
         \/ provider.provider = "adb" /\ provider.serial = target.serial
         \/ provider.provider = "ssh" /\ target.ssh
<1> DEFINE over == Specs[a].over
           transport == IF over = {"adb", "ssh"}
                        THEN IF target.serial # NoSerial THEN "auto" ELSE "ssh"
                        ELSE CHOOSE t \in over : TRUE
           asked == IF transport = "ssh" THEN NoSerial ELSE target.serial
           provider == SelectProvider(transport, asked, target.ssh, wire)
<1>1. over \in {{"adb", "ssh"}, {"adb"}, {"ssh"}}
  BY DEF Specs
<1>2. transport \in {"auto", "ssh", "adb"} /\ (transport = "auto" => target.serial # NoSerial)
  BY <1>1
<1>3. \A code : ~Failed(code).ok
  BY DEF Failed
<1>4. /\ ~NeedsSerial(transport, target) /\ (transport = "ssh" => target.ssh)
      /\ SelectFor(target, Specs[a], wire) = provider
  BY <1>3 DEF SelectFor
<1>5. transport # "ssh" => asked = target.serial /\ asked # NoSerial
  BY <1>2, <1>4 DEF NeedsSerial
<1> HIDE DEF transport, asked
<1>6. transport # "ssh" /\ SelectDevice(wire, asked).ok => SelectDevice(wire, asked).serial = target.serial
  BY <1>5, SerialIsKept DEF Selected
<1>7. CASE transport = "ssh"
  <2>1. provider = [ok |-> TRUE, provider |-> "ssh"]
    BY <1>4, <1>7 DEF SelectProvider
  <2> QED
    BY <1>4, <1>7, <2>1
<1>8. CASE transport # "ssh" /\ SelectDevice(wire, asked).ok
  <2>1. provider = [ok |-> TRUE, provider |-> "adb", serial |-> SelectDevice(wire, asked).serial]
    BY <1>8 DEF SelectProvider
  <2> QED
    BY <1>4, <1>6, <1>8, <2>1
<1>9. CASE transport # "ssh" /\ ~SelectDevice(wire, asked).ok
  <2>1. transport # "adb"
    BY <1>4, <1>9 DEF SelectProvider
  <2>2. transport = "auto"
    BY <1>2, <1>9, <2>1
  <2>3. provider = IF target.ssh THEN [ok |-> TRUE, provider |-> "ssh"] ELSE Failed("unreachable")
    BY <1>9, <2>2 DEF SelectProvider
  <2>4. CASE target.ssh
    <3>1. provider = [ok |-> TRUE, provider |-> "ssh"]
      BY <2>3, <2>4
    <3>2. provider.provider = "ssh"
      BY <3>1
    <3> HIDE DEF provider
    <3> QED
      BY <1>4, <2>4, <3>2
  <2>5. CASE ~target.ssh
    BY <1>3, <1>4, <2>3, <2>5
  <2> QED
    BY <2>4, <2>5
<1> QED
  BY <1>7, <1>8, <1>9

(***************************************************************************)
(* One lemma per kind of step                                              *)
(***************************************************************************)
SameRequest(r) ==
  /\ at'[r] = at[r] /\ reply'[r] = reply[r] /\ audit'[r] = audit[r]
  /\ via'[r] = via[r] /\ reached'[r] = reached[r]

\* A request that the step is not about: its job at most goes on, its place in the queue at most is lost.
LEMMA OtherRequest ==
  ASSUME NEW r \in Made, JobHolds(r), HandlerHolds(r), UNCHANGED plan, SameRequest(r), shown'[r] = shown[r],
         Queued(r)' => Queued(r),
         state'[r] = state[r] \/ (Started(r) /\ Started(r)')
  PROVE  JobHolds(r)' /\ HandlerHolds(r)'
<1>1. /\ (Started(r)' <=> Started(r)) /\ (state'[r] = "none" <=> state[r] = "none")
      /\ (state'[r] = "skipped" <=> state[r] = "skipped")
  BY DEF Started
<1>2. Ran(r)' = Ran(r) /\ Asked(r)' = Asked(r) /\ IsJob(r)' = IsJob(r) /\ Immediate(r)' = Immediate(r)
  BY DEF SameRequest, Ran, Asked, IsJob, Immediate
<1>3. Endpoint(r)' = Endpoint(r)
  BY DEF SameRequest, Endpoint
<1>4. Own(r)' = Own(r)
  BY <1>2, <1>3 DEF Own
<1>5. JobHolds(r)'
  BY <1>1, <1>2, <1>3, <1>4 DEF JobHolds, SameRequest
<1>6. Untouched(r) => Untouched(r)'
  BY <1>1, <1>2 DEF Untouched
<1>7. HandlerHolds(r)'
  BY <1>1, <1>2, <1>4, <1>6 DEF HandlerHolds, Outcome, SameRequest
<1> QED
  BY <1>5, <1>7

\* A step of the job layer that starts nothing for a request.
LEMMA JobLayerStep ==
  ASSUME IInv, UNCHANGED <<plan, at, reply, audit, via, reached, shown>>, DOMAIN state' = JobIds,
         queue' \in Seq(Made), \A r \in Made : Queued(r)' => Queued(r),
         \A r \in Made : state'[r] = state[r] \/ (Started(r) /\ Started(r)')
  PROVE  IInv'
<1>1. Domains' /\ Made' = Made
  BY DEF IInv, Domains, Made
<1>2. ASSUME NEW r \in Made PROVE JobHolds(r)' /\ HandlerHolds(r)'
  BY OtherRequest DEF IInv, SameRequest
<1> QED
  BY <1>1, <1>2 DEF IInv, NotMade

\* The handler of r takes a step, and the job layer none.
Beside(r) ==
  /\ \A q \in Asks : q # r => at'[q] = at[q] /\ reply'[q] = reply[q] /\ audit'[q] = audit[q]
                              /\ via'[q] = via[q] /\ reached'[q] = reached[q]
  /\ DOMAIN at' = Asks /\ DOMAIN reply' = Asks /\ DOMAIN audit' = Asks /\ DOMAIN via' = Asks /\ DOMAIN reached' = Asks

LEMMA HandlerStep ==
  ASSUME IInv, NEW r \in Made, UNCHANGED <<plan, state, shown>>, Beside(r), queue' \in Seq(Made),
         \A q \in Made : q # r => (Queued(q)' => Queued(q)),
         JobHolds(r)', HandlerHolds(r)'
  PROVE  IInv'
<1>1. Domains' /\ Made' = Made
  BY DEF IInv, Domains, Made, Beside
<1>2. ASSUME NEW q \in Made, q # r PROVE JobHolds(q)' /\ HandlerHolds(q)'
  BY <1>2, Plain, OtherRequest DEF IInv, SameRequest, Beside
<1>3. \A q \in Asks \ Made : NotMade(q)'
  BY DEF IInv, NotMade, Beside
<1> QED
  BY <1>1, <1>2, <1>3 DEF IInv

\* What an answer leaves of the request's handler.
LEMMA AnswerFields ==
  ASSUME IInv, NEW r \in Made, NEW status, NEW decision, Answer(r, status, decision), UNCHANGED <<via, reached>>
  PROVE  Beside(r) /\ at'[r] = "done" /\ reply'[r] = status /\ audit'[r] = Append(audit[r], decision)
BY Plain DEF Answer, Goto, Reply, Write, Beside, IInv, Domains

LEMMA UnwrittenFields ==
  ASSUME IInv, NEW r \in Made, NEW status, AnswerUnwritten(r, status), UNCHANGED <<via, reached>>
  PROVE  Beside(r) /\ at'[r] = "done" /\ reply'[r] = status /\ audit'[r] = audit[r]
BY Plain DEF AnswerUnwritten, Goto, Reply, Beside, IInv, Domains

\* A request that ends as one of the listed outcomes, and whose job is not touched.
LEMMA Answered ==
  ASSUME IInv, NEW r \in Made, UNCHANGED <<plan, state, shown, queue, via>>, Beside(r), reached'[r] = reached[r],
         at'[r] = "done", Outcome(r)'
  PROVE  IInv'
<1>1. Ran(r)' = Ran(r) /\ Asked(r)' = Asked(r) /\ IsJob(r)' = IsJob(r) /\ Started(r)' = Started(r) /\ Queued(r)' = Queued(r)
  BY DEF Ran, Asked, IsJob, Started, Queued
<1>2. Endpoint(r)' = Endpoint(r)
  BY DEF Endpoint
<1>3. Own(r)' = Own(r)
  BY <1>1, <1>2 DEF Own
<1>4. JobHolds(r)
  BY DEF IInv
<1>5. JobHolds(r)'
  BY <1>1, <1>2, <1>3, <1>4 DEF JobHolds
<1>6. HandlerHolds(r)'
  BY DEF HandlerHolds
<1> QED
  BY <1>5, <1>6, HandlerStep DEF IInv, Domains, Queued

LEMMA Written == \A d : Append(<<>>, d) = <<d>> /\ Append(<<"started">>, d) = <<"started", d>>
<1> SUFFICES ASSUME NEW d PROVE Append(<<>>, d) = <<d>> /\ Append(<<"started">>, d) = <<"started", d>>
  OBVIOUS
<1> DEFINE S == {"started", d}
           none == <<>>
           one == <<"started">>
<1>1. none \in Seq(S) /\ one \in Seq(S) /\ <<d>> \in Seq(S) /\ <<"started", d>> \in Seq(S)
  OBVIOUS
<1>2. Len(none) = 0 /\ Len(one) = 1 /\ one[1] = "started" /\ d \in S
  OBVIOUS
<1> HIDE DEF S, none, one
<1> DEFINE first == Append(none, d)
           second == Append(one, d)
<1>3. first \in Seq(S) /\ Len(first) = 1 /\ first[1] = d
  BY <1>1, <1>2
<1>4. second \in Seq(S) /\ Len(second) = 2 /\ second[1] = "started" /\ second[2] = d
  <2>1. second \in Seq(S) /\ Len(second) = Len(one) + 1 /\ second[Len(one) + 1] = d
    BY <1>1, <1>2, AppendProperties
  <2>2. \A i \in 1 .. Len(one) : second[i] = one[i]
    BY <1>1, <1>2, AppendProperties
  <2> QED
    BY <1>2, <2>1, <2>2
<1> HIDE DEF first, second
<1>5. first = <<d>>
  <2>1. Len(<<d>>) = 1 /\ \A i \in 1 .. 1 : first[i] = <<d>>[i]
    BY <1>3
  <2> QED
    BY <1>1, <1>3, <2>1, SeqEqual
<1>6. second = <<"started", d>>
  <2>1. Len(<<"started", d>>) = 2 /\ \A i \in 1 .. 2 : second[i] = <<"started", d>>[i]
    BY <1>4
  <2> QED
    BY <1>1, <1>4, <2>1, SeqEqual
<1> QED
  BY <1>5, <1>6 DEF none, one, first, second

Faults == {"host", "origin", "options", "token_in_url", "no_token", "unknown_token", "no_route", "method",
           "route_scope", "too_large", "not_json_type", "not_json", "no_action", "correlation_id",
           "unknown_field", "not_implemented", "unknown_action", "action_scope", "broken_config",
           "no_such_device", "bad_parameters", "has_body"}

LEMMA ChecksAreSequences ==
  /\ HeaderChecks \in Seq(Faults \X Int) /\ ActionChecks \in Seq(Faults \X Int) /\ CancelChecks \in Seq(Faults \X Int)
BY DEF HeaderChecks, ActionChecks, CancelChecks, Faults

\* The checks are numbered, so of those that fail there is a first one.
LEMMA FirstFault == ASSUME NEW r, Failing(r) # {} PROVE Min(Failing(r)) \in DOMAIN Checks(r)
<1> DEFINE R == {ss \in Nat \X Nat : ss[1] < ss[2]}
           S == Failing(r)
<1>1. S \subseteq Nat /\ S \subseteq DOMAIN Checks(r)
  <2>1. Checks(r) \in Seq(Faults \X Int)
    BY ChecksAreSequences DEF Checks
  <2> QED
    BY <2>1 DEF Failing
<1> HIDE DEF S
<1>2. IsWellFoundedOn(R, Nat)
  BY NatLessThanWellFounded DEF OpToRel
<1> HIDE DEF R
<1>3. PICK x \in S : \A y \in S : <<y, x>> \notin R
  BY <1>1, <1>2, WFMin DEF S
<1>4. ASSUME NEW y \in S PROVE x <= y
  <2>1. x \in Nat /\ y \in Nat
    BY <1>1
  <2>2. y < x => <<y, x>> \in R
    BY <2>1 DEF R
  <2> QED
    BY <1>3, <2>1, <2>2
<1>5. Min(S) \in S
  BY <1>4 DEF Min
<1> QED
  BY <1>1, <1>5 DEF S

\* No check answers as if the request had succeeded.
LEMMA ChecksRefuse ==
  ASSUME NEW r, NEW i \in DOMAIN Checks(r)
  PROVE  Checks(r)[i][2] \notin {200, 202}
<1> DEFINE more == IF Asked(r).kind = "action" THEN ActionChecks ELSE CancelChecks
<1>1. HeaderChecks \in Seq(Faults \X Int)
  BY ChecksAreSequences
<1>2. \A k \in DOMAIN HeaderChecks : HeaderChecks[k][2] \notin {200, 202}
  BY DEF HeaderChecks
<1>3. \A k \in DOMAIN more : more[k][2] \notin {200, 202}
  BY DEF ActionChecks, CancelChecks
<1>4. more \in Seq(Faults \X Int)
  BY ChecksAreSequences
<1> HIDE DEF more
<1>5. Checks(r) = HeaderChecks \o more
  BY DEF Checks, more
<1>6. CASE i <= Len(HeaderChecks)
  BY <1>1, <1>2, <1>4, <1>5, <1>6
<1>7. CASE ~(i <= Len(HeaderChecks))
  <2>1. Checks(r)[i] = more[i - Len(HeaderChecks)] /\ i - Len(HeaderChecks) \in DOMAIN more
    BY <1>1, <1>4, <1>5, <1>7
  <2> QED
    BY <1>3, <2>1
<1> QED
  BY <1>6, <1>7

LEMMA CheckStep == ASSUME IInv, NEW r \in Made, Check(r) PROVE IInv'
<1>1. /\ at[r] = "new" /\ Untouched(r) /\ audit[r] = <<>> /\ r \in Asks
      /\ UNCHANGED <<plan, state, shown, queue, via, reached>>
  BY Plain DEF Check, IInv, HandlerHolds, jobVars
<1>2. Untouched(r)'
  BY <1>1 DEF Untouched, Ran, Queued
<1>3. CASE Goto(r, "ready") /\ UNCHANGED <<reply, audit>>
  <2>1. Beside(r) /\ at'[r] = "ready" /\ audit'[r] = <<>>
    BY <1>1, <1>3 DEF Goto, Beside, IInv, Domains
  <2>2. JobHolds(r)'
    BY <1>1, <1>2 DEF IInv, JobHolds, Untouched, Ran, Started
  <2>3. HandlerHolds(r)'
    BY <1>2, <2>1 DEF HandlerHolds
  <2> QED
    BY <1>1, <2>1, <2>2, <2>3, HandlerStep DEF IInv, Domains, Queued
<1>4. CASE Failing(r) # {}
  <2> DEFINE check == Checks(r)[Min(Failing(r))]
  <2>1. Min(Failing(r)) \in DOMAIN Checks(r)
    BY <1>4, FirstFault
  <2>2. check[2] \notin {200, 202}
    BY <2>1, ChecksRefuse
  <2> HIDE DEF check
  <2>3. Answer(r, check[2], "blocked") \/ AnswerUnwritten(r, check[2])
    BY <1>4 DEF Check, check
  <2>4. /\ Beside(r) /\ at'[r] = "done" /\ reply'[r] = check[2]
        /\ audit'[r] \in {<<>>, <<"blocked">>}
    <3>1. CASE Answer(r, check[2], "blocked")
      BY <1>1, <3>1, AnswerFields, Written
    <3>2. CASE AnswerUnwritten(r, check[2])
      BY <1>1, <3>2, UnwrittenFields
    <3> QED
      BY <2>3, <3>1, <3>2
  <2>5. Outcome(r)'
    BY <1>2, <2>2, <2>4 DEF Outcome
  <2> QED
    BY <1>1, <2>4, <2>5, Answered
<1> QED
  BY <1>3, <1>4 DEF Check

LEMMA ExecuteStep == ASSUME IInv, NEW r \in Made, Execute(r) PROVE IInv'
<1> DEFINE spec == Specs[Asked(r).action]
<1>1. /\ at[r] = "ready" /\ Asked(r).kind = "action" /\ Untouched(r) /\ audit[r] = <<>> /\ r \in Asks
      /\ UNCHANGED <<plan, state, shown, queue, reached>>
  BY Plain DEF Execute, IInv, HandlerHolds, jobVars
<1>2. Untouched(r)' /\ Asked(r)' = Asked(r) /\ IsJob(r)' = IsJob(r)
  BY <1>1 DEF Untouched, Ran, Queued, Asked, IsJob
<1>3. Asked(r).action \in DOMAIN Specs /\ Asked(r).target.serial # "none"
  BY <1>1, Plain
<1>4. IsJob(r) <=> spec.job
  BY <1>1 DEF IsJob
<1>5. CASE /\ UNCHANGED via
           /\ \E code \in {409, 502, 500, 503}, decision \in {"failed", "blocked"} : Answer(r, code, decision)
  <2>1. PICK code \in {409, 502, 500, 503}, decision \in {"failed", "blocked"} : Answer(r, code, decision)
    BY <1>5
  <2>2. Beside(r) /\ at'[r] = "done" /\ reply'[r] = code /\ audit'[r] = <<decision>>
    BY <1>1, <1>5, <2>1, AnswerFields, Written
  <2>3. Outcome(r)'
    BY <1>2, <2>2 DEF Outcome
  <2> QED
    BY <1>1, <1>5, <2>2, <2>3, Answered
<1>6. ASSUME NEW wire, SelectFor(Asked(r).target, spec, wire).ok,
             via' = [via EXCEPT ![r] = SelectFor(Asked(r).target, spec, wire)],
             \/ spec.job /\ Goto(r, "submit") /\ UNCHANGED <<reply, audit>>
             \/ ~spec.job /\ Goto(r, "run") /\ Write(r, "started") /\ UNCHANGED reply
      PROVE  IInv'
  <2> DEFINE provider == SelectFor(Asked(r).target, spec, wire)
  <2>1. \/ provider.provider = "adb" /\ provider.serial = Asked(r).target.serial
        \/ provider.provider = "ssh" /\ Asked(r).target.ssh
    BY <1>3, <1>6, ProviderIsOwn
  <2> HIDE DEF provider
  <2>2. via'[r] = provider /\ DOMAIN via' = Asks /\ \A q \in Asks : q # r => via'[q] = via[q]
    BY <1>1, <1>6 DEF provider, IInv, Domains
  <2>3. Own(r)'
    BY <1>2, <1>3, <2>1, <2>2 DEF Own, Endpoint
  <2>4. JobHolds(r)'
    BY <1>1, <1>2 DEF IInv, JobHolds, Untouched, Ran, Started
  <2>5. CASE spec.job /\ Goto(r, "submit") /\ UNCHANGED <<reply, audit>>
    <3>1. Beside(r) /\ at'[r] = "submit" /\ audit'[r] = <<>>
      BY <1>1, <2>2, <2>5 DEF Goto, Beside, IInv, Domains
    <3>2. HandlerHolds(r)'
      BY <1>2, <1>4, <2>3, <2>5, <3>1 DEF HandlerHolds
    <3> QED
      BY <1>1, <2>4, <3>1, <3>2, HandlerStep DEF IInv, Domains, Queued
  <2>6. CASE ~spec.job /\ Goto(r, "run") /\ Write(r, "started") /\ UNCHANGED reply
    <3>1. Beside(r) /\ at'[r] = "run" /\ audit'[r] = <<"started">>
      BY <1>1, <2>2, <2>6, Written DEF Goto, Write, Beside, IInv, Domains
    <3>2. Immediate(r)'
      BY <1>1, <1>2, <1>4, <2>6 DEF Immediate
    <3>3. HandlerHolds(r)'
      BY <1>2, <2>3, <3>1, <3>2 DEF HandlerHolds
    <3> QED
      BY <1>1, <2>4, <3>1, <3>3, HandlerStep DEF IInv, Domains, Queued
  <2> QED
    BY <1>6, <2>5, <2>6
<1>7. \A code : StatusOf(code) \in {409, 502, 500, 503}
  BY DEF StatusOf
<1> QED
  BY <1>5, <1>6, <1>7 DEF Execute

LEMMA RunImmediateStep == ASSUME IInv, NEW r \in Made, RunImmediate(r) PROVE IInv'
<1>1. /\ at[r] = "run" /\ Immediate(r) /\ Own(r) /\ Untouched(r) /\ audit[r] = <<"started">> /\ r \in Asks
      /\ JobHolds(r) /\ UNCHANGED <<plan, state, shown, queue, via>>
  BY Plain DEF RunImmediate, IInv, HandlerHolds, jobVars
<1>2. PICK status, decision :
        /\ Answer(r, status, decision)
        /\ (status = 200 /\ decision = "completed") \/ (status \in {409, 502} /\ decision = "failed")
  <2>1. CASE Answer(r, 200, "completed")
    BY <2>1
  <2>2. ASSUME NEW code \in {409, 502}, Answer(r, code, "failed")
        PROVE  \E status, decision :
                 /\ Answer(r, status, decision)
                 /\ (status = 200 /\ decision = "completed") \/ (status \in {409, 502} /\ decision = "failed")
    BY <2>2
  <2> QED
    BY <2>1, <2>2 DEF RunImmediate
<1>3. /\ Beside(r) /\ at'[r] = "done" /\ reply'[r] = status /\ audit'[r] = <<"started", decision>>
      /\ reached'[r] = Endpoint(r)
  BY <1>1, <1>2, Written DEF RunImmediate, Answer, Goto, Reply, Write, Beside, IInv, Domains
<1>4. Endpoint(r)' = Endpoint(r) /\ Asked(r)' = Asked(r) /\ Immediate(r)' /\ ~IsJob(r)' /\ Queued(r)' = Queued(r)
  BY <1>1 DEF Endpoint, Asked, Immediate, IsJob, Queued
<1>5. Own(r)' /\ Ran(r)' /\ Asked(r)'.kind = "action"
  BY <1>1, <1>3, <1>4 DEF Own, Ran, Immediate
<1>6. JobHolds(r)'
  BY <1>1, <1>3, <1>4, <1>5 DEF JobHolds, Untouched, Started
<1>7. HandlerHolds(r)'
  BY <1>2, <1>3, <1>4, <1>5 DEF HandlerHolds, Outcome
<1> QED
  BY <1>1, <1>3, <1>6, <1>7, HandlerStep DEF IInv, Domains, Queued

LEMMA SubmitStep == ASSUME IInv, NEW r \in Made, Submit(r) PROVE IInv'
<1>1. /\ at[r] = "submit" /\ IsJob(r) /\ Own(r) /\ Untouched(r) /\ audit[r] = <<>> /\ r \in Asks
      /\ JobHolds(r) /\ UNCHANGED <<plan, state, shown, via, reached>>
  BY Plain DEF Submit, IInv, HandlerHolds, jobVars
<1>2. IsJob(r)' /\ Untouched(r)' = (~Ran(r) /\ state[r] = "none" /\ ~Queued(r)')
  BY <1>1 DEF IsJob, Asked, Untouched, Ran
<1>3. CASE closed /\ AnswerUnwritten(r, 500) /\ UNCHANGED queue
  <2>1. Beside(r) /\ at'[r] = "done" /\ reply'[r] = 500 /\ audit'[r] = <<>>
    BY <1>1, <1>3, UnwrittenFields
  <2>2. Outcome(r)'
    BY <1>2, <2>1 DEF Outcome
  <2> QED
    BY <1>1, <1>3, <2>1, <2>2, Answered
<1>4. CASE queue' = Append(queue, r) /\ Goto(r, "wait") /\ UNCHANGED <<reply, audit>>
  <2>1. Beside(r) /\ at'[r] = "wait" /\ audit'[r] = <<>>
    BY <1>1, <1>4 DEF Goto, Beside, IInv, Domains
  <2>2. queue' \in Seq(Made) /\ \A q : q # r /\ Queued(q)' => Queued(q)
    <3>1. queue \in Seq(Made)
      BY DEF IInv, Domains
    <3> QED
      BY <1>1, <1>4, <3>1, AppendProperties DEF Queued
  <2>3. Endpoint(r)' = Endpoint(r) /\ Asked(r)' = Asked(r) /\ Ran(r)' = Ran(r) /\ Started(r)' = Started(r)
    BY <1>1 DEF Endpoint, Asked, Ran, Started
  <2>4. Own(r)'
    BY <1>1, <2>3 DEF Own
  <2>5. JobHolds(r)'
    BY <1>1, <1>2, <2>1, <2>3, <2>4 DEF JobHolds
  <2>6. HandlerHolds(r)'
    BY <1>2, <2>1 DEF HandlerHolds
  <2> QED
    BY <1>1, <2>1, <2>2, <2>5, <2>6, HandlerStep
<1> QED
  BY <1>3, <1>4 DEF Submit

LEMMA SeeStartedStep == ASSUME IInv, NEW r \in Made, SeeStarted(r) \/ StopWaiting(r) PROVE IInv'
<1>1. /\ at[r] = "wait" /\ IsJob(r) /\ audit[r] = <<>> /\ r \in Asks
      /\ JobHolds(r) /\ UNCHANGED <<plan, state, shown, queue, via, reached>>
  BY Plain DEF SeeStarted, StopWaiting, GivesUp, IInv, HandlerHolds, jobVars
<1>2. IsJob(r)' /\ Started(r)' = Started(r) /\ Ran(r)' = Ran(r)
  BY <1>1 DEF IsJob, Asked, Started, Ran
<1>3. CASE SeeStarted(r) /\ Skipped(r)
  <2>1. Beside(r) /\ at'[r] = "done" /\ reply'[r] = 409 /\ audit'[r] = <<"blocked">>
    BY <1>1, <1>3, AnswerFields, Written DEF SeeStarted, StartedAudit
  <2>2. state[r] = "skipped"
    BY <1>1, <1>3 DEF Skipped, JobHolds
  <2>3. Outcome(r)'
    BY <1>1, <1>2, <2>1, <2>2 DEF Outcome
  <2> QED
    BY <1>1, <2>1, <2>3, Answered
<1>4. CASE SeeStarted(r) /\ ~Skipped(r)
  <2>1. Beside(r) /\ at'[r] = "done" /\ reply'[r] = 202 /\ audit'[r] = <<"started">>
    BY <1>1, <1>4, AnswerFields, Written DEF SeeStarted, StartedAudit
  <2>2. Started(r)
    BY <1>1, <1>4 DEF SeeStarted, Skipped, JobHolds
  <2>3. Outcome(r)'
    BY <1>2, <2>1, <2>2 DEF Outcome
  <2> QED
    BY <1>1, <2>1, <2>3, Answered
<1>5. CASE StopWaiting(r)
  <2>1. Beside(r) /\ at'[r] = "done" /\ reply'[r] = 500 /\ audit'[r] = <<>>
    BY <1>1, <1>5, UnwrittenFields DEF StopWaiting
  <2>2. Outcome(r)'
    BY <1>2, <2>1 DEF Outcome
  <2> QED
    BY <1>1, <2>1, <2>2, Answered
<1> QED
  BY <1>3, <1>4, <1>5

\* A request that cancels has no job of its own.
LEMMA CancelReadStep == ASSUME IInv, NEW r \in Made, CancelRead(r) \/ CancelToken(r) PROVE IInv'
<1>1. /\ at[r] \in {"ready", "token"} /\ Asked(r).kind = "cancel" /\ Untouched(r) /\ audit[r] = <<>> /\ r \in Asks
      /\ JobHolds(r) /\ UNCHANGED <<plan, state, shown, queue, via, reached>>
  BY Plain DEF CancelRead, CancelToken, IInv, HandlerHolds, jobVars
<1>2. Untouched(r)' /\ Asked(r)' = Asked(r)
  BY <1>1 DEF Untouched, Ran, Queued, Asked
<1>3. CASE Goto(r, "token") /\ UNCHANGED <<reply, audit>>
  <2>1. Beside(r) /\ at'[r] = "token" /\ audit'[r] = <<>>
    BY <1>1, <1>3 DEF Goto, Beside, IInv, Domains
  <2>2. JobHolds(r)'
    BY <1>1, <1>2 DEF JobHolds, Untouched, Ran, Started
  <2>3. HandlerHolds(r)'
    BY <1>1, <1>2, <2>1 DEF HandlerHolds
  <2> QED
    BY <1>1, <2>1, <2>2, <2>3, HandlerStep DEF IInv, Domains, Queued
<1>4. ASSUME NEW status, AnswerUnwritten(r, status) \/ \E decision : Answer(r, status, decision) PROVE IInv'
  <2>1. Beside(r) /\ at'[r] = "done"
    BY <1>1, <1>4, AnswerFields, UnwrittenFields
  <2>2. Outcome(r)'
    BY <1>1, <1>2 DEF Outcome
  <2> QED
    BY <1>1, <2>1, <2>2, Answered
<1> QED
  BY <1>3, <1>4 DEF CancelRead, CancelToken

(***************************************************************************)
(* The runner's steps                                                      *)
(***************************************************************************)
\* A worker starts the first job of the queue, or skips it.
LEMMA WorkerStep == ASSUME IInv, WorkerTakes PROVE IInv'
<1>0. PICK r : r = Head(queue)
  OBVIOUS
<1>1. /\ queue \in Seq(Made) /\ queue # <<>> /\ queue' = Tail(queue)
      /\ UNCHANGED <<plan, at, reply, audit, via, shown>>
  BY DEF WorkerTakes, IInv, Domains
<1>2. Queued(r) /\ r \in Made /\ r \in Asks /\ queue' \in Seq(Made) /\ \A q : Queued(q)' => Queued(q)
  BY <1>0, <1>1, Plain DEF Queued
<1>3. /\ Job!Start(r, KeyOf(r)) \/ Job!Skip(r, KeyOf(r))
      /\ reached' = [reached EXCEPT ![r] = IF state'[r] = "skipped" THEN @ ELSE Endpoint(r)]
  BY <1>0 DEF WorkerTakes
<1>4. /\ state[r] = "none" /\ r \in JobIds
      /\ \/ state' = [state EXCEPT ![r] = "running"]
         \/ state' = [state EXCEPT ![r] = "skipped"]
  BY <1>2, <1>3 DEF Job!Start, Job!Skip, JobIds
<1>5. /\ state'[r] \in {"running", "skipped"} /\ DOMAIN state' = JobIds /\ DOMAIN reached' = Asks
      /\ reached'[r] = IF state'[r] = "skipped" THEN reached[r] ELSE Endpoint(r)
      /\ \A q \in Asks : q # r => state'[q] = state[q] /\ reached'[q] = reached[q]
  BY <1>2, <1>3, <1>4 DEF IInv, Domains, JobIds
<1>6. Domains' /\ Made' = Made
  BY <1>1, <1>2, <1>5 DEF IInv, Domains, Made
<1>7. JobHolds(r)' /\ HandlerHolds(r)'
  <2>1. /\ JobHolds(r) /\ HandlerHolds(r) /\ IsJob(r) /\ Own(r) /\ at[r] \in {"wait", "done"} /\ ~Ran(r)
    BY <1>2, <1>4 DEF IInv, JobHolds, Started
  <2>2. /\ Asked(r)' = Asked(r) /\ IsJob(r)' = IsJob(r) /\ Immediate(r)' = Immediate(r) /\ Endpoint(r)' = Endpoint(r)
        /\ Started(r)' <=> state'[r] = "running"
    BY <1>1, <1>5 DEF Asked, IsJob, Immediate, Endpoint, Started
  <2>3. Own(r)' /\ Endpoint(r) # "none"
    BY <2>1, <2>2 DEF Own
  <2>4. Ran(r)' <=> state'[r] = "running"
    BY <1>5, <2>1, <2>3 DEF Ran
  <2>5. shown[r] = "none"
    BY <1>4, <2>1 DEF JobHolds, Started
  <2>6. state'[r] = "running" => reached'[r] = Endpoint(r)
    BY <1>5
  <2>7. JobHolds(r)'
    BY <1>1, <2>1, <2>2, <2>3, <2>4, <2>5, <2>6 DEF JobHolds, IsJob
  <2>8. at[r] = "done" => reply[r] = 500 /\ audit[r] = <<>>
    BY <1>2, <1>4, <2>1 DEF HandlerHolds, Outcome, Untouched, Started, IsJob, Immediate
  <2>9. HandlerHolds(r)'
    BY <1>1, <2>1, <2>2, <2>8 DEF HandlerHolds, Outcome
  <2> QED
    BY <2>7, <2>9
<1>8. ASSUME NEW q \in Made, q # r PROVE JobHolds(q)' /\ HandlerHolds(q)'
  BY <1>1, <1>2, <1>5, <1>8, Plain, OtherRequest DEF IInv, SameRequest
<1>9. \A q \in Asks \ Made : NotMade(q)'
  BY <1>1, <1>2, <1>5 DEF IInv, NotMade
<1> QED
  BY <1>6, <1>7, <1>8, <1>9 DEF IInv

LEMMA RuleStep == ASSUME IInv, RuleStarts PROVE IInv'
<1>1. PICK job \in plan.rules : Job!Start(job[1], job[2]) /\ JobOnly
  BY DEF RuleStarts
<1>2. /\ UNCHANGED <<plan, at, reply, audit, via, reached, shown, queue>>
      /\ state' = [state EXCEPT ![job[1]] = "running"] /\ job[1] \notin Asks
  BY <1>1, ApiAssumption DEF JobOnly, askVars, Job!Start, IInv, Domains
<1>3. \A r \in Made : state'[r] = state[r]
  BY <1>2, Plain
<1>4. DOMAIN state' = JobIds /\ queue' \in Seq(Made) /\ \A r \in Made : Queued(r)' = Queued(r)
  BY <1>2 DEF IInv, Domains, Queued
<1> QED
  BY <1>2, <1>3, <1>4, JobLayerStep

\* What the runner does with a job that has started leaves it started.
LEMMA JobStepStep == ASSUME IInv, JobStep PROVE IInv'
<1>1. UNCHANGED <<plan, at, reply, audit, via, reached, shown, queue>>
  BY DEF JobStep, JobOnly, askVars
<1>2. queue' \in Seq(Made) /\ \A r \in Made : Queued(r)' = Queued(r)
  BY <1>1 DEF IInv, Domains, Queued
<1>3. CASE \E k \in Keys : Job!Release(k)
  <2>1. UNCHANGED state
    BY <1>3 DEF Job!Release
  <2> QED
    BY <1>1, <1>2, <2>1, JobLayerStep DEF IInv, Domains
<1>4. ASSUME NEW j \in JobIds, Works(j) PROVE IInv'
  <2>1. \/ UNCHANGED state
        \/ \E to \in {"retrying", "running", "completed", "failed", "cancelled"} :
             state' = [state EXCEPT ![j] = to] /\ (j \in Made => Started(j))
    <3>1. CASE Job!Retry(j)
      BY <3>1 DEF Job!Retry, Started
    <3>2. CASE Job!Resume(j)
      BY <3>2 DEF Job!Resume, Started
    <3>3. ASSUME NEW s \in {"completed", "failed", "cancelled"}, Job!End(j, s), Called(j)
          PROVE  \E to \in {"retrying", "running", "completed", "failed", "cancelled"} :
                   state' = [state EXCEPT ![j] = to] /\ (j \in Made => Started(j))
      <4>1. state' = [state EXCEPT ![j] = s] /\ state[j] # "skipped"
        BY <3>3 DEF Job!End, Job!Terminal
      <4>2. j \in Made => state[j] # "none"
        BY <3>3, Plain DEF Called, IInv, JobHolds, Started
      <4> QED
        BY <4>1, <4>2 DEF Started
    <3>4. CASE Job!Publish(j)
      BY <3>4 DEF Job!Publish
    <3> QED
      BY <1>4, <3>1, <3>2, <3>3, <3>4 DEF Works
  <2>2. DOMAIN state' = JobIds
    BY <2>1 DEF IInv, Domains
  <2>3. ASSUME NEW r \in Made PROVE state'[r] = state[r] \/ (Started(r) /\ Started(r)')
    <3>1. r \in JobIds
      BY Plain DEF JobIds
    <3> QED
      BY <2>1, <3>1 DEF IInv, Domains, Started
  <2> QED
    BY <1>1, <1>2, <2>2, <2>3, JobLayerStep
<1> QED
  BY <1>3, <1>4 DEF JobStep

LEMMA OnStartedStep == ASSUME IInv, NEW r \in Made, OnStarted(r) PROVE IInv'
<1>1. /\ UNCHANGED <<plan, at, reply, audit, via, reached, state, queue>> /\ r \in Asks
      /\ shown' = [shown EXCEPT ![r] = IF state[r] = "skipped" THEN "skipped" ELSE "running"]
      /\ state[r] # "none"
  BY Plain DEF OnStarted, jobVars, askVars
<1>2. Domains' /\ Made' = Made
  BY <1>1 DEF IInv, Domains, Made
<1>3. ASSUME NEW q \in Made, q # r PROVE JobHolds(q)' /\ HandlerHolds(q)'
  BY <1>1, <1>3, Plain, OtherRequest DEF IInv, SameRequest, Domains, Queued
<1>4. JobHolds(r)' /\ HandlerHolds(r)'
  <2>1. shown'[r] = IF state[r] = "skipped" THEN "skipped" ELSE "running"
    BY <1>1 DEF IInv, Domains
  <2>2. /\ Ran(r)' = Ran(r) /\ Asked(r)' = Asked(r) /\ IsJob(r)' = IsJob(r) /\ Immediate(r)' = Immediate(r)
        /\ Started(r)' = Started(r) /\ Queued(r)' = Queued(r) /\ Endpoint(r)' = Endpoint(r)
    BY <1>1 DEF Ran, Asked, IsJob, Immediate, Started, Queued, Endpoint
  <2>3. Own(r)' = Own(r) /\ Untouched(r)' = Untouched(r)
    BY <1>1, <2>2 DEF Own, Untouched
  <2>4. JobHolds(r) /\ HandlerHolds(r)
    BY DEF IInv
  <2>5. JobHolds(r)'
    BY <1>1, <2>1, <2>2, <2>3, <2>4 DEF JobHolds, Started
  <2>6. HandlerHolds(r)'
    BY <1>1, <2>2, <2>3, <2>4 DEF HandlerHolds, Outcome
  <2> QED
    BY <2>5, <2>6
<1> QED
  BY <1>1, <1>2, <1>3, <1>4 DEF IInv, NotMade

LEMMA NextIInv == IInv /\ [Next]_vars => IInv'
<1> SUFFICES ASSUME IInv, [Next]_vars PROVE IInv'
  OBVIOUS
<1>1. ASSUME UNCHANGED <<plan, at, reply, audit, via, reached, shown, state>>, queue' \in Seq(Made),
             \A r \in Made : Queued(r)' => Queued(r)
      PROVE  IInv'
  BY <1>1, JobLayerStep DEF IInv, Domains
<1>2. CASE Close
  <2>1. UNCHANGED <<plan, at, reply, audit, via, reached, shown, state>> /\ queue' = <<>>
    BY <1>2 DEF Close, jobVars, askVars
  <2> QED
    BY <1>1, <2>1 DEF Queued
<1>3. CASE CancelElsewhere \/ UNCHANGED vars
  <2>1. UNCHANGED <<plan, at, reply, audit, via, reached, shown, state, queue>>
    BY <1>3 DEF CancelElsewhere, vars, jobVars, askVars
  <2> QED
    BY <1>1, <2>1 DEF IInv, Domains, Queued
<1>4. ASSUME NEW r \in Made, Handler(r) \/ OnStarted(r) PROVE IInv'
  BY <1>4, CheckStep, ExecuteStep, RunImmediateStep, SubmitStep, SeeStartedStep, CancelReadStep, OnStartedStep DEF Handler
<1> QED
  BY <1>2, <1>3, <1>4, WorkerStep, RuleStep, JobStepStep DEF Next

LEMMA Always == Spec => []IInv
BY InitIInv, NextIInv, PTL DEF Spec

(***************************************************************************)
(* The theorems                                                            *)
(***************************************************************************)
\* A request that was refused with a 4xx answer does nothing, now or later: no job of it
\* is in the queue or has started (Submit, Skipped, StopWaiting, the checks), whatever the
\* pool, the rules' jobs, other requests and the stop of the daemon do.
THEOREM RefusedDoesNothing == Spec => []RefusedRunsNothing
<1>1. IInv => RefusedRunsNothing
  <2> SUFFICES ASSUME IInv, NEW r \in Asks, at[r] = "done", reply[r] \in 400 .. 499
               PROVE  IF IsJob(r) THEN ~Ran(r) ELSE Ran(r) => Last(audit[r]) = "failed"
    BY DEF RefusedRunsNothing, Done
  <2>1. r \in Made
    BY DEF IInv, NotMade
  <2>2. JobHolds(r) /\ Outcome(r)
    BY <2>1 DEF IInv, HandlerHolds
  <2>3. Last(<<"started", "failed">>) = "failed"
    BY DEF Last
  <2>4. IsJob(r) => (Ran(r) <=> Started(r))
    BY <2>2 DEF JobHolds
  <2>5. CASE Untouched(r)
    BY <2>5 DEF Untouched
  <2>6. CASE Immediate(r) /\ audit[r] = <<"started", "failed">>
    BY <2>3, <2>6 DEF Immediate
  <2>7. CASE IsJob(r) /\ state[r] = "skipped"
    BY <2>4, <2>7 DEF Started
  <2>8. reply[r] # 200 /\ reply[r] # 202 /\ reply[r] # 500
    OBVIOUS
  <2> QED
    BY <2>2, <2>5, <2>6, <2>7, <2>8, Zenon DEF Outcome
<1> QED
  BY <1>1, Always, PTL

\* The audit log says of every action what became of it: its entries determine whether
\* the action ran and which of the two successful answers was given (post_action,
\* _run_immediate, _start_job).
THEOREM AuditIsTrue == Spec => []AuditTellsOutcome
<1>1. IInv => AuditTellsOutcome
  <2> SUFFICES ASSUME IInv, NEW r \in Asks, at[r] = "done", Asked(r).kind = "action"
               PROVE  /\ "started" \in ToSet(audit[r]) => Ran(r)
                      /\ reply[r] = 202 <=> audit[r] = <<"started">>
                      /\ reply[r] = 200 <=> audit[r] = <<"started", "completed">>
                      /\ Ran(r) => audit[r] # <<>> \/ reply[r] = 500
    BY DEF AuditTellsOutcome, Done
  <2>1. r \in Made
    BY DEF IInv, NotMade
  <2>2. JobHolds(r) /\ Outcome(r)
    BY <2>1 DEF IInv, HandlerHolds
  <2>3. /\ "started" \notin ToSet(<<>>) /\ "started" \notin ToSet(<<"blocked">>) /\ "started" \notin ToSet(<<"failed">>)
    BY DEF ToSet
  <2>4. /\ <<>> # <<"started">> /\ <<"blocked">> # <<"started">> /\ <<"failed">> # <<"started">>
        /\ <<"started", "completed">> # <<"started">> /\ <<"started", "failed">> # <<"started">>
        /\ <<>> # <<"started", "completed">> /\ <<"blocked">> # <<"started", "completed">>
        /\ <<"failed">> # <<"started", "completed">> /\ <<"started", "failed">> # <<"started", "completed">>
    OBVIOUS
  <2>5. IsJob(r) => (Ran(r) <=> Started(r))
    BY <2>2 DEF JobHolds
  <2>6. CASE Untouched(r) /\ reply[r] \notin {200, 202} /\ audit[r] \in {<<>>, <<"blocked">>, <<"failed">>}
    BY <2>3, <2>4, <2>6 DEF Untouched
  <2>7. CASE Ran(r) /\ reply[r] = 200 /\ audit[r] = <<"started", "completed">>
    BY <2>4, <2>7
  <2>8. CASE Ran(r) /\ reply[r] \in {409, 502} /\ audit[r] = <<"started", "failed">>
    BY <2>4, <2>8
  <2>9. CASE IsJob(r) /\ state[r] = "skipped" /\ reply[r] = 409 /\ audit[r] = <<"blocked">>
    BY <2>3, <2>4, <2>5, <2>9 DEF Started
  <2>10. CASE IsJob(r) /\ Started(r) /\ reply[r] = 202 /\ audit[r] = <<"started">>
    BY <2>4, <2>5, <2>10
  <2>11. CASE IsJob(r) /\ reply[r] = 500 /\ audit[r] = <<>>
    BY <2>3, <2>4, <2>11
  <2> QED
    BY <2>2, <2>6, <2>7, <2>8, <2>9, <2>10, <2>11 DEF Outcome
<1> QED
  BY <1>1, Always, PTL

\* An action runs on the device it was asked for, over its serial or its SSH endpoint,
\* whatever the computer sees on its wires when the provider is selected
\* (execute.select): no serial is ever left for adb to guess.
THEOREM ActionsReachTheirPhone == Spec => []RightPhone
<1>1. IInv => RightPhone
  <2> SUFFICES ASSUME IInv, NEW r \in Asks, Ran(r)
               PROVE  \/ reached[r] = Asked(r).target.serial
                      \/ reached[r] = "ssh" /\ Asked(r).target.ssh
    BY DEF RightPhone
  <2>1. r \in Made
    BY DEF IInv, NotMade, Ran
  <2> QED
    BY <2>1 DEF IInv, JobHolds, Own
<1> QED
  BY <1>1, Always, PTL
=============================================================================
