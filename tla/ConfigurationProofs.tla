------------------------ MODULE ConfigurationProofs ------------------------
(***************************************************************************)
(* Proofs about Configuration for any commands, profiles, phones, clients, *)
(* rules and worlds.  What a command keeps in memo is its own, so that a   *)
(* property of a command that commits needs what it found when it read the *)
(* file, and, for the files without a lock, that nobody saved since.       *)
(* The last part is about Installation, whose commands have the same       *)
(* variables; there what matters is when the daemon came.                  *)
(***************************************************************************)
EXTENDS Configuration, TLAPS

(***************************************************************************)
(* Frames                                                                  *)
(***************************************************************************)
ProfileFields == {"devices", "default"}
RecordFields == {"clients", "temporary", "cache", "revoked", "rules", "sameTick", "raced"}
ClockFields == {"tick", "ticks"}

Shape ==
  /\ DOMAIN at = Commands /\ DOMAIN reply = Commands /\ DOMAIN memo = Commands
  /\ \A c \in Commands : req[c] \in Requests
  /\ DOMAIN desk = ProfileFields \union RecordFields \union ClockFields

\* A step of command c leaves what the others are at, and answers only as it ends.
Own(c) ==
  /\ req' = req /\ DOMAIN at' = Commands /\ DOMAIN reply' = Commands /\ DOMAIN memo' = Commands
  /\ at[c] # "end" /\ (at'[c] = "end" \/ reply'[c] = reply[c])
  /\ \A d \in Commands \ {c} : at'[d] = at[d] /\ reply'[d] = reply[d] /\ memo'[d] = memo[d]

DeskKeeps(fields) == DOMAIN desk' = DOMAIN desk /\ \A f \in fields : desk'[f] = desk[f]

LEMMA ProfileFrame ==
  ASSUME Shape, NEW c \in Commands, ProfileStep(c)
  PROVE  Own(c) /\ phone' = phone /\ DeskKeeps(RecordFields \union ClockFields)
<1> USE DEF Own, DeskKeeps, Shape, ProfileFields, RecordFields, ClockFields, Goto, Fail, Answer
<1>1. CASE PairUsb(c)
  BY <1>1 DEF PairUsb, Plans
<1>2. CASE PairWireless(c)
  BY <1>2 DEF PairWireless, Plans
<1>3. CASE ConnectWireless(c)
  BY <1>3 DEF ConnectWireless
<1>4. CASE PairSsh(c)
  BY <1>4 DEF PairSsh, Plans
<1>5. CASE ProbeSsh(c)
  BY <1>5 DEF ProbeSsh
<1>6. CASE SaveProfile(c)
  BY <1>6 DEF SaveProfile
<1>7. CASE RefreshStart(c)
  BY <1>7 DEF RefreshStart
<1>8. CASE RefreshTarget(c)
  BY <1>8 DEF RefreshTarget, Scan
<1>13. CASE RefreshRoute(c)
  BY <1>13 DEF RefreshRoute
<1>14. CASE RefreshConnect(c)
  BY <1>14 DEF RefreshConnect
<1>9. CASE RefreshStops(c)
  BY <1>9 DEF RefreshStops
<1>10. CASE RefreshApply(c)
  BY <1>10 DEF RefreshApply
<1>11. CASE RemoveProfile(c)
  BY <1>11 DEF RemoveProfile
<1>12. CASE SelectDefault(c)
  BY <1>12 DEF SelectDefault
<1> QED
  BY <1>1, <1>2, <1>3, <1>4, <1>5, <1>6, <1>7, <1>8, <1>9, <1>10, <1>11, <1>12, <1>13, <1>14 DEF ProfileStep

LEMMA RecordFrame ==
  ASSUME Shape, NEW c \in Commands, RecordStep(c)
  PROVE  Own(c) /\ phone' = phone /\ DeskKeeps(ProfileFields \union ClockFields)
<1> USE DEF Own, DeskKeeps, Shape, ProfileFields, RecordFields, ClockFields, Goto, Fail, Answer
<1>1. CASE CreateStart(c)
  BY <1>1 DEF CreateStart, ClientRead
<1>2. CASE RevokeStart(c)
  BY <1>2 DEF RevokeStart, ClientRead
<1>3. CASE ClientWrite(c)
  BY <1>3 DEF ClientWrite
<1>4. CASE ClientMove(c)
  BY <1>4 DEF ClientMove
<1>5. CASE Stat(c)
  BY <1>5 DEF Stat
<1>6. CASE Authenticate(c)
  BY <1>6 DEF Authenticate
<1>7. CASE Enable(c)
  BY <1>7 DEF Enable, RulesRead
<1>8. CASE Disable(c)
  BY <1>8 DEF Disable, RulesRead
<1>9. CASE StoreRules(c)
  BY <1>9 DEF StoreRules
<1> QED
  BY <1>1, <1>2, <1>3, <1>4, <1>5, <1>6, <1>7, <1>8, <1>9 DEF RecordStep

\* Whatever is not a step of a command.
Outside == Roams \/ Ticks \/ UNCHANGED vars

LEMMA OutsideFrame ==
  ASSUME Shape, Outside
  PROVE  /\ req' = req /\ at' = at /\ reply' = reply /\ memo' = memo
         /\ DeskKeeps(ProfileFields \union RecordFields)
BY DEF Outside, Shape, DeskKeeps, Roams, Ticks, vars, ProfileFields, RecordFields, ClockFields

\* The three kinds of steps.
LEMMA Steps ==
  ASSUME [Next]_vars
  PROVE  Outside \/ \E c \in Commands : ProfileStep(c) \/ RecordStep(c)
BY DEF Next, Outside

LEMMA InitShape == Init => Shape
BY ConfigurationAssumption DEF Init, Shape, ProfileFields, RecordFields, ClockFields

LEMMA ShapeStep == ASSUME Shape, [Next]_vars PROVE Shape'
<1>1. ASSUME NEW c \in Commands, ProfileStep(c) \/ RecordStep(c) PROVE Shape'
  BY <1>1, ProfileFrame, RecordFrame DEF Shape, Own, DeskKeeps
<1>2. CASE Outside
  BY <1>2, OutsideFrame DEF Shape, DeskKeeps
<1> QED
  BY <1>1, <1>2, Steps

\* An answer is given once, by a command's last step.
Answers == \A c \in Commands : at[c] # "end" => reply[c] = Unset

LEMMA InitAnswers == Init => Answers
BY DEF Init, Answers

LEMMA AnswersStep == ASSUME Shape, Answers, [Next]_vars PROVE Answers'
<1>1. ASSUME NEW c \in Commands, ProfileStep(c) \/ RecordStep(c) PROVE Answers'
  BY <1>1, ProfileFrame, RecordFrame DEF Answers, Own
<1>2. CASE Outside
  BY <1>2, OutsideFrame DEF Answers
<1> QED
  BY <1>1, <1>2, Steps

LEMMA Acts ==
  ASSUME Shape, Answers, [Next]_vars, NEW c \in Commands, at[c] # "end", reply'[c] # Unset
  PROVE  (ProfileStep(c) \/ RecordStep(c)) /\ at'[c] = "end"
<1>1. ASSUME NEW d \in Commands \ {c}, ProfileStep(d) \/ RecordStep(d) PROVE FALSE
  BY <1>1, ProfileFrame, RecordFrame DEF Answers, Own
<1>2. CASE Outside
  BY <1>2, OutsideFrame DEF Answers
<1>3. ASSUME ProfileStep(c) \/ RecordStep(c) PROVE at'[c] = "end"
  BY <1>3, ProfileFrame, RecordFrame DEF Answers, Own
<1> QED
  BY <1>1, <1>2, <1>3, Steps

(***************************************************************************)
(* The profiles                                                            *)
(***************************************************************************)
SameProfiles == desk'.devices = desk.devices /\ desk'.default = desk.default
Saves(c) ==
  /\ req[c].op \in {"usb", "wireless", "ssh"} /\ at[c] = "save"
  /\ Allowed(desk.devices, req[c].name, memo[c][1].new)
  /\ desk'.devices = merge_profile(desk.devices, req[c].name, memo[c][1].new)
  /\ desk'.default \in {desk.default, req[c].name}
Applies(c) ==
  /\ req[c].op = "refresh" /\ at[c] = "apply" /\ reply'[c] = "success"
  /\ desk'.devices = [n \in DOMAIN desk.devices |->
       Applied(desk.devices[n], {ch \in memo[c][1].changes : ch.name = n})]
  /\ desk'.default = desk.default
Removes(c) ==
  /\ req[c].op = "remove"
  /\ desk'.devices = [n \in DOMAIN desk.devices \ {req[c].name} |-> desk.devices[n]]
  /\ desk'.default = IF desk.default = req[c].name THEN None ELSE desk.default
Selects(c) ==
  /\ req[c].op = "default"
  /\ desk'.devices = desk.devices /\ desk'.default = req[c].name /\ req[c].name \in DOMAIN desk.devices

\* What a command can do to the profiles.
LEMMA ProfileChanges ==
  ASSUME Shape, NEW c \in Commands, ProfileStep(c)
  PROVE  SameProfiles \/ Saves(c) \/ Applies(c) \/ Removes(c) \/ Selects(c)
<1> USE DEF SameProfiles, Shape, ProfileFields, RecordFields, ClockFields, Goto, Fail, Answer
<1>1. CASE SaveProfile(c)
  BY <1>1 DEF SaveProfile, Saves
<1>2. CASE RefreshApply(c)
  BY <1>2 DEF RefreshApply, Applies, Base
<1>3. CASE RemoveProfile(c)
  BY <1>3 DEF RemoveProfile, Removes
<1>4. CASE SelectDefault(c)
  BY <1>4 DEF SelectDefault, Selects, Known
<1>5. CASE PairUsb(c) \/ PairWireless(c) \/ ConnectWireless(c) \/ PairSsh(c) \/ ProbeSsh(c)
  BY <1>5 DEF PairUsb, PairWireless, ConnectWireless, PairSsh, ProbeSsh
<1>6. CASE RefreshStart(c) \/ RefreshTarget(c) \/ RefreshRoute(c) \/ RefreshConnect(c) \/ RefreshStops(c)
  BY <1>6 DEF RefreshStart, RefreshTarget, RefreshRoute, RefreshConnect, RefreshStops
<1> QED
  BY <1>1, <1>2, <1>3, <1>4, <1>5, <1>6 DEF ProfileStep

\* The default is a profile.
Defaulted == desk.default # None => desk.default \in DOMAIN desk.devices

LEMMA InitDefaulted == Init => Defaulted
BY DEF Init, Defaulted

LEMMA DefaultedStep == ASSUME Shape, Defaulted, [Next]_vars PROVE Defaulted'
<1>1. ASSUME NEW c \in Commands, ProfileStep(c) PROVE Defaulted'
  <2>1. CASE SameProfiles \/ Selects(c)
    BY <2>1 DEF Defaulted, SameProfiles, Selects
  <2>2. CASE Saves(c)
    <3>1. DOMAIN desk'.devices = DOMAIN desk.devices \union {req[c].name}
      BY <2>2 DEF Saves, merge_profile
    <3> QED
      BY <2>2, <3>1 DEF Defaulted, Saves
  <2>3. CASE Applies(c)
    BY <2>3 DEF Defaulted, Applies
  <2>4. CASE Removes(c)
    BY <2>4 DEF Defaulted, Removes
  <2> QED
    BY <1>1, <2>1, <2>2, <2>3, <2>4, ProfileChanges
<1>2. ASSUME NEW c \in Commands, RecordStep(c) PROVE Defaulted'
  BY <1>2, RecordFrame DEF Defaulted, DeskKeeps, ProfileFields
<1>3. CASE Outside
  BY <1>3, OutsideFrame DEF Defaulted, DeskKeeps, ProfileFields
<1> QED
  BY <1>1, <1>2, <1>3, Steps

\* A config that loads goes on loading, but for a refresh.
LEMMA LoadsStep ==
  ASSUME Shape, [Next]_vars, ConfigLoads
  PROVE  ConfigLoads' \/ \E c \in Commands : at[c] = "apply" /\ Commits(c)
<1>1. ASSUME NEW c \in Commands, ProfileStep(c)
      PROVE  ConfigLoads' \/ (at[c] = "apply" /\ Commits(c))
  <2>1. CASE SameProfiles \/ Selects(c)
    BY <2>1 DEF SameProfiles, Selects, ConfigLoads
  <2>2. CASE Saves(c)
    BY <2>2 DEF Saves, Allowed, ConfigLoads
  <2>3. CASE Applies(c)
    BY <2>3 DEF Applies, Commits
  <2>4. CASE Removes(c)
    BY <2>4 DEF Removes, ConfigLoads, Loads
  <2> QED
    BY <1>1, <2>1, <2>2, <2>3, <2>4, ProfileChanges
<1>2. ASSUME NEW c \in Commands, RecordStep(c) PROVE ConfigLoads'
  BY <1>2, RecordFrame DEF ConfigLoads, DeskKeeps, ProfileFields
<1>3. CASE Outside
  BY <1>3, OutsideFrame DEF ConfigLoads, DeskKeeps, ProfileFields
<1> QED
  BY <1>1, <1>2, <1>3, Steps

\* Whatever profiles are paired, moved, removed or selected, and in whatever order: a
\* config.json that loads stays loadable unless a refresh commits, which validates
\* nothing, and the default is none or a profile there is.
THEOREM StaysUsable == Spec => ConfigStaysUsable
<1>1. Init => Shape /\ Defaulted
  BY InitShape, InitDefaulted
<1>2. Shape /\ Defaulted /\ [Next]_vars => (Shape /\ Defaulted)'
  BY ShapeStep, DefaultedStep
<1>3. Shape /\ Defaulted /\ [Next]_vars =>
        [/\ ConfigLoads /\ ~ConfigLoads' => \E c \in Commands : at[c] = "apply" /\ Commits(c)
         /\ desk'.default # None => desk'.default \in DOMAIN desk'.devices]_vars
  BY LoadsStep, DefaultedStep DEF Defaulted
<1> QED
  BY <1>1, <1>2, <1>3, PTL DEF Spec, ConfigStaysUsable

(***************************************************************************)
(* A profile is changed by nobody it was not asked of                      *)
(***************************************************************************)
IsProfile(r) == r = [id |-> r.id, adb |-> r.adb, ssh |-> r.ssh]
Recorded == \A n \in DOMAIN desk.devices : IsProfile(desk.devices[n])

LEMMA AppliedTo ==
  ASSUME NEW profile, IsProfile(profile), NEW changes
  PROVE  /\ IsProfile(Applied(profile, changes))
         /\ changes = {} => Applied(profile, changes) = profile
<1> DEFINE adb == {ch \in changes : ch.field = "adb"}
           ssh == {ch \in changes : ch.field = "ssh"}
           serials == (profile.adb \ {ch.was : ch \in adb}) \union {ch.now : ch \in adb}
           host == IF ssh = {} THEN profile.ssh ELSE (CHOOSE ch \in ssh : TRUE).now
<1>1. Applied(profile, changes) = [profile EXCEPT !.adb = serials, !.ssh = host]
  BY DEF Applied
<1>2. changes = {} => serials = profile.adb /\ host = profile.ssh
  OBVIOUS
<1> HIDE DEF serials, host
<1>3. Applied(profile, changes) = [id |-> profile.id, adb |-> serials, ssh |-> host]
  BY <1>1 DEF IsProfile
<1> QED
  BY <1>2, <1>3 DEF IsProfile

LEMMA Merged ==
  ASSUME NEW devices, NEW n, NEW new
  PROVE  /\ DOMAIN merge_profile(devices, n, new) = DOMAIN devices \union {n}
         /\ \A m \in DOMAIN devices \ {n} : merge_profile(devices, n, new)[m] = devices[m]
         /\ IsProfile(merge_profile(devices, n, new)[n])
<1> DEFINE known == n \in DOMAIN devices
           id == IF known THEN devices[n].id ELSE new.id
           adb == new.adb \union (IF known THEN devices[n].adb ELSE {})
           ssh == IF known /\ new.ssh = None THEN devices[n].ssh ELSE new.ssh
           merged == [id |-> id, adb |-> adb, ssh |-> ssh]
<1>1. merge_profile(devices, n, new) = [m \in DOMAIN devices \union {n} |-> IF m = n THEN merged ELSE devices[m]]
  BY Zenon DEF merge_profile
<1> HIDE DEF id, adb, ssh
<1>2. IsProfile(merged)
  BY DEF IsProfile
<1> HIDE DEF merged
<1> QED
  BY <1>1, <1>2

LEMMA InitRecorded == Init => Recorded
BY ConfigurationAssumption DEF Init, Recorded, IsProfile

LEMMA RecordedStep == ASSUME Shape, Recorded, [Next]_vars PROVE Recorded'
<1>1. ASSUME NEW c \in Commands, ProfileStep(c) PROVE Recorded'
  <2>1. CASE SameProfiles \/ Selects(c)
    BY <2>1 DEF Recorded, SameProfiles, Selects
  <2>2. CASE Saves(c)
    <3> DEFINE new == memo[c][1].new
               merged == merge_profile(desk.devices, req[c].name, new)
    <3>1. /\ DOMAIN merged = DOMAIN desk.devices \union {req[c].name}
          /\ \A m \in DOMAIN desk.devices \ {req[c].name} : merged[m] = desk.devices[m]
          /\ IsProfile(merged[req[c].name])
      BY Merged
    <3>2. desk'.devices = merged
      BY <2>2 DEF Saves
    <3> QED
      BY <3>1, <3>2 DEF Recorded
  <2>3. CASE Applies(c)
    BY <2>3, AppliedTo DEF Recorded, Applies
  <2>4. CASE Removes(c)
    BY <2>4 DEF Recorded, Removes
  <2> QED
    BY <1>1, <2>1, <2>2, <2>3, <2>4, ProfileChanges
<1>2. ASSUME NEW c \in Commands, RecordStep(c) PROVE Recorded'
  BY <1>2, RecordFrame DEF Recorded, DeskKeeps, ProfileFields
<1>3. CASE Outside
  BY <1>3, OutsideFrame DEF Recorded, DeskKeeps, ProfileFields
<1> QED
  BY <1>1, <1>2, <1>3, Steps

LEMMA Named ==
  ASSUME NEW r \in Requests, r.op \in {"usb", "wireless", "ssh", "remove"}
  PROVE  "name" \in DOMAIN r
BY DEF Requests, PairRequests, ProfileRequests, RecordRequests

LEMMA UntouchedStay ==
  ASSUME Shape, Recorded, NEW c \in Commands, ProfileStep(c), NEW n \in Names \ Touched(c)
  PROVE  ProfileOf(desk'.devices, n) = ProfileOf(desk.devices, n)
<1>1. CASE SameProfiles \/ Selects(c)
  BY <1>1 DEF SameProfiles, Selects
<1>2. CASE Saves(c)
  <2>1. n # req[c].name
    BY <1>2, Named DEF Shape, Saves, Touched
  <2> QED
    BY <1>2, <2>1 DEF Saves, merge_profile, ProfileOf
<1>3. CASE Applies(c)
  <2>1. DOMAIN desk'.devices = DOMAIN desk.devices
    BY <1>3 DEF Applies
  <2>2. ASSUME n \in DOMAIN desk.devices PROVE desk'.devices[n] = desk.devices[n]
    <3>1. {ch \in memo[c][1].changes : ch.name = n} = {}
      BY <1>3, <2>2 DEF Applies, Touched
    <3> QED
      BY <1>3, <2>2, <3>1, AppliedTo DEF Applies, Recorded
  <2> QED
    BY <2>1, <2>2 DEF ProfileOf
<1>4. CASE Removes(c)
  <2>1. n # req[c].name
    BY <1>4, Named DEF Shape, Removes, Touched
  <2> QED
    BY <1>4, <2>1 DEF Removes, ProfileOf
<1> QED
  BY <1>1, <1>2, <1>3, <1>4, ProfileChanges

(***************************************************************************)
(* The files without a lock                                                *)
(***************************************************************************)
Profiling == {"usb", "wireless", "ssh", "refresh", "remove", "default"}

LEMMA ProfileOps == ASSUME NEW c \in Commands, ProfileStep(c) PROVE req[c].op \in Profiling
BY DEF ProfileStep, Profiling, PairUsb, PairWireless, ConnectWireless, PairSsh, ProbeSsh, SaveProfile, RefreshStart,
       RefreshTarget, RefreshRoute, RefreshConnect, RefreshStops, RefreshApply, RemoveProfile, SelectDefault

\* Between its reading and its saving of clients.json, or of the rules file.
Writing(c) == req[c].op \in Clients /\ at[c] \in {"write", "move"}
Storing(c) == req[c].op \in Rules /\ at[c] = "store"

\* What a command has read is what the file says, and what it will save is that but
\* for its own client.
Changed(c) == IF req[c].op = "create" THEN desk.clients.all \union {[id |-> req[c].id, token |-> c]}
              ELSE desk.clients.all \ Holders(req[c].id)
HasRead(c) ==
  /\ memo[c][1].was = desk.clients.all /\ memo[c][1].all = Changed(c)
  /\ at[c] = "move" => desk.temporary = memo[c][1].all

ClientsKept == ~desk.raced =>
  /\ \A c, d \in Commands : Writing(c) /\ Writing(d) => c = d
  /\ \A c \in Commands : Writing(c) => HasRead(c)

LEMMA InitClients == Init => ClientsKept
BY DEF Init, ClientsKept, Writing

LEMMA ClientsStep == ASSUME Shape, ClientsKept, [Next]_vars PROVE ClientsKept'
<1> USE DEF Clients, Rules
<1>1. ASSUME NEW c \in Commands, CreateStart(c) \/ RevokeStart(c) PROVE ClientsKept'
  <2> SUFFICES ASSUME ~desk'.raced PROVE ClientsKept'
    BY DEF ClientsKept
  <2>1. Own(c) /\ RecordStep(c)
    BY <1>1, RecordFrame DEF RecordStep
  <2>2. CASE at'[c] = "end" /\ UNCHANGED <<memo, desk>>
    BY <2>1, <2>2 DEF ClientsKept, Writing, HasRead, Changed, Holders, Own
  <2>3. CASE \E all : ClientRead(c, all) /\ all = Changed(c)
    <3>1. PICK all : ClientRead(c, all) /\ all = Changed(c)
      BY <2>3
    <3>2. at'[c] = "write" /\ memo'[c][1] = [was |-> desk.clients.all, all |-> all]
      BY <3>1 DEF ClientRead, Goto, Shape
    <3>3. ~desk.raced /\ ~Racing(c, Clients) /\ desk'.clients = desk.clients /\ desk'.temporary = desk.temporary
      BY <3>1 DEF ClientRead, Shape, ProfileFields, RecordFields, ClockFields
    <3>4. \A d \in Commands \ {c} : ~Writing(d)'
      BY <2>1, <3>3 DEF Racing, Writing, Own
    <3>5. HasRead(c)'
      BY <2>1, <3>1, <3>2, <3>3 DEF HasRead, Changed, Holders, Own
    <3> QED
      BY <3>4, <3>5 DEF ClientsKept
  <2> QED
    BY <1>1, <2>2, <2>3 DEF CreateStart, RevokeStart, Changed, Answer, Fail, Shape
<1>2. ASSUME NEW c \in Commands, ClientWrite(c) PROVE ClientsKept'
  <2>1. Own(c) /\ memo' = memo
    BY <1>2, RecordFrame DEF RecordStep, ClientWrite
  <2>2. desk'.clients = desk.clients /\ desk'.raced = desk.raced /\ Writing(c)
    BY <1>2 DEF ClientWrite, Shape, ProfileFields, RecordFields, ClockFields, Writing, Goto, Answer, Fail
  <2>3. at'[c] = "end" \/ (at'[c] = "move" /\ desk'.temporary = memo[c][1].all)
    BY <1>2 DEF ClientWrite, Shape, ProfileFields, RecordFields, ClockFields, Goto, Answer, Fail
  <2> QED
    BY <2>1, <2>2, <2>3 DEF ClientsKept, Writing, HasRead, Changed, Holders, Own
<1>3. ASSUME NEW c \in Commands, ClientMove(c) PROVE ClientsKept'
  <2>1. Own(c) /\ memo' = memo
    BY <1>3, RecordFrame DEF RecordStep, ClientMove
  <2>2. at'[c] = "end" /\ Writing(c) /\ desk'.raced = desk.raced
    BY <1>3 DEF ClientMove, Answer, Fail, Shape, Writing, ProfileFields, RecordFields, ClockFields
  <2> QED
    BY <2>1, <2>2 DEF ClientsKept, Writing, Own
<1>4. ASSUME NEW c \in Commands, Own(c), req[c].op \notin Clients, desk.raced => desk'.raced,
             desk'.clients = desk.clients, desk'.temporary = desk.temporary
      PROVE  ClientsKept'
  BY <1>4 DEF ClientsKept, Writing, HasRead, Changed, Holders, Own
<1>5. ASSUME NEW c \in Commands, Stat(c) \/ Authenticate(c) \/ Enable(c) \/ Disable(c) \/ StoreRules(c)
      PROVE  ClientsKept'
  <2>1. Own(c)
    BY <1>5, RecordFrame DEF RecordStep
  <2>2. /\ req[c].op \notin Clients /\ (desk.raced => desk'.raced)
        /\ desk'.clients = desk.clients /\ desk'.temporary = desk.temporary
    BY <1>5 DEF Stat, Authenticate, Enable, Disable, RulesRead, StoreRules, Shape, ProfileFields,
       RecordFields, ClockFields
  <2> QED
    BY <1>4, <2>1, <2>2
<1>6. ASSUME NEW c \in Commands, ProfileStep(c) PROVE ClientsKept'
  BY <1>4, <1>6, ProfileFrame, ProfileOps DEF DeskKeeps, RecordFields, Profiling
<1>7. CASE Outside
  BY <1>7, OutsideFrame DEF ClientsKept, Writing, HasRead, Changed, Holders, DeskKeeps, RecordFields
<1> QED
  BY <1>1, <1>2, <1>3, <1>5, <1>6, <1>7, Steps DEF RecordStep

\* The same of the rules file: each device has its rule, there or not.
IsRules(rules) == DOMAIN rules = Devices
RulesKept ==
  /\ IsRules(desk.rules)
  /\ \A c \in Commands : Storing(c) => IsRules(memo[c][1])
  /\ ~desk.raced =>
       /\ \A c, d \in Commands : Storing(c) /\ Storing(d) => c = d
       /\ \A c \in Commands : Storing(c) =>
            \A d \in Devices \ {req[c].device} : memo[c][1][d] = desk.rules[d]

LEMMA InitRules == Init => RulesKept
BY DEF Init, RulesKept, IsRules, Storing

LEMMA RulesStep == ASSUME Shape, RulesKept, [Next]_vars PROVE RulesKept'
<1> USE DEF Clients, Rules
<1>1. ASSUME NEW c \in Commands, Enable(c) \/ Disable(c) PROVE RulesKept'
  <2>1. Own(c) /\ RecordStep(c)
    BY <1>1, RecordFrame DEF RecordStep
  <2>2. CASE at'[c] = "end" /\ UNCHANGED <<memo, desk>>
    BY <2>1, <2>2 DEF RulesKept, Storing, Own
  <2>3. ASSUME NEW rule, Goto(c, "start", "store"),
               memo' = [memo EXCEPT ![c] = <<[desk.rules EXCEPT ![req[c].device] = rule]>>],
               desk' = [desk EXCEPT !.raced = @ \/ Racing(c, Rules)]
        PROVE  RulesKept'
    <3> DEFINE new == [desk.rules EXCEPT ![req[c].device] = rule]
    <3>1. at'[c] = "store" /\ memo'[c][1] = new
      BY <2>3 DEF Goto, Shape
    <3>2. desk'.rules = desk.rules /\ (~desk'.raced => ~desk.raced /\ ~Racing(c, Rules))
      BY <2>3 DEF Shape, ProfileFields, RecordFields, ClockFields
    <3>3. DOMAIN new = DOMAIN desk.rules /\ \A d \in DOMAIN desk.rules \ {req[c].device} : new[d] = desk.rules[d]
      OBVIOUS
    <3>4. ~desk'.raced => \A d \in Commands \ {c} : ~Storing(d)'
      BY <2>1, <3>2 DEF Racing, Storing, Own
    <3> HIDE DEF new
    <3> QED
      BY <2>1, <3>1, <3>2, <3>3, <3>4 DEF RulesKept, IsRules, Storing, Own
  <2> QED
    BY <1>1, <2>2, <2>3 DEF Enable, Disable, RulesRead, Answer, Fail, Shape
<1>2. ASSUME NEW c \in Commands, StoreRules(c) PROVE RulesKept'
  <2>1. Own(c) /\ memo' = memo
    BY <1>2, RecordFrame DEF RecordStep, StoreRules
  <2>2. at'[c] = "end" /\ Storing(c) /\ desk'.raced = desk.raced /\ desk'.rules \in {desk.rules, memo[c][1]}
    BY <1>2 DEF StoreRules, Answer, Fail, Shape, Storing, ProfileFields, RecordFields, ClockFields
  <2> QED
    BY <2>1, <2>2 DEF RulesKept, Storing, Own
<1>3. ASSUME NEW c \in Commands, Own(c), req[c].op \notin Rules, desk.raced => desk'.raced, desk'.rules = desk.rules
      PROVE  RulesKept'
  BY <1>3 DEF RulesKept, Storing, Own
<1>4. ASSUME NEW c \in Commands, CreateStart(c) \/ RevokeStart(c) \/ ClientWrite(c) \/ ClientMove(c) \/ Stat(c) \/ Authenticate(c)
      PROVE  RulesKept'
  <2>1. Own(c)
    BY <1>4, RecordFrame DEF RecordStep
  <2>2. req[c].op \notin Rules /\ (desk.raced => desk'.raced) /\ desk'.rules = desk.rules
    BY <1>4 DEF CreateStart, RevokeStart, ClientRead, ClientWrite, ClientMove, Stat, Authenticate,
                Shape, ProfileFields, RecordFields, ClockFields
  <2> QED
    BY <1>3, <2>1, <2>2
<1>5. ASSUME NEW c \in Commands, ProfileStep(c) PROVE RulesKept'
  BY <1>3, <1>5, ProfileFrame, ProfileOps DEF DeskKeeps, RecordFields, Profiling
<1>6. CASE Outside
  BY <1>6, OutsideFrame DEF RulesKept, Storing, DeskKeeps, RecordFields
<1> QED
  BY <1>1, <1>2, <1>4, <1>5, <1>6, Steps DEF RecordStep

\* What a command that commits leaves of the rest of the files.
LEMMA CommitKeeps ==
  ASSUME Shape, Answers, Recorded, ClientsKept, RulesKept, [Next]_vars, NEW c \in Commands, Commits(c)
  PROVE  /\ \A n \in Names \ Touched(c) : ProfileOf(desk'.devices, n) = ProfileOf(desk.devices, n)
         /\ req[c].op \in Clients /\ ~desk.raced => Others(desk'.clients.all, c) = Others(desk.clients.all, c)
         /\ req[c].op \in Rules /\ ~desk.raced =>
              \A d \in Devices \ {req[c].device} : desk'.rules[d] = desk.rules[d]
<1>1. (ProfileStep(c) \/ RecordStep(c)) /\ at'[c] = "end"
  BY Acts DEF Commits, Unset
<1>2. CASE ProfileStep(c)
  BY <1>2, UntouchedStay, ProfileFrame, ProfileOps DEF Profiling, Clients, Rules
<1>3. CASE RecordStep(c)
  <2>1. desk'.devices = desk.devices
    BY <1>3, RecordFrame DEF DeskKeeps, ProfileFields
  <2>2. ASSUME req[c].op \in Clients, ~desk.raced
        PROVE  Others(desk'.clients.all, c) = Others(desk.clients.all, c)
    <3>1. CASE ClientMove(c) /\ reply'[c] = "success"
      <4>1. Writing(c) /\ at[c] = "move"
        BY <3>1 DEF ClientMove, Writing
      <4>2. reply'[c] # "raised"
        BY <3>1
      <4>3. ~Answer(c, "move", "raised")
        BY <4>2 DEF Answer, Fail, Shape
      <4>4. desk'.clients = [all |-> desk.temporary, mtime |-> desk.tick]
        BY <3>1, <4>3 DEF ClientMove, Shape, ProfileFields, RecordFields, ClockFields
      <4>5. desk.temporary = Changed(c)
        BY <2>2, <4>1 DEF ClientsKept, HasRead
      <4> QED
        BY <4>4, <4>5 DEF Changed, Holders, Others
    <3>2. CASE ~ClientMove(c)
      BY <1>1, <1>3, <2>2, <3>2 DEF RecordStep, CreateStart, RevokeStart, ClientRead, ClientWrite, Stat, Authenticate,
         Enable, Disable, StoreRules, Clients, Rules, Goto, Answer, Fail, Shape, ProfileFields, RecordFields, ClockFields
    <3> QED
      BY <3>1, <3>2 DEF Commits
  <2>3. ASSUME req[c].op \in Rules, ~desk.raced, NEW d \in Devices \ {req[c].device}
        PROVE  desk'.rules[d] = desk.rules[d]
    <3>1. CASE StoreRules(c)
      BY <2>3, <3>1 DEF StoreRules, RulesKept, Storing, Shape, ProfileFields, RecordFields, ClockFields, Answer, Fail
    <3>2. CASE Enable(c) \/ Disable(c)
      BY <3>2 DEF Enable, Disable, RulesRead, Shape, ProfileFields, RecordFields, ClockFields
    <3> QED
      BY <1>3, <2>3, <3>1, <3>2 DEF RecordStep, CreateStart, RevokeStart, ClientWrite, ClientMove, Stat, Authenticate,
         Rules, Clients
  <2> QED
    BY <2>1, <2>2, <2>3
<1> QED
  BY <1>1, <1>2, <1>3

\* What one command saves leaves the other profiles as they are, however late it
\* saves it; and the other clients and rules, unless two commands overlapped.
THEOREM ChangesAreKept == Spec => ChangesSurvive
<1> DEFINE IInv == Shape /\ Answers /\ Recorded /\ ClientsKept /\ RulesKept
<1>1. Init => IInv
  BY InitShape, InitAnswers, InitRecorded, InitClients, InitRules
<1>2. IInv /\ [Next]_vars => IInv'
  BY ShapeStep, AnswersStep, RecordedStep, ClientsStep, RulesStep
<1>3. IInv /\ [Next]_vars => [\A c \in Commands : Commits(c) =>
        /\ \A n \in Names \ Touched(c) : ProfileOf(desk'.devices, n) = ProfileOf(desk.devices, n)
        /\ req[c].op \in Clients /\ ~desk.raced => Others(desk'.clients.all, c) = Others(desk.clients.all, c)
        /\ req[c].op \in Rules /\ ~desk.raced =>
             \A d \in Devices \ {req[c].device} : desk'.rules[d] = desk.rules[d]]_vars
  BY CommitKeeps
<1> QED
  BY <1>1, <1>2, <1>3, PTL DEF Spec, ChangesSurvive

(***************************************************************************)
(* Addresses                                                               *)
(***************************************************************************)
\* No two phones have one address; how often they still move is a number.
Addressed ==
  /\ phone.addr \in [Phones -> Addresses \union {None}] /\ phone.roams \in Nat
  /\ \A p, q \in Phones : phone.addr[p] = phone.addr[q] /\ phone.addr[p] # None => p = q

LEMMA InitAddressed == Init => Addressed
BY ConfigurationAssumption DEF Init, Addressed

LEMMA AddressedStep == ASSUME Shape, Addressed, [Next]_vars PROVE Addressed'
<1>1. ASSUME NEW c \in Commands, ProfileStep(c) \/ RecordStep(c) PROVE Addressed'
  BY <1>1, ProfileFrame, RecordFrame DEF Addressed
<1>2. CASE Roams
  BY <1>2 DEF Roams, Addressed
<1>3. CASE Ticks \/ UNCHANGED vars
  BY <1>3 DEF Ticks, vars, Addressed
<1> QED
  BY <1>1, <1>2, <1>3, Steps DEF Outside

\* The phone a pairing over Wi-Fi went on with is one the profile accepts.
Connected(c) ==
  req[c].op = "wireless" /\ at[c] \in {"connect", "save"} =>
    /\ DOMAIN memo[c] = {1} /\ DOMAIN memo[c][1] = {"read", "new", "who"}
    /\ at[c] = "save" => Accepts(c, memo[c][1].who)

\* A change that is sure names a phone of the profile.
Sure(c, ch) == ch.sure => ch.who \in Hardware(memo[c][1].read[ch.name])
Formatted(c) ==
  /\ DOMAIN memo[c] = {1} /\ DOMAIN memo[c][1] = {"read", "todo", "up", "changes", "way"}
  /\ DOMAIN memo[c][1].way = {"name", "serial", "scanned", "who", "at", "left", "seen"}

\* The profile in hand: the phone on USB, or the one the scan found, is the profile's;
\* and unless a phone has moved since, the address is still where it was seen.
OnWay(c) ==
  LET way == memo[c][1].way
      own == Hardware(memo[c][1].read[way.name])
  IN /\ way.seen \in Nat /\ phone.roams <= way.seen
     /\ way.serial \in Phones => way.serial \in own
     /\ way.scanned # None => way.who \in own
     /\ at[c] = "route" /\ way.scanned # None /\ Unmoved(c) =>
          way.serial # None /\ way.serial = phone.addr[way.who]
     /\ at[c] = "connect" /\ way.serial \in Phones /\ Unmoved(c) =>
          way.at # None /\ way.at = phone.addr[way.serial]

Examining(c) ==
  req[c].op = "refresh" /\ at[c] \in {"examine", "route", "connect", "apply"} =>
    /\ Formatted(c)
    /\ \A ch \in memo[c][1].changes : Sure(c, ch)
    /\ at[c] \in {"route", "connect"} => OnWay(c)

Routes == \A c \in Commands : Connected(c) /\ Examining(c)

LEMMA InitRoutes == Init => Routes
BY DEF Init, Routes, Connected, Examining

LEMMA StartRoutes ==
  ASSUME Shape, NEW c \in Commands, RefreshStart(c)
  PROVE  at'[c] = "end" \/ Examining(c)'
<1>1. CASE at' = [at EXCEPT ![c] = "end"]
  BY <1>1 DEF Shape
<1>2. CASE /\ at' = [at EXCEPT ![c] = "examine"]
           /\ \E read, todo, up : memo' =
                [memo EXCEPT ![c] = <<[read |-> read, todo |-> todo, up |-> up, changes |-> {}, way |-> NoWay]>>]
  BY <1>2 DEF Examining, Formatted, NoWay, Shape
<1> QED
  BY <1>1, <1>2 DEF RefreshStart, Goto, Answer, Fail

LEMMA TargetRoutes ==
  ASSUME Shape, Addressed, Routes, NEW c \in Commands, RefreshTarget(c)
  PROVE  Examining(c)'
<1>1. at[c] = "examine" /\ req[c].op = "refresh" /\ req' = req /\ phone' = phone
  BY DEF RefreshTarget, Goto, Scan
<1>2. Formatted(c) /\ \A ch \in memo[c][1].changes : Sure(c, ch)
  BY <1>1 DEF Routes, Examining
<1>3. CASE at' = [at EXCEPT ![c] = "examine"] /\ \E n : memo' = [memo EXCEPT ![c][1].todo = @ \ {n}]
  <2>1. /\ Formatted(c)' /\ memo'[c][1].read = memo[c][1].read /\ memo'[c][1].changes = memo[c][1].changes
    BY <1>2, <1>3 DEF Formatted, Shape
  <2> QED
    BY <1>2, <1>3, <2>1 DEF Examining, Sure, Shape
<1>4. ASSUME NEW n, NEW serial, NEW scanned, NEW who, at' = [at EXCEPT ![c] = "route"],
             memo' = [memo EXCEPT ![c][1].todo = @ \ {n}, ![c][1].way = Way(n, serial, scanned, who)],
             serial \in Phones => serial \in Hardware(memo[c][1].read[n]),
             scanned # None => who \in Hardware(memo[c][1].read[n]) /\ serial # None /\ serial = phone.addr[who]
      PROVE  Examining(c)'
  <2> DEFINE w == Way(n, serial, scanned, who)
  <2>3. DOMAIN w = {"name", "serial", "scanned", "who", "at", "left", "seen"}
    BY DEF Way
  <2> HIDE DEF w
  <2>4. memo' = [memo EXCEPT ![c][1].todo = @ \ {n}, ![c][1].way = w]
    BY <1>4 DEF w
  <2>5. memo'[c][1] = [memo[c][1] EXCEPT !.todo = @ \ {n}, !.way = w] /\ DOMAIN memo'[c] = {1}
    BY <1>2, <2>4 DEF Formatted, Shape
  <2>6. /\ Formatted(c)' /\ memo'[c][1].read = memo[c][1].read /\ memo'[c][1].changes = memo[c][1].changes
        /\ memo'[c][1].way = w
    BY <1>2, <2>3, <2>5 DEF Formatted
  <2>1. /\ Formatted(c)' /\ memo'[c][1].read = memo[c][1].read /\ memo'[c][1].changes = memo[c][1].changes
        /\ memo'[c][1].way = Way(n, serial, scanned, who)
    BY <2>6 DEF w
  <2>2. OnWay(c)'
    <3>1. /\ memo'[c][1].way.name = n /\ memo'[c][1].way.serial = serial
          /\ memo'[c][1].way.scanned = scanned /\ memo'[c][1].way.who = who /\ memo'[c][1].way.seen = phone.roams
      BY <2>1 DEF Way
    <3>2. memo'[c][1].read = memo[c][1].read /\ phone.roams \in Nat /\ at'[c] = "route"
      BY <1>4, <2>1 DEF Addressed, Shape
    <3>3. Hardware(memo'[c][1].read[memo'[c][1].way.name]) = Hardware(memo[c][1].read[n])
      BY <3>1, <3>2
    <3>4. /\ serial \in Phones => serial \in Hardware(memo[c][1].read[n])
          /\ scanned # None => who \in Hardware(memo[c][1].read[n]) /\ serial # None /\ serial = phone.addr[who]
      BY <1>4
    <3> HIDE DEF w
    <3> QED
      BY <1>1, <3>1, <3>2, <3>3, <3>4 DEF OnWay
  <2> QED
    BY <1>2, <1>4, <2>1, <2>2 DEF Examining, Sure, Shape
<1>5. ASSUME NEW n, Scan(c, n) PROVE Examining(c)'
  <2>1. PICK alias \in Addresses, q \in Hardware(memo[c][1].read[n]) :
          /\ phone.addr[q] # None /\ Goto(c, "examine", "route")
          /\ memo' = [memo EXCEPT ![c][1].todo = @ \ {n}, ![c][1].way = Way(n, phone.addr[q], alias, q)]
    BY <1>5 DEF Scan
  <2>2. phone.addr[q] \notin Phones
    BY <2>1, ConfigurationAssumption DEF Addressed, Hardware
  <2> QED
    BY <1>4, <2>1, <2>2 DEF Goto
<1>6. ASSUME NEW n, NEW serial \in memo[c][1].read[n].adb, Goto(c, "examine", "route"),
             memo' = [memo EXCEPT ![c][1].todo = @ \ {n}, ![c][1].way = Way(n, serial, None, None)]
      PROVE  Examining(c)'
  <2>1. serial \in Phones => serial \in Hardware(memo[c][1].read[n])
    BY DEF Hardware
  <2> QED
    BY <1>4, <1>6, <2>1 DEF Goto
<1> QED
  BY <1>3, <1>5, <1>6 DEF RefreshTarget, Goto

LEMMA RouteRoutes ==
  ASSUME Shape, Addressed, Routes, NEW c \in Commands, RefreshRoute(c)
  PROVE  Examining(c)'
<1> DEFINE way == memo[c][1].way
           profile == memo[c][1].read[way.name]
<1>1. at[c] = "route" /\ req[c].op = "refresh" /\ req' = req /\ phone' = phone
  BY DEF RefreshRoute, Goto
<1>2. Formatted(c) /\ OnWay(c) /\ \A ch \in memo[c][1].changes : Sure(c, ch)
  BY <1>1 DEF Routes, Examining
<1>3. CASE at' = [at EXCEPT ![c] = "examine"] /\ memo' = memo
  BY <1>2, <1>3 DEF Examining, Formatted, Sure, Shape
<1>4. CASE ~(at' = [at EXCEPT ![c] = "examine"] /\ memo' = memo)
  <2>1. PICK q \in Behind(way.serial) :
          /\ phone.addr[q] # None
          /\ LET a == phone.addr[q]
                 sure == way.serial \in Phones \/ (way.scanned # None /\ Unmoved(c))
                 found == IF way.scanned # None /\ way.serial \notin profile.adb
                          THEN {Change(way.name, "adb", way.scanned, way.serial, way.who, TRUE)} ELSE {}
                 host == IF profile.ssh \notin {None, a} THEN {Change(way.name, "ssh", profile.ssh, a, q, sure)} ELSE {}
                 others == IF req[c].dry \/ a = way.serial \/ a \in profile.adb THEN {}
                           ELSE profile.adb \intersect Addresses
             IN /\ Goto(c, "route", IF others = {} THEN "examine" ELSE "connect")
                /\ memo' = [memo EXCEPT ![c][1].changes = @ \union found \union host,
                                        ![c][1].way = [way EXCEPT !.at = a, !.left = others, !.seen = phone.roams]]
    BY <1>4 DEF RefreshRoute, Goto
  <2>2. PICK changes, left :
          /\ at' = [at EXCEPT ![c] = "examine"] \/ at' = [at EXCEPT ![c] = "connect"]
          /\ \A ch \in changes :
               \/ ch = Change(way.name, "adb", way.scanned, way.serial, way.who, TRUE) /\ way.scanned # None
               \/ ch = Change(way.name, "ssh", profile.ssh, phone.addr[q], q,
                              way.serial \in Phones \/ (way.scanned # None /\ Unmoved(c)))
          /\ memo' = [memo EXCEPT ![c][1].changes = @ \union changes,
                                  ![c][1].way = [way EXCEPT !.at = phone.addr[q], !.left = left, !.seen = phone.roams]]
    <3> DEFINE sure == way.serial \in Phones \/ (way.scanned # None /\ Unmoved(c))
               found == IF way.scanned # None /\ way.serial \notin profile.adb
                        THEN {Change(way.name, "adb", way.scanned, way.serial, way.who, TRUE)} ELSE {}
               host == IF profile.ssh \notin {None, phone.addr[q]} THEN {Change(way.name, "ssh", profile.ssh, phone.addr[q], q, sure)} ELSE {}
               others == IF req[c].dry \/ phone.addr[q] = way.serial \/ phone.addr[q] \in profile.adb THEN {}
                         ELSE profile.adb \intersect Addresses
    <3>1. /\ Goto(c, "route", IF others = {} THEN "examine" ELSE "connect")
          /\ memo' = [memo EXCEPT ![c][1].changes = (@ \union found) \union host,
                                  ![c][1].way = [way EXCEPT !.at = phone.addr[q], !.left = others, !.seen = phone.roams]]
      BY <2>1
    <3>2. \A ch \in found \union host :
            \/ ch = Change(way.name, "adb", way.scanned, way.serial, way.who, TRUE) /\ way.scanned # None
            \/ ch = Change(way.name, "ssh", profile.ssh, phone.addr[q], q, sure)
      OBVIOUS
    <3>3. \A S : (S \union found) \union host = S \union (found \union host)
      OBVIOUS
    <3> HIDE DEF others, found, host, sure, way
    <3>4. at' = [at EXCEPT ![c] = "examine"] \/ at' = [at EXCEPT ![c] = "connect"]
      BY <3>1 DEF Goto
    <3>5. memo' = [memo EXCEPT ![c][1].changes = @ \union (found \union host),
                               ![c][1].way = [way EXCEPT !.at = phone.addr[q], !.left = others, !.seen = phone.roams]]
      BY <3>1, <3>3
    <3> QED
      BY <3>2, <3>4, <3>5 DEF sure
  <2>3. /\ Formatted(c)' /\ memo'[c][1].read = memo[c][1].read
        /\ memo'[c][1].changes = memo[c][1].changes \union changes
        /\ memo'[c][1].way = [way EXCEPT !.at = phone.addr[q], !.left = left, !.seen = phone.roams]
    BY <1>2, <2>2 DEF Formatted, Shape
  <2>4. way.serial \in Phones \/ (way.scanned # None /\ Unmoved(c)) => q \in Hardware(profile)
    <3>1. CASE way.serial \in Phones
      BY <1>2, <3>1 DEF Behind, OnWay
    <3>2. CASE way.serial \notin Phones /\ way.scanned # None /\ Unmoved(c)
      <4>1. way.who \in Hardware(profile) /\ way.serial # None /\ way.serial = phone.addr[way.who]
        BY <1>1, <1>2, <3>2 DEF OnWay
      <4>2. q \in Phones /\ phone.addr[q] = way.serial
        BY <3>2 DEF Behind
      <4> QED
        BY <4>1, <4>2 DEF Addressed, Hardware
    <3> QED
      BY <3>1, <3>2
  <2>5. \A ch \in changes : Sure(c, ch)
    <3>1. way.scanned # None => way.who \in Hardware(profile)
      BY <1>2 DEF OnWay
    <3> DEFINE X == way.serial \in Phones \/ (way.scanned # None /\ Unmoved(c))
    <3>2. X => q \in Hardware(profile)
      BY <2>4
    <3>3. \A ch \in changes :
            \/ ch = Change(way.name, "adb", way.scanned, way.serial, way.who, TRUE) /\ way.scanned # None
            \/ ch = Change(way.name, "ssh", profile.ssh, phone.addr[q], q, X)
      BY <2>2
    <3> HIDE DEF X
    <3>4. ASSUME NEW ch \in changes, ch = Change(way.name, "ssh", profile.ssh, phone.addr[q], q, X) PROVE Sure(c, ch)
      <4>1. ch.name = way.name /\ ch.who = q /\ ch.sure = X
        BY <3>4 DEF Change
      <4> QED
        BY <3>2, <4>1, Zenon DEF Sure
    <3>5. ASSUME NEW ch \in changes, ch = Change(way.name, "adb", way.scanned, way.serial, way.who, TRUE), way.scanned # None
          PROVE  Sure(c, ch)
      <4>1. ch.name = way.name /\ ch.who = way.who
        BY <3>5 DEF Change
      <4> QED
        BY <3>1, <3>5, <4>1, Zenon DEF Sure
    <3> QED
      BY <3>3, <3>4, <3>5, Zenon
  <2>6. \A ch \in memo'[c][1].changes : Sure(c, ch)'
    BY <1>2, <2>3, <2>5 DEF Sure
  <2>7. at'[c] = "connect" => OnWay(c)'
    <3>1. way.serial \in Phones => q = way.serial
      BY DEF Behind
    <3>2. /\ memo'[c][1].way.name = way.name /\ memo'[c][1].way.serial = way.serial
          /\ memo'[c][1].way.scanned = way.scanned /\ memo'[c][1].way.who = way.who
          /\ memo'[c][1].way.at = phone.addr[q] /\ memo'[c][1].way.seen = phone.roams
      BY <1>2, <2>3 DEF Formatted
    <3>3. /\ way.serial \in Phones => way.serial \in Hardware(memo[c][1].read[way.name])
          /\ way.scanned # None => way.who \in Hardware(memo[c][1].read[way.name])
      BY <1>2 DEF OnWay
    <3>4. memo'[c][1].read = memo[c][1].read /\ phone.roams \in Nat /\ phone.addr[q] # None
      BY <2>1, <2>3 DEF Addressed
    <3> HIDE DEF way
    <3> QED
      BY <1>1, <3>1, <3>2, <3>3, <3>4 DEF OnWay, Hardware
  <2>8. at'[c] \in {"examine", "connect"}
    BY <2>2 DEF Shape
  <2> QED
    BY <2>3, <2>6, <2>7, <2>8 DEF Examining
<1> QED
  BY <1>3, <1>4

LEMMA ConnectRoutes ==
  ASSUME Shape, Addressed, Routes, NEW c \in Commands, RefreshConnect(c)
  PROVE  Examining(c)'
<1> DEFINE way == memo[c][1].way
<1>1. at[c] = "connect" /\ req[c].op = "refresh" /\ req' = req /\ phone' = phone
  BY DEF RefreshConnect, Goto
<1>2. Formatted(c) /\ OnWay(c) /\ \A ch \in memo[c][1].changes : Sure(c, ch)
  BY <1>1 DEF Routes, Examining
<1>9. PICK alias :
        /\ at' = [at EXCEPT ![c] = "examine"] \/ at' = [at EXCEPT ![c] = "connect"]
        /\ \/ memo' = [memo EXCEPT ![c][1].way.left = @ \ {alias}]
           \/ \E q \in Behind(way.at) :
               memo' = [memo EXCEPT ![c][1].way.left = @ \ {alias},
                          ![c][1].changes = @ \union {Change(way.name, "adb", alias, way.at, q,
                                                           way.serial \in Phones /\ Unmoved(c))}]
  BY DEF RefreshConnect, Goto
<1>3. at'[c] \in {"examine", "connect"}
  BY <1>9 DEF Shape
<1> DEFINE Noted(changes) ==
             /\ Formatted(c)' /\ memo'[c][1].read = memo[c][1].read
             /\ memo'[c][1].changes = memo[c][1].changes \union changes
             /\ \A f \in {"name", "serial", "scanned", "who", "at", "seen"} : memo'[c][1].way[f] = way[f]
<1>4. \E changes : Noted(changes) /\ \A ch \in changes : Sure(c, ch)
  <2>1. CASE memo' = [memo EXCEPT ![c][1].way.left = @ \ {alias}]
    <3>2. memo'[c][1] = [memo[c][1] EXCEPT !.way.left = @ \ {alias}] /\ DOMAIN memo'[c] = {1}
      BY <1>2, <2>1 DEF Formatted, Shape
    <3>3. Formatted(c)'
      BY <1>2, <3>2 DEF Formatted
    <3>4. memo'[c][1].read = memo[c][1].read /\ memo'[c][1].changes = memo[c][1].changes \union {}
      BY <1>2, <3>2 DEF Formatted
    <3>5. \A f \in {"name", "serial", "scanned", "who", "at", "seen"} : memo'[c][1].way[f] = way[f]
      BY <1>2, <3>2 DEF Formatted
    <3>1. Noted({})
      BY <3>3, <3>4, <3>5
    <3>6. \A ch \in {} : Sure(c, ch)
      OBVIOUS
    <3> HIDE DEF Noted
    <3> QED
      BY <3>1, <3>6
  <2>2. ASSUME NEW q \in Behind(way.at),
               memo' = [memo EXCEPT ![c][1].way.left = @ \ {alias},
                          ![c][1].changes = @ \union {Change(way.name, "adb", alias, way.at, q,
                                                           way.serial \in Phones /\ Unmoved(c))}]
        PROVE  \E changes : Noted(changes) /\ \A ch \in changes : Sure(c, ch)
    <3> DEFINE X == way.serial \in Phones /\ Unmoved(c)
               new == Change(way.name, "adb", alias, way.at, q, X)
    <3>1. new.name = way.name /\ new.who = q /\ new.sure = X
      BY DEF Change
    <3>2. X => q \in Hardware(memo[c][1].read[way.name])
      <4> SUFFICES ASSUME X PROVE q \in Hardware(memo[c][1].read[way.name])
        OBVIOUS
      <4>1. way.serial \in Hardware(memo[c][1].read[way.name]) /\ way.at # None /\ way.at = phone.addr[way.serial]
        BY <1>1, <1>2 DEF OnWay
      <4>2. way.at \notin Phones
        BY <4>1, ConfigurationAssumption DEF Addressed
      <4> QED
        BY <4>1, <4>2 DEF Behind, Addressed
    <3>3. memo' = [memo EXCEPT ![c][1].way.left = @ \ {alias}, ![c][1].changes = @ \union {new}]
      BY <2>2
    <3> HIDE DEF X, new
    <3>6. memo'[c][1] = [memo[c][1] EXCEPT !.way.left = @ \ {alias}, !.changes = @ \union {new}] /\ DOMAIN memo'[c] = {1}
      BY <1>2, <3>3 DEF Formatted, Shape
    <3>7. Formatted(c)'
      BY <1>2, <3>6 DEF Formatted
    <3>8. memo'[c][1].read = memo[c][1].read /\ memo'[c][1].changes = memo[c][1].changes \union {new}
      BY <1>2, <3>6 DEF Formatted
    <3>9. \A f \in {"name", "serial", "scanned", "who", "at", "seen"} : memo'[c][1].way[f] = way[f]
      BY <1>2, <3>6 DEF Formatted
    <3>4. Noted({new})
      BY <3>7, <3>8, <3>9
    <3>5. Sure(c, new)
      BY <3>1, <3>2, Zenon DEF Sure
    <3>10. \A ch \in {new} : Sure(c, ch)
      BY <3>5
    <3> HIDE DEF Noted
    <3> QED
      BY <3>4, <3>10
  <2> HIDE DEF Noted
  <2> QED
    BY <1>9, <2>1, <2>2
<1>5. PICK changes : Noted(changes) /\ \A ch \in changes : Sure(c, ch)
  BY <1>4
<1>6. \A ch \in memo'[c][1].changes : Sure(c, ch)'
  BY <1>2, <1>5 DEF Sure
<1>7. at'[c] = "connect" => OnWay(c)'
  BY <1>1, <1>2, <1>5 DEF OnWay, Unmoved
<1> QED
  BY <1>3, <1>5, <1>6, <1>7 DEF Examining

\* What a command has noted stays as true as it was when a phone moves.
LEMMA RoamsRoutes == ASSUME Shape, Addressed, Routes, Roams PROVE Routes'
<1> SUFFICES ASSUME NEW c \in Commands PROVE (Connected(c) /\ Examining(c))'
  BY DEF Routes
<1>1. UNCHANGED <<req, at, memo>> /\ Connected(c) /\ Examining(c)
  BY DEF Roams, Routes
<1>2. phone'.roams \in Nat /\ phone'.roams < phone.roams
  BY DEF Roams, Addressed
<1>3. Connected(c)'
  BY <1>1 DEF Connected, Accepts, Expected
<1>4. Examining(c)'
  BY <1>1, <1>2 DEF Examining, Formatted, Sure, OnWay, Unmoved, Addressed
<1> QED
  BY <1>3, <1>4

LEMMA RoutesStep == ASSUME Shape, Addressed, Routes, [Next]_vars PROVE Routes'
<1>1. ASSUME NEW c \in Commands, Own(c), phone' = phone, (Connected(c) /\ Examining(c))' PROVE Routes'
  <2> SUFFICES ASSUME NEW d \in Commands \ {c} PROVE (Connected(d) /\ Examining(d))'
    BY <1>1 DEF Routes
  <2>1. at'[d] = at[d] /\ memo'[d] = memo[d] /\ req'[d] = req[d]
    BY <1>1 DEF Own
  <2>2. Connected(d) /\ Examining(d)
    BY DEF Routes
  <2>3. Connected(d)'
    BY <2>1, <2>2 DEF Connected, Accepts, Expected
  <2>4. Examining(d)'
    BY <1>1, <2>1, <2>2 DEF Examining, Formatted, Sure, OnWay, Unmoved
  <2> QED
    BY <2>3, <2>4
<1>2. ASSUME NEW c \in Commands, Own(c), phone' = phone, at'[c] = "end" \/ req[c].op \notin {"wireless", "refresh"}
      PROVE  Routes'
  BY <1>1, <1>2 DEF Connected, Examining, Own
<1>3. ASSUME NEW c \in Commands, ProfileStep(c) PROVE Routes'
  <2>1. Own(c) /\ phone' = phone
    BY <1>3, ProfileFrame
  <2>2. CASE PairWireless(c)
    <3>1. \/ at'[c] = "end"
          \/ /\ at'[c] = "connect" /\ req[c].op = "wireless"
             /\ DOMAIN memo'[c] = {1} /\ DOMAIN memo'[c][1] = {"read", "new", "who"}
      BY <2>2 DEF PairWireless, Plans, Answer, Fail, Goto, Shape
    <3> QED
      BY <1>1, <1>2, <2>1, <3>1 DEF Connected, Examining, Own
  <2>3. CASE ConnectWireless(c)
    <3>1. CASE at'[c] = "end"
      BY <1>2, <2>1, <3>1
    <3>2. ASSUME NEW who, Accepts(c, who), Goto(c, "connect", "save"), memo' = [memo EXCEPT ![c][1].who = who]
          PROVE  Routes'
      <4>1. DOMAIN memo[c] = {1} /\ DOMAIN memo[c][1] = {"read", "new", "who"} /\ req[c].op = "wireless"
        BY <2>3, <3>2 DEF Routes, Connected, ConnectWireless
      <4>2. /\ DOMAIN memo'[c] = {1} /\ DOMAIN memo'[c][1] = {"read", "new", "who"}
            /\ memo'[c][1].who = who /\ memo'[c][1].read = memo[c][1].read
        BY <3>2, <4>1 DEF Shape
      <4>3. Accepts(c, who)'
        BY <2>1, <3>2, <4>2 DEF Accepts, Expected, Own
      <4> QED
        BY <1>1, <2>1, <4>1, <4>2, <4>3 DEF Connected, Examining, Own
    <3> QED
      BY <2>3, <3>1, <3>2 DEF ConnectWireless, Answer, Fail, Shape
  <2>4. CASE RefreshStart(c) \/ RefreshTarget(c) \/ RefreshRoute(c) \/ RefreshConnect(c)
    <3>1. req[c].op = "refresh"
      BY <2>4 DEF RefreshStart, RefreshTarget, RefreshRoute, RefreshConnect
    <3>2. at'[c] = "end" \/ Examining(c)'
      BY <2>4, StartRoutes, TargetRoutes, RouteRoutes, ConnectRoutes
    <3> QED
      BY <1>1, <1>2, <2>1, <3>1, <3>2 DEF Connected, Own
  <2>6. CASE RefreshStops(c)
    <3>1. memo' = memo /\ req[c].op = "refresh" /\ at[c] = "examine" /\ at'[c] \in {"end", "apply"}
      BY <2>6 DEF RefreshStops, Goto, Answer, Fail, Shape
    <3> QED
      BY <1>1, <2>1, <3>1 DEF Routes, Connected, Examining, Formatted, Own, Sure
  <2>7. CASE SaveProfile(c) \/ RefreshApply(c)
    BY <1>2, <2>1, <2>7 DEF SaveProfile, RefreshApply, Answer, Fail, Shape
  <2>8. CASE PairUsb(c) \/ PairSsh(c) \/ ProbeSsh(c) \/ RemoveProfile(c) \/ SelectDefault(c)
    BY <1>2, <2>1, <2>8 DEF PairUsb, PairSsh, ProbeSsh, RemoveProfile, SelectDefault
  <2> QED
    BY <1>3, <2>2, <2>3, <2>4, <2>6, <2>7, <2>8 DEF ProfileStep
<1>4. ASSUME NEW c \in Commands, RecordStep(c) PROVE Routes'
  <2>1. req[c].op \notin {"wireless", "refresh"}
    BY <1>4 DEF RecordStep, CreateStart, RevokeStart, ClientWrite, ClientMove, Stat, Authenticate, Enable, Disable,
                StoreRules, Clients, Rules
  <2> QED
    BY <1>2, <1>4, <2>1, RecordFrame
<1>5. CASE Ticks \/ UNCHANGED vars
  <2>1. UNCHANGED <<req, at, memo, phone>>
    BY <1>5 DEF Ticks, vars
  <2> QED
    BY <2>1 DEF Routes, Connected, Examining, Formatted, Sure, OnWay, Unmoved, Accepts, Expected
<1> QED
  BY <1>3, <1>4, <1>5, RoamsRoutes, Steps DEF Outside

LEMMA CommitAddresses ==
  ASSUME Shape, Routes, [Next]_vars, NEW c \in Commands, Commits(c)
  PROVE  /\ req[c].op = "wireless" /\ at[c] = "save" /\ Same(c, req[c].name) /\ Hardware(desk.devices[req[c].name]) # {} =>
              memo[c][1].who \in Hardware(desk.devices[req[c].name])
         /\ req[c].op = "refresh" /\ at[c] = "apply" => \A ch \in memo[c][1].changes :
              ch.sure /\ Same(c, ch.name) => ch.who \in Hardware(desk.devices[ch.name])
BY DEF Routes, Connected, Examining, Sure, Accepts, Expected, Same

\* Where a command can tell by a hardware serial whose address it saves, it saves that
\* phone's, however the phones move, but for a move between a phone's naming its
\* address and adb's connecting there (pair_wireless_device, _refresh_targets).
THEOREM AddressesAreRight == Spec => RightPhone
<1>1. Init => Shape /\ Addressed /\ Routes
  BY InitShape, InitAddressed, InitRoutes
<1>2. Shape /\ Addressed /\ Routes /\ [Next]_vars => (Shape /\ Addressed /\ Routes)'
  BY ShapeStep, AddressedStep, RoutesStep
<1>3. Shape /\ Addressed /\ Routes /\ [Next]_vars => [\A c \in Commands : Commits(c) =>
        /\ req[c].op = "wireless" /\ at[c] = "save" /\ Same(c, req[c].name) /\ Hardware(desk.devices[req[c].name]) # {} =>
             memo[c][1].who \in Hardware(desk.devices[req[c].name])
        /\ req[c].op = "refresh" /\ at[c] = "apply" => \A ch \in memo[c][1].changes :
             ch.sure /\ Same(c, ch.name) => ch.who \in Hardware(desk.devices[ch.name])]_vars
  BY CommitAddresses
<1> QED
  BY <1>1, <1>2, <1>3, PTL DEF Spec, RightPhone

(***************************************************************************)
(* Tokens                                                                  *)
(***************************************************************************)
Disjoint(A, B) == \A r \in A, s \in B : r.token # s.token
Looking(c) == req[c].op = "request" /\ at[c] = "look"

\* The cache, and what a request has seen, are no newer than the file.
Clocked ==
  /\ desk.tick \in Nat /\ desk.clients.mtime \in Nat /\ desk.cache.mtime \in Nat
  /\ desk.cache.mtime <= desk.clients.mtime /\ desk.clients.mtime <= desk.tick
  /\ \A c \in Commands : Looking(c) =>
       /\ memo[c][1].mtime \in Nat /\ memo[c][1].mtime <= desk.clients.mtime
       /\ memo[c][1].revoked \subseteq desk.revoked

\* A token is one client's, and no other will get it once that client is revoked.
Unshared == ~desk.raced =>
  /\ \A r, s \in desk.clients.all : r.token = s.token => r = s
  /\ \A c \in Commands, r \in desk.clients.all \union desk.revoked :
       req[c].op = "create" /\ at[c] # "end" => r.token # c
  /\ Disjoint(desk.clients.all, desk.revoked)

\* What the cache holds under a file's time has none of those revoked by that time.
CacheHolds == ~desk.raced /\ ~desk.sameTick =>
  /\ desk.cache.mtime = desk.clients.mtime => Disjoint(desk.cache.all, desk.revoked)
  /\ \A c \in Commands : Looking(c) /\ memo[c][1].mtime = desk.cache.mtime =>
       Disjoint(desk.cache.all, memo[c][1].revoked)

LEMMA InitTokens == Init => Clocked /\ Unshared /\ CacheHolds
<1> SUFFICES ASSUME Init PROVE Clocked /\ Unshared /\ CacheHolds
  OBVIOUS
<1>1. PICK w \in Worlds : req = w.plan /\ desk.clients = [all |-> w.clients, mtime |-> 1]
  BY DEF Init
<1>2. \A c \in Commands : ~Looking(c)
  BY DEF Init, Looking
<1>3. desk.tick = 1 /\ desk.cache = [all |-> {}, mtime |-> 0] /\ desk.revoked = {}
  BY DEF Init
<1> QED
  BY <1>1, <1>2, <1>3, ConfigurationAssumption DEF Clocked, Unshared, CacheHolds, Disjoint

\* What a move does to clients.json.
LEMMA Moves ==
  ASSUME Shape, NEW c \in Commands, ClientMove(c), desk' # desk
  PROVE  /\ Writing(c) /\ at[c] = "move"
         /\ desk'.clients = [all |-> desk.temporary, mtime |-> desk.tick]
         /\ desk'.revoked = desk.revoked \union (IF req[c].op = "revoke" THEN memo[c][1].was \ memo[c][1].all ELSE {})
         /\ desk.sameTick \/ desk.clients.mtime = desk.tick => desk'.sameTick
         /\ desk'.cache = desk.cache /\ desk'.raced = desk.raced
<1>1. Writing(c) /\ at[c] = "move"
  BY DEF ClientMove, Writing
<1>2. desk' = [desk EXCEPT !.clients = [all |-> desk.temporary, mtime |-> desk.tick],
                          !.temporary = NoFile,
                          !.sameTick = @ \/ desk.clients.mtime = desk.tick,
                          !.revoked = @ \union (IF req[c].op = "revoke" THEN memo[c][1].was \ memo[c][1].all ELSE {})]
  BY DEF ClientMove
<1> QED
  BY <1>1, <1>2 DEF Shape, ProfileFields, RecordFields, ClockFields

\* While no two commands overlapped, it saves what is there but for one client.
LEMMA MovesOne ==
  ASSUME Shape, ClientsKept, NEW c \in Commands, ClientMove(c), desk' # desk, ~desk'.raced
  PROVE  /\ desk'.clients.all = Changed(c)
         /\ desk'.revoked = desk.revoked \union (IF req[c].op = "revoke" THEN desk.clients.all \ Changed(c) ELSE {})
<1>1. Writing(c) /\ at[c] = "move" /\ ~desk.raced
  BY Moves
<1>2. memo[c][1].was = desk.clients.all /\ memo[c][1].all = Changed(c) /\ desk.temporary = memo[c][1].all
  BY <1>1 DEF ClientsKept, HasRead
<1> QED
  BY <1>2, Moves

LEMMA ClockedStep == ASSUME Shape, Clocked, [Next]_vars PROVE Clocked'
<1> USE DEF Clients, Rules
<1>1. ASSUME NEW c \in Commands, Stat(c) PROVE Clocked'
  <2>1. Own(c) /\ desk' = desk
    BY <1>1, RecordFrame DEF RecordStep, Stat
  <2>2. memo'[c][1].mtime = desk.clients.mtime /\ memo'[c][1].revoked = desk.revoked
    BY <1>1 DEF Stat, Shape
  <2> QED
    BY <2>1, <2>2 DEF Clocked, Looking, Own
<1>2. ASSUME NEW c \in Commands, Authenticate(c) PROVE Clocked'
  <2>1. Own(c) /\ memo' = memo /\ DeskKeeps(ProfileFields \union ClockFields)
    BY <1>2, RecordFrame DEF RecordStep, Authenticate
  <2>2. Looking(c) /\ at'[c] = "end" /\ desk'.clients = desk.clients /\ desk'.revoked = desk.revoked
        /\ desk'.cache.mtime \in {desk.cache.mtime, memo[c][1].mtime}
    BY <1>2 DEF Authenticate, Looking, Answer, Fail, Shape, ProfileFields, RecordFields, ClockFields
  <2> QED
    BY <2>1, <2>2 DEF Clocked, Looking, Own, DeskKeeps, ClockFields
<1>3. ASSUME NEW c \in Commands, ClientMove(c) PROVE Clocked'
  <2>1. Own(c) /\ memo' = memo /\ DeskKeeps(ProfileFields \union ClockFields) /\ req[c].op # "request"
    BY <1>3, RecordFrame DEF RecordStep, ClientMove
  <2>2. desk'.cache = desk.cache /\ desk.revoked \subseteq desk'.revoked
        /\ desk'.clients.mtime \in {desk.clients.mtime, desk.tick}
    BY <1>3, Moves
  <2> QED
    BY <2>1, <2>2 DEF Clocked, Looking, Own, DeskKeeps, ClockFields
<1>4. ASSUME NEW c \in Commands, Own(c), req[c].op # "request", desk'.tick = desk.tick,
             desk'.clients = desk.clients, desk'.cache = desk.cache, desk'.revoked = desk.revoked
      PROVE  Clocked'
  BY <1>4 DEF Clocked, Looking, Own
<1>5. ASSUME NEW c \in Commands,
             CreateStart(c) \/ RevokeStart(c) \/ ClientWrite(c) \/ Enable(c) \/ Disable(c) \/ StoreRules(c)
      PROVE  Clocked'
  <2>1. Own(c) /\ desk'.tick = desk.tick
    BY <1>5, RecordFrame DEF RecordStep, DeskKeeps, ClockFields
  <2>2. req[c].op # "request" /\ desk'.clients = desk.clients /\ desk'.cache = desk.cache /\ desk'.revoked = desk.revoked
    BY <1>5 DEF CreateStart, RevokeStart, ClientRead, ClientWrite, Enable, Disable, RulesRead, StoreRules,
                Shape, ProfileFields, RecordFields, ClockFields
  <2> QED
    BY <1>4, <2>1, <2>2
<1>6. ASSUME NEW c \in Commands, ProfileStep(c) PROVE Clocked'
  BY <1>4, <1>6, ProfileFrame, ProfileOps DEF DeskKeeps, RecordFields, ClockFields, Profiling
<1>7. CASE Outside
  <2>1. desk'.tick \in {desk.tick, desk.tick + 1}
    BY <1>7 DEF Outside, Roams, Ticks, vars, Shape, ProfileFields, RecordFields, ClockFields
  <2> QED
    BY <1>7, <2>1, OutsideFrame DEF Clocked, Looking, DeskKeeps, RecordFields
<1> QED
  BY <1>1, <1>2, <1>3, <1>5, <1>6, <1>7, Steps DEF RecordStep

\* While a command is not saving clients.json, its tokens are as they were.
LEMMA TokensStay ==
  ASSUME Shape, Unshared, CacheHolds, NEW c \in Commands, Own(c), req[c].op # "request",
         desk.raced => desk'.raced, desk.sameTick => desk'.sameTick,
         desk'.clients = desk.clients, desk'.cache = desk.cache, desk'.revoked = desk.revoked
  PROVE  Unshared' /\ CacheHolds'
<1>1. Unshared'
  BY DEF Unshared, Disjoint, Own
<1>2. CacheHolds'
  BY DEF CacheHolds, Disjoint, Looking, Own
<1> QED
  BY <1>1, <1>2

LEMMA MoveTokens ==
  ASSUME Shape, ClientsKept, Clocked, Unshared, CacheHolds, NEW c \in Commands, ClientMove(c)
  PROVE  Unshared' /\ CacheHolds'
<1>1. Own(c) /\ memo' = memo /\ at'[c] = "end" /\ at[c] # "end"
  BY RecordFrame DEF RecordStep, ClientMove, Answer, Fail, Shape
<1>2. req[c].op \in {"create", "revoke"}
  BY DEF ClientMove, Clients
<1>3. CASE desk' = desk
  BY <1>1, <1>2, <1>3, TokensStay
<1>4. ASSUME desk' # desk, ~desk'.raced
      PROVE  Unshared'
  <2>1. ~desk.raced
    BY <1>4, Moves
  <2>2. desk'.clients.all = Changed(c)
        /\ desk'.revoked = desk.revoked \union (IF req[c].op = "revoke" THEN desk.clients.all \ Changed(c) ELSE {})
    BY <1>4, MovesOne
  <2>3. CASE req[c].op = "create"
    <3> DEFINE new == [id |-> req[c].id, token |-> c]
    <3>1. desk'.clients.all = desk.clients.all \union {new} /\ new.token = c /\ desk'.revoked = desk.revoked
      BY <2>2, <2>3 DEF Changed
    <3>2. \A r \in desk.clients.all \union desk.revoked : r.token # c
      BY <1>1, <2>1, <2>3 DEF Unshared
    <3> HIDE DEF new
    <3> QED
      BY <1>1, <2>1, <3>1, <3>2 DEF Unshared, Disjoint, Own
  <2>4. CASE req[c].op = "revoke"
    <3>1. desk'.clients.all \subseteq desk.clients.all
          /\ desk'.revoked = desk.revoked \union (desk.clients.all \ desk'.clients.all)
      BY <2>2, <2>4 DEF Changed
    <3> QED
      BY <1>1, <2>1, <3>1 DEF Unshared, Disjoint, Own
  <2> QED
    BY <1>2, <2>3, <2>4
<1>5. ASSUME desk' # desk, ~desk'.raced, ~desk'.sameTick
      PROVE  CacheHolds'
  <2>1. /\ desk'.clients = [all |-> desk.temporary, mtime |-> desk.tick]
        /\ desk.sameTick \/ desk.clients.mtime = desk.tick => desk'.sameTick
        /\ desk'.cache = desk.cache /\ (desk.raced => desk'.raced)
    BY <1>5, Moves
  <2>2. ~desk.raced /\ ~desk.sameTick /\ desk.clients.mtime # desk.tick /\ desk'.clients.mtime = desk.tick
    BY <1>5, <2>1
  <2>3. desk'.cache.mtime # desk'.clients.mtime
    BY <2>1, <2>2 DEF Clocked
  <2> QED
    BY <1>1, <1>2, <2>1, <2>2, <2>3 DEF CacheHolds, Looking, Own
<1> QED
  BY <1>3, <1>4, <1>5 DEF Unshared, CacheHolds

LEMMA StatTokens ==
  ASSUME Shape, Unshared, CacheHolds, NEW c \in Commands, Stat(c)
  PROVE  Unshared' /\ CacheHolds'
<1>1. Own(c) /\ desk' = desk /\ req[c].op = "request"
  BY RecordFrame DEF RecordStep, Stat
<1>2. memo'[c][1].mtime = desk.clients.mtime /\ memo'[c][1].revoked = desk.revoked
  BY DEF Stat, Shape
<1>3. Unshared'
  BY <1>1 DEF Unshared, Disjoint, Own
<1>4. CacheHolds'
  BY <1>1, <1>2 DEF CacheHolds, Looking, Own
<1> QED
  BY <1>3, <1>4

LEMMA AuthenticateTokens ==
  ASSUME Shape, Clocked, Unshared, CacheHolds, NEW c \in Commands, Authenticate(c)
  PROVE  Unshared' /\ CacheHolds'
<1>1. Own(c) /\ memo' = memo /\ at'[c] = "end" /\ req[c].op = "request" /\ Looking(c)
  BY RecordFrame DEF RecordStep, Authenticate, Looking, Answer, Fail, Shape
<1>2. /\ desk'.clients = desk.clients /\ desk'.revoked = desk.revoked
      /\ desk'.raced = desk.raced /\ desk'.sameTick = desk.sameTick
      /\ desk'.cache = IF Stale(c) THEN [all |-> desk.clients.all, mtime |-> memo[c][1].mtime] ELSE desk.cache
  BY DEF Authenticate, Shape, ProfileFields, RecordFields, ClockFields
<1>3. Unshared'
  BY <1>1, <1>2 DEF Unshared, Disjoint, Own
<1>4. CASE Stale(c)
  <2>1. ASSUME ~desk.raced PROVE Disjoint(desk'.cache.all, desk.revoked)
    BY <1>2, <1>4, <2>1 DEF Unshared
  <2>2. \A d \in Commands : Looking(d)' => memo'[d][1].revoked \subseteq desk.revoked
    BY <1>1 DEF Clocked, Looking, Own
  <2> QED
    BY <1>2, <1>3, <2>1, <2>2 DEF CacheHolds, Disjoint
<1>5. CASE ~Stale(c)
  BY <1>1, <1>2, <1>3, <1>5 DEF CacheHolds, Looking, Own
<1> QED
  BY <1>4, <1>5

LEMMA TokensStep ==
  ASSUME Shape, ClientsKept, Clocked, Unshared, CacheHolds, [Next]_vars
  PROVE  Unshared' /\ CacheHolds'
<1>1. ASSUME NEW c \in Commands,
             CreateStart(c) \/ RevokeStart(c) \/ ClientWrite(c) \/ Enable(c) \/ Disable(c) \/ StoreRules(c)
      PROVE  Unshared' /\ CacheHolds'
  <2>1. Own(c)
    BY <1>1, RecordFrame DEF RecordStep
  <2>2. /\ req[c].op # "request" /\ (desk.raced => desk'.raced) /\ desk'.sameTick = desk.sameTick
        /\ desk'.clients = desk.clients /\ desk'.cache = desk.cache /\ desk'.revoked = desk.revoked
    BY <1>1 DEF CreateStart, RevokeStart, ClientRead, ClientWrite, Enable, Disable, RulesRead, StoreRules,
       Clients, Rules,
                Shape, ProfileFields, RecordFields, ClockFields
  <2> QED
    BY <2>1, <2>2, TokensStay
<1>2. ASSUME NEW c \in Commands, ProfileStep(c) PROVE Unshared' /\ CacheHolds'
  BY <1>2, ProfileFrame, ProfileOps, TokensStay DEF DeskKeeps, RecordFields, Profiling
<1>3. CASE Outside
  BY <1>3, OutsideFrame DEF Unshared, CacheHolds, Disjoint, Looking, DeskKeeps, RecordFields
<1> QED
  BY <1>1, <1>2, <1>3, MoveTokens, StatTokens, AuthenticateTokens, Steps DEF RecordStep

\* A request is accepted by the file, or by a cache that has none of those revoked.
LEMMA Accepted ==
  ASSUME Shape, Answers, Clocked, Unshared, CacheHolds, [Next]_vars, NEW c \in Commands, at[c] = "look", reply'[c] = "accepted"
  PROVE  desk.raced \/ desk.sameTick \/ req[c].token \notin {r.token : r \in memo[c][1].revoked}
<1>1. ProfileStep(c) \/ RecordStep(c)
  BY Acts DEF Unset
<1>2. ~ProfileStep(c)
  BY DEF ProfileStep, PairUsb, PairWireless, ConnectWireless, PairSsh, ProbeSsh, SaveProfile, RefreshStart, Plans,
         RefreshTarget, RefreshRoute, RefreshConnect, RefreshStops, RefreshApply, RemoveProfile, SelectDefault, Goto, Answer, Fail
<1>3. Authenticate(c)
  BY <1>1, <1>2 DEF RecordStep, CreateStart, RevokeStart, ClientRead, ClientWrite, ClientMove, Stat, Enable, Disable,
                    RulesRead, StoreRules, Goto, Answer, Fail
<1> DEFINE fresh == IF Stale(c) THEN [all |-> desk.clients.all, mtime |-> memo[c][1].mtime] ELSE desk.cache
<1>4. Looking(c) /\ \E r \in fresh.all : r.token = req[c].token
  BY <1>3 DEF Authenticate, Looking, Answer, Fail, Shape
<1>5. SUFFICES ASSUME ~desk.raced, ~desk.sameTick PROVE Disjoint(fresh.all, memo[c][1].revoked)
  BY <1>4 DEF Disjoint
<1>6. CASE Stale(c)
  <2>1. memo[c][1].revoked \subseteq desk.revoked
    BY <1>4 DEF Clocked
  <2> QED
    BY <1>5, <1>6, <2>1 DEF Unshared, Disjoint
<1>7. CASE ~Stale(c)
  BY <1>4, <1>5, <1>7 DEF CacheHolds, Stale
<1> QED
  BY <1>6, <1>7

\* A token whose client was revoked before the request looked at the file is refused,
\* without a reload, unless two commands overlapped or two saves share a tick.
THEOREM RevokedAreRefused == Spec => RevokedIsRefused
<1> DEFINE IInv == Shape /\ Answers /\ ClientsKept /\ Clocked /\ Unshared /\ CacheHolds
<1>1. Init => IInv
  BY InitShape, InitAnswers, InitClients, InitTokens
<1>2. IInv /\ [Next]_vars => IInv'
  BY ShapeStep, AnswersStep, ClientsStep, ClockedStep, TokensStep
<1>3. IInv /\ [Next]_vars => [\A c \in Commands :
        at[c] = "look" /\ reply'[c] = "accepted" =>
          desk.raced \/ desk.sameTick \/ req[c].token \notin {r.token : r \in memo[c][1].revoked}]_vars
  BY Accepted
<1> QED
  BY <1>1, <1>2, <1>3, PTL DEF Spec, RevokedIsRefused

(***************************************************************************)
(* Setups and uninstalls, on the same variables, for any phones and worlds *)
(* whose units and daemons are as Found says                               *)
(***************************************************************************)
Inst == INSTANCE Installation WITH Nobody <- None

Early == {"start", "dependencies", "detection", "authorization", "registration", "pairing"}
Late == {"selecting", "installation", "reload", "enable", "daemon", "starting", "awaiting",
         "restart", "restarting", "awaiting_version"}
DeskFields == {"unit", "process", "daemon", "since", "profiles", "default", "config", "rule", "client", "roots",
               "adb", "moves", "cables", "lost"}

Formed ==
  /\ DOMAIN at = Commands /\ DOMAIN memo = Commands /\ DOMAIN desk = DeskFields
  /\ DOMAIN desk.unit = {"file", "enabled", "wanted"} /\ DOMAIN desk.daemon = DOMAIN Inst!NoDaemon
  /\ DOMAIN desk.process = Inst!Owners
  /\ \A c \in Commands : DOMAIN memo[c] = DOMAIN Inst!Nothing
  /\ \A c \in Commands : req[c] \in Inst!SetupRequests \cup Inst!UninstallRequests

\* What a step of a command leaves alone of the others, and of its own notes.
Mine(c) ==
  /\ req' = req /\ DOMAIN at' = Commands /\ DOMAIN memo' = Commands
  /\ \A d \in Commands \ {c} : at'[d] = at[d] /\ memo'[d] = memo[d]
  /\ DOMAIN memo'[c] = DOMAIN memo[c]

DeskFormed ==
  /\ DOMAIN desk' = DeskFields /\ DOMAIN desk'.unit = DOMAIN desk.unit /\ DOMAIN desk'.daemon = DOMAIN Inst!NoDaemon
  /\ DOMAIN desk'.process = Inst!Owners

\* What may become of the daemon in a step of a command, and of the files.
DaemonStays == desk'.daemon = desk.daemon \/ desk'.daemon = Inst!NoDaemon
Tells(c) == \* the service's daemon to stop
  \/ req[c].op = "setup" /\ at[c] \in {"restart", "backup_restart"}
  \/ req[c].op = "uninstall" /\ at[c] = "disable"
DaemonKept == desk'.daemon = desk.daemon
ProcessesStay(c) ==
  /\ \A k \in Inst!Owners :
       desk'.process[k] = desk.process[k] \/ (desk.process[k] = "runs" /\ desk'.process[k] = "told")
  /\ \/ desk'.since = desk.since
     \/ desk'.since = desk.since \ {c} /\ Tells(c)
FilesStay == desk.profiles \subseteq desk'.profiles /\ desk'.lost = desk.lost /\ desk.roots \subseteq desk'.roots
MayRemove(c) ==
  /\ desk.lost \subseteq desk'.lost
  /\ desk.profiles \subseteq desk'.profiles \/ \A d \in Commands : memo[d].changed => d \in desk'.lost

LEMMA SystemctlFrame ==
  ASSUME DOMAIN at = Commands, NEW c \in Commands, NEW from, NEW to, NEW else, NEW after,
         Inst!Systemctl(c, from, to, else, after)
  PROVE  /\ at[c] = from /\ req' = req /\ DOMAIN at' = Commands
         /\ \A d \in Commands \ {c} : at'[d] = at[d]
         /\ at'[c] \in {to, else}
         /\ desk' = desk \/ desk' \in after
BY DEF Inst!Systemctl, Inst!Remote, Inst!Goto, Inst!Fail, Inst!Ok, Inst!Happened, Inst!Outcomes

LEMMA ToldFrame ==
  ASSUME Formed, NEW c \in Commands, NEW enabled, NEW wanted, desk' = Inst!Told(c, enabled,
         wanted), Tells(c)
  PROVE  /\ DeskFormed /\ ProcessesStay(c) /\ desk'.daemon = desk.daemon
         /\ desk'.profiles = desk.profiles /\ desk'.lost = desk.lost /\ desk'.roots = desk.roots
BY DEF Inst!Told, Formed, DeskFields, DeskFormed, ProcessesStay, Inst!Owners

LEMMA StartingFrame ==
  ASSUME Formed, NEW c \in Commands, desk' \in Inst!Enabled \/ desk' \in Inst!Starting(desk)
  PROVE  /\ DeskFormed /\ ProcessesStay(c) /\ desk'.daemon = desk.daemon
         /\ desk'.profiles = desk.profiles /\ desk'.lost = desk.lost /\ desk'.roots = desk.roots
BY DEF Inst!Enabled, Inst!Starting, Formed, DeskFields, DeskFormed, ProcessesStay, Inst!Owners

LEMMA StoppedFrame ==
  ASSUME DOMAIN at = Commands, NEW c \in Commands, NEW from, NEW to, NEW else, Inst!Stopped(c,
         from, to, else)
  PROVE  /\ at[c] = from /\ req' = req /\ DOMAIN at' = Commands /\ desk' = desk
         /\ \A d \in Commands \ {c} : at'[d] = at[d]
         /\ at'[c] = else \/ (at'[c] = to /\ Inst!Ended(c))
BY DEF Inst!Stopped, Inst!Goto, Inst!Fail

LEMMA SetupFrame ==
  ASSUME Formed, NEW c \in Commands, Inst!SetupStep(c)
  PROVE  Mine(c) /\ DeskFormed /\ DaemonKept /\ ProcessesStay(c) /\ FilesStay
<1> USE DEF Formed, Inst!Keep, Inst!Goto, Inst!Stop, Inst!Answer, Inst!Fail
<1>0. ASSUME desk' = desk PROVE DeskFormed /\ DaemonKept /\ ProcessesStay(c) /\ FilesStay
  BY <1>0 DEF DeskFormed, DaemonKept, ProcessesStay, FilesStay
<1>1. CASE Inst!Preflight(c) \/ Inst!Detect(c) \/ Inst!Authorize(c) \/ Inst!Register(c)
  BY <1>0, <1>1 DEF Inst!Preflight, Inst!Detect, Inst!Authorize, Inst!Register, Mine, Inst!Nothing
<1>2. CASE Inst!RequireAdb(c)
  BY <1>2 DEF Inst!RequireAdb, Mine, Inst!Nothing, DeskFormed, DaemonKept, ProcessesStay,
     FilesStay, DeskFields, Inst!Owners
<1>3. CASE Inst!SelectDefault(c)
  BY <1>3 DEF Inst!SelectDefault, Mine, Inst!Nothing, DeskFormed, DaemonKept, ProcessesStay,
     FilesStay, DeskFields, Inst!Owners
<1>11. CASE Inst!Pair(c)
  <2>1. Mine(c)
    BY <1>11 DEF Inst!Pair, Mine, Inst!Nothing
  <2>2. \/ desk' = desk
        \/ \E p, q : desk' = [desk EXCEPT !.profiles = @ \cup {p}, !.roots = @ \cup {"config"},
                                          !.config = "readable", !.default = q]
    BY <1>11 DEF Inst!Pair
  <2>4. ASSUME NEW p, NEW q, desk' = [desk EXCEPT !.profiles = @ \cup {p}, !.roots = @ \cup {"config"},
                                                  !.config = "readable", !.default = q]
        PROVE  DeskFormed /\ DaemonKept /\ ProcessesStay(c) /\ FilesStay
    BY <2>4 DEF DeskFormed, DaemonKept, ProcessesStay, FilesStay, DeskFields
  <2> QED
    BY <1>0, <2>1, <2>2, <2>4
<1>12. CASE Inst!Install(c)
  BY <1>12 DEF Inst!Install, Mine, Inst!Nothing, DeskFormed, DaemonKept, ProcessesStay, FilesStay,
     DeskFields, Inst!Owners
<1>4. CASE Inst!InstallReload(c) \/ Inst!InstallEnable(c) \/ Inst!StartDaemon(c)
  <2>1. Mine(c) /\ (desk' = desk \/ desk' \in Inst!Enabled \/ desk' \in Inst!Starting(desk))
    BY <1>4, SystemctlFrame DEF Inst!InstallReload, Inst!InstallEnable, Inst!StartDaemon, Mine,
       Inst!Nothing
  <2> QED
    BY <1>0, <2>1, StartingFrame DEF DaemonKept, FilesStay
<1>13. CASE Inst!RestartDaemon(c)
  <2>1. memo' = memo
    BY <1>13 DEF Inst!RestartDaemon
  <2>2. ASSUME Inst!Stopping(c, "restart", "restarting", "failed", Inst!Restarted(c)) PROVE Mine(c)
    BY <2>1, <2>2 DEF Inst!Stopping, Mine
  <2>3. ASSUME Inst!Stopped(c, "restarting", "awaiting_version", "failed") PROVE Mine(c)
    BY <2>1, <2>3, StoppedFrame DEF Mine
  <2>4. Mine(c)
    BY <1>13, <2>2, <2>3 DEF Inst!RestartDaemon
  <2>5. \/ desk' = desk
        \/ desk' = Inst!Restarted(c) /\ Tells(c)
    BY <1>13 DEF Inst!RestartDaemon, Inst!Stopping, Inst!Stopped, Inst!SetupStep, Tells
  <2> QED
    BY <1>0, <2>4, <2>5, ToldFrame DEF Inst!Restarted, DaemonKept, FilesStay
<1>5. CASE Inst!Failed(c) \/ Inst!ObserveDevice(c) \/ Inst!FirstUse(c)
  BY <1>0, <1>5 DEF Inst!Failed, Inst!ObserveDevice, Inst!FirstUse, Mine, Inst!Nothing
<1>6. CASE Inst!DaemonStatus(c) \/ Inst!AwaitDaemon(c) \/ Inst!AwaitVersion(c)
  BY <1>0, <1>6 DEF Inst!DaemonStatus, Inst!AwaitDaemon, Inst!AwaitVersion, Inst!Judge, Mine,
     Inst!Nothing
<1>7. CASE Inst!OfferBackup(c)
  <2>1. Mine(c) /\ (desk' = desk \/ desk' = [desk EXCEPT !.rule = "on", !.roots = @ \cup {"config"}])
    BY <1>7 DEF Inst!OfferBackup, Mine, Inst!Nothing
  <2>2. ASSUME desk' = [desk EXCEPT !.rule = "on", !.roots = @ \cup {"config"}]
        PROVE  DeskFormed /\ DaemonKept /\ ProcessesStay(c) /\ FilesStay
    BY <2>2 DEF DeskFormed, DaemonKept, ProcessesStay, FilesStay, DeskFields
  <2> QED
    BY <1>0, <2>1, <2>2
<1>8. CASE Inst!BackupRestart(c)
  <2>1. Mine(c) /\ (desk' = desk \/ desk' = Inst!Restarted(c)) /\ Tells(c)
    BY <1>8 DEF Inst!BackupRestart, Inst!SetupStep, Tells, Mine, Inst!Nothing
  <2> QED
    BY <1>0, <2>1, ToldFrame DEF Inst!Restarted, DaemonKept, FilesStay
<1>9. CASE Inst!CreateClient(c)
  BY <1>9 DEF Inst!CreateClient, Mine, Inst!Nothing, DeskFormed, DaemonKept, ProcessesStay,
     FilesStay, DeskFields
<1> QED
  BY <1>1, <1>2, <1>3, <1>4, <1>5, <1>6, <1>7, <1>8, <1>9, <1>11, <1>12, <1>13 DEF Inst!SetupStep

LEMMA EmptiedFrame ==
  ASSUME Formed, NEW r
  PROVE  /\ DOMAIN Inst!Emptied(desk, r) = DeskFields
         /\ Inst!Emptied(desk, r).unit = desk.unit /\ Inst!Emptied(desk, r).process = desk.process
         /\ Inst!Emptied(desk, r).since = desk.since
         /\ Inst!Emptied(desk, r).daemon = desk.daemon \/ Inst!Emptied(desk, r).daemon = Inst!NoDaemon
         /\ desk.lost \subseteq Inst!Emptied(desk, r).lost
         /\ \/ Inst!Emptied(desk, r).profiles = desk.profiles
            \/ \A d \in Commands : memo[d].changed => d \in Inst!Emptied(desk, r).lost
<1> DEFINE e == Inst!Emptied(desk, r)
<1>1. DOMAIN e = DeskFields
  BY DEF Inst!Emptied, Formed
<1>2. e.unit = desk.unit /\ e.process = desk.process /\ e.since = desk.since
  BY DEF Inst!Emptied, Formed, DeskFields
<1>3. e.daemon = IF r = "runtime" THEN Inst!NoDaemon ELSE desk.daemon
  BY DEF Inst!Emptied, Formed, DeskFields
<1>4. /\ e.profiles = IF r = "config" THEN {} ELSE desk.profiles
      /\ e.lost = IF r = "config" THEN desk.lost \cup {c \in Commands : memo[c].changed} ELSE desk.lost
  BY DEF Inst!Emptied, Formed, DeskFields
<1> QED
  BY <1>1, <1>2, <1>3, <1>4

LEMMA UninstallFrame ==
  ASSUME Formed, NEW c \in Commands, Inst!UninstallStep(c)
  PROVE  Mine(c) /\ DeskFormed /\ DaemonStays /\ ProcessesStay(c) /\ MayRemove(c)
<1> USE DEF Formed, Inst!Goto, Inst!Answer, Inst!Fail
<1>0. ASSUME desk' = desk PROVE DeskFormed /\ DaemonStays /\ ProcessesStay(c) /\ MayRemove(c)
  BY <1>0 DEF DeskFormed, DaemonStays, ProcessesStay, MayRemove
<1>1. CASE Inst!Look(c) \/ Inst!WaitStopped(c) \/ Inst!Recheck(c) \/ Inst!Purge(c)
  BY <1>0, <1>1 DEF Inst!Look, Inst!WaitStopped, Inst!Recheck, Inst!Purge, Mine, Inst!Nothing
<1>2. CASE Inst!Disable(c)
  <2>1. memo' = memo
    BY <1>2 DEF Inst!Disable
  <2>2. ASSUME Inst!Stopping(c, "disable", "disabling", "alive", Inst!Disabled(c)) PROVE Mine(c)
    BY <2>1, <2>2 DEF Inst!Stopping, Mine
  <2>3. ASSUME Inst!Stopped(c, "disabling", "unlink", "alive") PROVE Mine(c)
    BY <2>1, <2>3, StoppedFrame DEF Mine
  <2>4. Mine(c)
    BY <1>2, <2>1, <2>2, <2>3 DEF Inst!Disable, Mine
  <2>5. \/ desk' = desk
        \/ desk' = Inst!Disabled(c) /\ Tells(c)
    BY <1>2 DEF Inst!Disable, Inst!Stopping, Inst!Stopped, Inst!UninstallStep, Tells
  <2> QED
    BY <1>0, <2>4, <2>5, ToldFrame DEF Inst!Disabled, DaemonStays, MayRemove
<1>3. CASE Inst!UnlinkUnit(c)
  BY <1>3 DEF Inst!UnlinkUnit, Mine, DeskFormed, DaemonStays, ProcessesStay, MayRemove, DeskFields
<1>4. CASE Inst!Unload(c)
  BY <1>0, <1>4 DEF Inst!Unload, Inst!Remote, Mine, Inst!Nothing
<1>5. CASE Inst!RemoveRuntime(c)
  <2>1. Mine(c) /\ (desk' = desk \/ \E gone : desk' = [desk EXCEPT !.roots = @ \ gone, !.daemon = Inst!NoDaemon])
    BY <1>5 DEF Inst!RemoveRuntime, Mine
  <2>2. ASSUME NEW gone, desk' = [desk EXCEPT !.roots = @ \ gone, !.daemon = Inst!NoDaemon]
        PROVE  DeskFormed /\ DaemonStays /\ ProcessesStay(c) /\ MayRemove(c)
    BY <2>2 DEF DeskFormed, DaemonStays, ProcessesStay, MayRemove, DeskFields, Inst!NoDaemon
  <2> QED
    BY <1>0, <2>1, <2>2
<1>6. CASE Inst!PurgeRoot(c)
  <2>1. Mine(c)
    BY <1>6 DEF Inst!PurgeRoot, Mine, Inst!Nothing
  <2>2. desk' = desk \/ \E r, roots : desk' = [Inst!Emptied(desk, r) EXCEPT !.roots = roots] \/ desk' = Inst!Emptied(desk, r)
    BY <1>6 DEF Inst!PurgeRoot
  <2>3. ASSUME NEW r, NEW roots, desk' = [Inst!Emptied(desk, r) EXCEPT !.roots = roots] \/ desk' = Inst!Emptied(desk, r)
        PROVE  DeskFormed /\ DaemonStays /\ ProcessesStay(c) /\ MayRemove(c)
    <3> DEFINE e == Inst!Emptied(desk, r)
    <3>2. DOMAIN e = DeskFields
      BY EmptiedFrame
    <3>3. desk' = [e EXCEPT !.roots = roots] \/ desk' = e
      BY <2>3
    <3> HIDE DEF e
    <3>4. /\ DOMAIN desk' = DeskFields /\ desk'.unit = e.unit /\ desk'.process = e.process
          /\ desk'.since = e.since /\ desk'.daemon = e.daemon
          /\ desk'.profiles = e.profiles /\ desk'.lost = e.lost
      BY <3>2, <3>3 DEF DeskFields
    <3>1. /\ DOMAIN desk' = DeskFields /\ desk'.unit = desk.unit /\ desk'.process = desk.process
          /\ desk'.since = desk.since /\ desk'.daemon = Inst!Emptied(desk, r).daemon
          /\ desk'.profiles = Inst!Emptied(desk, r).profiles /\ desk'.lost = Inst!Emptied(desk, r).lost
      BY <3>4, EmptiedFrame DEF e
    <3> QED
      BY <3>1, EmptiedFrame DEF DeskFormed, ProcessesStay, DaemonStays, MayRemove, Inst!NoDaemon
  <2> QED
    BY <1>0, <2>1, <2>2, <2>3
<1> QED
  BY <1>1, <1>2, <1>3, <1>4, <1>5, <1>6 DEF Inst!UninstallStep

\* Nobody's command: a daemon starts and reads the profiles; or the one that answers
\* goes on or goes.
Begins(k) ==
  /\ desk.process[k] = "none" /\ desk'.process = [desk.process EXCEPT ![k] = "runs"]
  /\ desk'.daemon.by = k /\ desk'.daemon.knows = desk.profiles
  /\ desk'.daemon.during = {c \in Commands : Inst!Looked(c)}
  /\ desk'.since = IF k = "unit" THEN {c \in Commands : at[c] # "start"} ELSE desk.since
GoesOn ==
  /\ DaemonStays /\ desk'.since = desk.since
  /\ \A k \in Inst!Owners :
       /\ desk'.process[k] # "none" => desk.process[k] # "none"
       /\ desk'.daemon.by = k /\ desk.process[k] \in {"runs", "told"} => desk'.process[k] \in {"runs", "told"}
Elsewhere ==
  /\ req' = req /\ at' = at /\ memo' = memo
  /\ FilesStay /\ desk'.profiles = desk.profiles
  /\ GoesOn \/ \E k \in Inst!Owners : Begins(k)

LEMMA RunsFrame ==
  ASSUME Formed, NEW k \in Inst!Owners, NEW version, NEW moves, desk.process[k] = "none",
         desk' = Inst!Runs(k, version) \/ desk' = [Inst!Runs(k, version) EXCEPT !.moves = moves]
  PROVE  /\ Begins(k) /\ FilesStay /\ desk'.profiles = desk.profiles /\ DeskFormed
<1> DEFINE started == Inst!Runs(k, version)
<1>1. DOMAIN started = DeskFields
  BY DEF Inst!Runs, Formed
<1>2. /\ started.unit = desk.unit /\ started.profiles = desk.profiles /\ started.lost = desk.lost
      /\ started.process = [desk.process EXCEPT ![k] = "runs"]
  BY DEF Inst!Runs, Formed, DeskFields
<1>3. started.roots = desk.roots \cup {"state", "runtime"}
  BY DEF Inst!Runs, Formed, DeskFields
<1>4. started.daemon = [by |-> k, version |-> version, knows |-> desk.profiles, during |-> {c \in Commands : Inst!Looked(c)}]
  BY DEF Inst!Runs, Formed, DeskFields
<1>5. started.since = IF k = "unit" THEN {c \in Commands : at[c] # "start"} ELSE desk.since
  BY DEF Inst!Runs, Formed, DeskFields
<1> HIDE DEF started
<1>6. DOMAIN desk' = DeskFields /\ \A f \in DeskFields \ {"moves"} : desk'[f] = started[f]
  BY <1>1 DEF started, DeskFields
<1>7. /\ desk'.unit = desk.unit /\ desk'.profiles = desk.profiles /\ desk'.lost = desk.lost
      /\ desk'.process = [desk.process EXCEPT ![k] = "runs"]
      /\ desk'.roots = started.roots /\ desk'.daemon = started.daemon /\ desk'.since = started.since
  BY <1>2, <1>6 DEF DeskFields
<1> QED
  BY <1>3, <1>4, <1>5, <1>6, <1>7 DEF Begins, FilesStay, DeskFormed, Formed, Inst!NoDaemon

LEMMA ElsewhereFrame ==
  ASSUME Formed,
         Inst!UnitStarts \/ Inst!DaemonGoesOn \/ Inst!Interference \/ Inst!Replug \/ UNCHANGED vars
  PROVE  Elsewhere /\ DeskFormed
<1>1. CASE Inst!UnitStarts
  <2>1. desk.process["unit"] = "none" /\ \E version : desk' = Inst!Runs("unit", version)
    BY <1>1 DEF Inst!UnitStarts, Inst!Alive
  <2>2. req' = req /\ at' = at /\ memo' = memo /\ "unit" \in Inst!Owners
    BY <1>1 DEF Inst!UnitStarts, Inst!Owners
  <2> QED
    BY <2>1, <2>2, RunsFrame DEF Elsewhere
<1>2. CASE Inst!Interference
  <2>0. req' = req /\ at' = at /\ memo' = memo
    BY <1>2 DEF Inst!Interference
  <2>1. CASE Inst!UserRuns
    <3>1. desk.process["user"] = "none" /\ "user" \in Inst!Owners
          /\ \E moves : desk' = [Inst!Runs("user", "new") EXCEPT !.moves = moves]
      BY <2>1 DEF Inst!UserRuns, Inst!Alive, Inst!Owners
    <3> QED
      BY <2>0, <3>1, RunsFrame DEF Elsewhere
  <2>2. CASE Inst!UserStops
    BY <2>0, <2>2 DEF Inst!UserStops, Formed, Elsewhere, DeskFormed, FilesStay, DaemonStays,
       GoesOn, DeskFields, Inst!Owners
  <2>3. CASE Inst!Dies
    <3>1. PICK k \in Inst!Owners : Inst!Alive(k) /\ desk' = [desk EXCEPT !.process[k] = "none", !.daemon = Inst!Silent(k), !.moves = @ - 1]
      BY <2>3 DEF Inst!Dies
    <3>2. DeskFormed /\ FilesStay /\ desk'.profiles = desk.profiles /\ desk'.since = desk.since
      BY <3>1 DEF Formed, DeskFormed, FilesStay, DeskFields, Inst!Silent, Inst!NoDaemon
    <3>3. desk'.process = [desk.process EXCEPT ![k] = "none"] /\ desk'.daemon = Inst!Silent(k)
      BY <3>1 DEF Formed, DeskFields
    <3>4. GoesOn
      BY <3>2, <3>3 DEF GoesOn, DaemonStays, Inst!Silent, Inst!NoDaemon, Formed, Inst!Owners
    <3> QED
      BY <2>0, <3>2, <3>4 DEF Elsewhere
  <2> QED
    BY <1>2, <2>1, <2>2, <2>3 DEF Inst!Interference
<1>3. CASE Inst!DaemonGoesOn
  <2>0. req' = req /\ at' = at /\ memo' = memo
    BY <1>3 DEF Inst!DaemonGoesOn
  <2>1. PICK k \in Inst!Owners : Inst!Closes(k) \/ Inst!Unlinks(k) \/ Inst!Leaves(k) \/ Inst!Writes(k)
    BY <1>3 DEF Inst!DaemonGoesOn
  <2>2. CASE Inst!Writes(k)
    BY <2>0, <2>2 DEF Inst!Writes, Formed, Elsewhere, DeskFormed, FilesStay, DaemonStays, GoesOn,
       DeskFields
  <2>3. CASE ~Inst!Writes(k)
    <3>4. /\ DOMAIN desk' = DeskFields /\ desk'.unit = desk.unit /\ desk'.profiles = desk.profiles
          /\ desk'.lost = desk.lost /\ desk'.since = desk.since
          /\ desk'.roots = desk.roots \/ desk'.roots = desk.roots \cup {"state"}
      BY <2>1, <2>3 DEF Inst!Closes, Inst!Unlinks, Inst!Leaves, Formed, DeskFields
    <3>2. \/ /\ desk.process[k] = "told" /\ desk'.process = [desk.process EXCEPT ![k] = "closing"]
             /\ desk'.daemon = Inst!Silent(k)
          \/ /\ desk.process[k] = "closing" /\ desk'.process = [desk.process EXCEPT ![k] = "leaving"]
             /\ desk'.daemon = Inst!NoDaemon
          \/ /\ desk.process[k] = "leaving" /\ desk'.process = [desk.process EXCEPT ![k] = "none"]
             /\ desk'.daemon = desk.daemon
      BY <2>1, <2>3 DEF Inst!Closes, Inst!Unlinks, Inst!Leaves, Formed, DeskFields
    <3>1. DeskFormed /\ FilesStay
      BY <3>2, <3>4 DEF DeskFormed, FilesStay, Formed, Inst!Silent, Inst!NoDaemon
    <3>3. GoesOn
      BY <3>2, <3>4 DEF GoesOn, DaemonStays, Inst!Silent, Inst!NoDaemon, Formed, Inst!Owners
    <3> QED
      BY <2>0, <3>1, <3>3, <3>4 DEF Elsewhere
  <2> QED
    BY <2>2, <2>3
<1>4. CASE Inst!Replug \/ UNCHANGED vars
  BY <1>4 DEF Inst!Replug, vars, Formed, Elsewhere, DeskFormed, FilesStay, DaemonStays, GoesOn,
     DeskFields
<1> QED
  BY <1>1, <1>2, <1>3, <1>4

LEMMA Walks ==
  ASSUME Formed, [Inst!Next]_vars
  PROVE  \/ Elsewhere /\ DeskFormed
         \/ \E c \in Commands : /\ Inst!SetupStep(c) \/ Inst!UninstallStep(c)
                                /\ Mine(c) /\ DeskFormed /\ DaemonStays /\ ProcessesStay(c) /\ MayRemove(c)
<1>1. ASSUME NEW c \in Commands, Inst!SetupStep(c)
      PROVE  Mine(c) /\ DeskFormed /\ DaemonStays /\ ProcessesStay(c) /\ MayRemove(c)
  BY <1>1, SetupFrame DEF FilesStay, MayRemove, DaemonKept, DaemonStays
<1> QED
  BY <1>1, UninstallFrame, ElsewhereFrame DEF Inst!Next

LEMMA InitFormed == ASSUME Inst!Found PROVE Inst!Init => Formed
BY DEF Inst!Init, Formed, Inst!Found, DeskFields, Inst!Nothing

LEMMA FormedStep == ASSUME Formed, [Inst!Next]_vars PROVE Formed'
BY Walks DEF Formed, Elsewhere, Mine, DeskFormed, FilesStay

\* The daemon that answers is a process that has not closed its socket.
Answering ==
  /\ desk.daemon.by \in Inst!Owners \cup {"none"}
  /\ \A k \in Inst!Owners : desk.daemon.by = k => desk.process[k] \in {"runs", "told"}

LEMMA InitAnswering == ASSUME Inst!Found PROVE Inst!Init => Answering
BY DEF Inst!Init, Answering, Inst!Found, DeskFields, Inst!Owners

LEMMA AnsweringStep == ASSUME Formed, Answering, [Inst!Next]_vars PROVE Answering'
<1>1. CASE Elsewhere /\ DeskFormed
  <2>1. CASE GoesOn
    BY <2>1 DEF Answering, GoesOn, DaemonStays, Inst!NoDaemon, Inst!Owners
  <2>2. ASSUME NEW k \in Inst!Owners, Begins(k) PROVE Answering'
    BY <2>2 DEF Answering, Begins, Formed, Inst!Owners
  <2> QED
    BY <1>1, <2>1, <2>2 DEF Elsewhere
<1>2. ASSUME NEW c \in Commands, DaemonStays, ProcessesStay(c) PROVE Answering'
  BY <1>2 DEF Answering, DaemonStays, ProcessesStay, Inst!NoDaemon, Inst!Owners
<1> QED
  BY <1>1, <1>2, Walks

\* Once the unit's process has ended for a command it has, until that command tells the
\* next one to stop.
LEMMA EndedStays ==
  ASSUME Formed, [Inst!Next]_vars, NEW c \in Commands, Inst!Ended(c), at[c] # "start", ~Tells(c)
  PROVE  Inst!Ended(c)'
<1>1. CASE Elsewhere
  <2>1. CASE GoesOn
    BY <2>1 DEF Inst!Ended, Inst!Alive, GoesOn, Inst!Owners
  <2>2. ASSUME NEW k \in Inst!Owners, Begins(k) PROVE Inst!Ended(c)'
    BY <2>2 DEF Inst!Ended, Inst!Alive, Begins, Formed, Inst!Owners
  <2> QED
    BY <1>1, <2>1, <2>2 DEF Elsewhere
<1>2. ASSUME NEW d \in Commands, ProcessesStay(d) PROVE Inst!Ended(c)'
  BY <1>2 DEF Inst!Ended, Inst!Alive, ProcessesStay, Inst!Owners
<1> QED
  BY <1>1, <1>2, Walks

\* A new profile is there until an uninstall removes it, and the unit's daemon has read
\* it: it was started after, or it ran before and is yet to be restarted.
Serves(c) == desk.daemon.by = "unit" /\ c \notin desk.daemon.during => memo[c].phone \in desk.daemon.knows
Registered(c) == at[c] \in Late /\ memo[c].changed /\ c \notin desk.lost
Ready(c) ==
  /\ at[c] \in Early => ~memo[c].changed
  /\ memo[c].changed => ~req[c].dry
  /\ at[c] \in Early \ {"start"} /\ ~memo[c].was => desk.daemon.by = "none" \/ c \in desk.daemon.during
  /\ Registered(c) => memo[c].phone \in desk.profiles
  /\ Registered(c) /\ ~memo[c].was => Serves(c)
  /\ Registered(c) /\ at[c] \in {"restarting", "awaiting_version"} /\ c \in desk.since => Serves(c)
  /\ at[c] = "awaiting_version" => Inst!Ended(c)
Readying == \A c \in Commands : req[c].op = "setup" => Ready(c)

\* The steps of a setup, as far as this is concerned.
SameNotes(c) == memo'[c].phone = memo[c].phone /\ memo'[c].was = memo[c].was /\ memo'[c].changed = memo[c].changed
Stage(c) ==
  \/ /\ at[c] = "start" /\ at'[c] = "dependencies" /\ (memo'[c].was <=> Inst!Up)
     /\ memo'[c].changed = memo[c].changed /\ desk' = desk
  \/ /\ at[c] \in Early \ {"start"} /\ at'[c] \in Early \ {"start"}
     /\ memo'[c].was = memo[c].was /\ memo'[c].changed = memo[c].changed
  \/ at[c] \in Early /\ at'[c] \in {"selecting", "installation"} /\ SameNotes(c)
  \/ /\ at[c] = "pairing" /\ at'[c] = "installation" /\ memo'[c].was = memo[c].was
     /\ ~req[c].dry /\ memo'[c].changed /\ memo'[c].phone \in desk'.profiles
  \/ at[c] \in Late /\ at'[c] \in Late \ {"restarting", "awaiting_version"} /\ SameNotes(c)
  \/ at[c] = "restart" /\ at'[c] = "restarting" /\ SameNotes(c) /\ c \notin desk'.since
  \/ at[c] = "restarting" /\ at'[c] = "awaiting_version" /\ SameNotes(c) /\ desk' = desk /\ Inst!Ended(c)
  \/ at'[c] \notin Early \cup Late /\ memo'[c].changed = memo[c].changed

LEMMA Stages ==
  ASSUME Formed, NEW c \in Commands, Inst!SetupStep(c)
  PROVE  Stage(c)
<1> USE DEF Formed, Inst!Keep, Inst!Goto, Inst!Stop, Inst!Answer, Inst!Fail, Stage, SameNotes, Early, Late
<1>1. CASE Inst!Preflight(c)
  BY <1>1 DEF Inst!Preflight, Inst!Nothing
<1>2. CASE Inst!RequireAdb(c) \/ Inst!Authorize(c) \/ Inst!SelectDefault(c)
  BY <1>2 DEF Inst!RequireAdb, Inst!Authorize, Inst!SelectDefault
<1>3. CASE Inst!Detect(c)
  BY <1>3 DEF Inst!Detect, Inst!Nothing
<1>4. CASE Inst!Register(c)
  BY <1>4 DEF Inst!Register, Inst!Nothing
<1>11. CASE Inst!Pair(c)
  <2>1. /\ at[c] = "pairing" /\ at'[c] \in {"installation", "end"}
        /\ \/ memo' = memo
           \/ /\ at'[c] = "installation" /\ ~req[c].dry
              /\ memo' = [memo EXCEPT ![c].changed = TRUE]
              /\ \E q : desk' = [desk EXCEPT !.profiles = @ \cup {memo[c].phone}, !.roots = @ \cup {"config"},
                                              !.config = "readable", !.default = q]
    BY <1>11 DEF Inst!Pair
  <2>2. ASSUME NEW q, desk' = [desk EXCEPT !.profiles = @ \cup {memo[c].phone}, !.roots = @ \cup {"config"},
                                           !.config = "readable", !.default = q]
        PROVE  memo[c].phone \in desk'.profiles
    BY <2>2 DEF DeskFields
  <2>3. ASSUME memo' = [memo EXCEPT ![c].changed = TRUE]
        PROVE  memo'[c].was = memo[c].was /\ memo'[c].phone = memo[c].phone /\ memo'[c].changed
    BY <2>3 DEF Inst!Nothing
  <2> QED
    BY <2>1, <2>2, <2>3
<1>5. CASE Inst!Install(c)
  BY <1>5 DEF Inst!Install, Inst!Nothing
<1>6. CASE Inst!InstallReload(c) \/ Inst!InstallEnable(c) \/ Inst!StartDaemon(c)
  BY <1>6, SystemctlFrame DEF Inst!InstallReload, Inst!InstallEnable, Inst!StartDaemon, Inst!Nothing
<1>7. CASE Inst!RestartDaemon(c)
  <2>1. ASSUME desk' = Inst!Restarted(c) PROVE c \notin desk'.since
    BY <2>1 DEF Inst!Restarted, Inst!Told, DeskFields
  <2> QED
    BY <1>7, <2>1 DEF Inst!RestartDaemon, Inst!Stopping, Inst!Stopped
<1>8. CASE Inst!DaemonStatus(c) \/ Inst!AwaitDaemon(c)
  BY <1>8 DEF Inst!DaemonStatus, Inst!AwaitDaemon, Inst!Judge, Inst!Nothing
<1>9. CASE Inst!AwaitVersion(c)
  BY <1>9 DEF Inst!AwaitVersion, Inst!Nothing
<1>10. CASE Inst!Failed(c) \/ Inst!ObserveDevice(c) \/ Inst!FirstUse(c) \/ Inst!OfferBackup(c) \/ Inst!BackupRestart(c) \/ Inst!CreateClient(c)
  BY <1>10 DEF Inst!Failed, Inst!ObserveDevice, Inst!FirstUse, Inst!OfferBackup,
     Inst!BackupRestart, Inst!CreateClient
<1> QED
  BY <1>1, <1>2, <1>3, <1>4, <1>5, <1>6, <1>7, <1>8, <1>9, <1>10, <1>11 DEF Inst!SetupStep

LEMMA InitReadying == Inst!Init => Readying
BY DEF Inst!Init, Readying, Ready, Registered, Inst!Nothing, Early, Late

LEMMA ReadyingStep == ASSUME Formed, Readying, [Inst!Next]_vars PROVE Readying'
<1> SUFFICES ASSUME NEW c \in Commands PROVE (req[c].op = "setup" => Ready(c))'
  BY DEF Readying
<1>0. ASSUME req[c].op = "setup", at[c] = "awaiting_version", Ready(c) PROVE Inst!Ended(c)'
  BY <1>0, EndedStays DEF Ready, Tells
<1>1. CASE Elsewhere /\ DeskFormed
  <2>1. CASE GoesOn
    BY <1>0, <1>1, <2>1 DEF Readying, Ready, Registered, Serves, Elsewhere, GoesOn, FilesStay,
       DaemonStays, Inst!NoDaemon,
       Inst!Looked, Early, Late
  <2>2. ASSUME NEW k \in Inst!Owners, Begins(k) PROVE (req[c].op = "setup" => Ready(c))'
    BY <1>0, <1>1, <2>2 DEF Readying, Ready, Registered, Serves, Elsewhere, Begins, FilesStay,
       Inst!Looked, Early, Late, Inst!Owners
  <2> QED
    BY <1>1, <2>1, <2>2 DEF Elsewhere
<1>2. ASSUME NEW d \in Commands, d # c, Mine(d), DeskFormed, DaemonStays, ProcessesStay(d), MayRemove(d)
      PROVE  (req[c].op = "setup" => Ready(c))'
  BY <1>0, <1>2 DEF Readying, Ready, Registered, Serves, Mine, MayRemove, DaemonStays,
     ProcessesStay, Inst!NoDaemon
<1>3. CASE Inst!SetupStep(c) /\ Mine(c) /\ DeskFormed /\ DaemonKept /\ ProcessesStay(c) /\ FilesStay
  <2>1. Stage(c) /\ req[c].op = "setup" /\ Ready(c)
    BY <1>3, Stages DEF Inst!SetupStep, Readying
  <2>2. at[c] = "restarting" /\ at'[c] = "awaiting_version" => Inst!Ended(c)'
    BY <2>1, EndedStays DEF Stage, Tells, Early, Late
  <2> QED
    BY <1>0, <1>3, <2>1, <2>2 DEF Stage, SameNotes, Ready, Registered, Serves, Mine, FilesStay,
       DaemonKept,
       ProcessesStay, Inst!NoDaemon, Early, Late, Inst!Up
<1>4. CASE Inst!UninstallStep(c)
  BY <1>4, UninstallFrame DEF Inst!UninstallStep, Mine
<1> QED
  BY <1>1, <1>2, <1>3, <1>4, Walks, SetupFrame

\* An uninstall that found no daemon has none before it, or one that has come since.
Clear == \A c \in Commands : req[c].op = "uninstall" =>
  /\ at[c] \in {"runtime", "purge", "purging"} /\ ~memo[c].alive => ~Inst!Up \/ c \in desk.daemon.during
  /\ at[c] = "purging" => ~memo[c].alive

LEMMA InitClear == Inst!Init => Clear
BY DEF Inst!Init, Clear

LEMMA ClearStep == ASSUME Formed, Clear, [Inst!Next]_vars PROVE Clear'
<1> SUFFICES ASSUME NEW c \in Commands, req'[c].op = "uninstall", at'[c] \in {"runtime", "purge", "purging"}
             PROVE  /\ ~memo'[c].alive => desk'.daemon.by = "none" \/ c \in desk'.daemon.during
                    /\ at'[c] = "purging" => ~memo'[c].alive
  BY DEF Clear, Inst!Up
<1>1. ASSUME Elsewhere
      PROVE  /\ ~memo'[c].alive => desk'.daemon.by = "none" \/ c \in desk'.daemon.during
             /\ at'[c] = "purging" => ~memo'[c].alive
  <2>1. /\ ~memo[c].alive => desk.daemon.by = "none" \/ c \in desk.daemon.during
        /\ at[c] = "purging" => ~memo[c].alive
        /\ memo' = memo /\ at' = at /\ at[c] \in {"runtime", "purge", "purging"}
    BY <1>1 DEF Clear, Elsewhere, Inst!Up
  <2>2. ASSUME GoesOn PROVE desk'.daemon = desk.daemon \/ desk'.daemon.by = "none"
    BY <2>2 DEF GoesOn, DaemonStays, Inst!NoDaemon
  <2>3. ASSUME NEW k \in Inst!Owners, Begins(k) PROVE c \in desk'.daemon.during
    BY <2>1, <2>3 DEF Begins, Inst!Looked
  <2> QED
    BY <1>1, <2>1, <2>2, <2>3 DEF Elsewhere
<1>2. ASSUME NEW d \in Commands \ {c}, Mine(d), DaemonStays
      PROVE  /\ ~memo'[c].alive => desk'.daemon.by = "none" \/ c \in desk'.daemon.during
             /\ at'[c] = "purging" => ~memo'[c].alive
  BY <1>2 DEF Clear, Mine, DaemonStays, Inst!NoDaemon, Inst!Up
<1>3. CASE Inst!UninstallStep(c)
  <2>1. /\ \/ at[c] \in {"runtime", "purge", "purging"} /\ memo'[c].alive = memo[c].alive
           \/ (~memo'[c].alive => ~Inst!Up) /\ desk' = desk
        /\ at'[c] = "purging" => ~memo'[c].alive
    <3>1. CASE Inst!Recheck(c)
      BY <3>1 DEF Inst!Recheck, Inst!StillAlive, Inst!Goto, Formed, Inst!Nothing
    <3>2. CASE Inst!RemoveRuntime(c)
      BY <3>2 DEF Inst!RemoveRuntime, Inst!Goto, Formed
    <3>4. CASE Inst!Purge(c)
      BY <3>4 DEF Inst!Purge, Inst!MayPurge, Inst!Goto, Inst!Answer, Inst!Fail, Formed, Inst!Nothing
    <3>5. CASE Inst!PurgeRoot(c)
      <4>1. at[c] = "purging" /\ memo'[c].alive = memo[c].alive
        BY <3>5 DEF Inst!PurgeRoot, Formed, Inst!Nothing
      <4> QED
        BY <1>3, <4>1 DEF Clear, Inst!UninstallStep
    <3>3. ASSUME Inst!Look(c) \/ Inst!Disable(c) \/ Inst!UnlinkUnit(c) \/ Inst!Unload(c) \/ Inst!WaitStopped(c) PROVE FALSE
      BY <3>3 DEF Inst!Look, Inst!Disable, Inst!Stopping, Inst!Stopped, Inst!UnlinkUnit,
         Inst!Unload, Inst!Remote, Inst!WaitStopped, Inst!Goto, Inst!Fail, Inst!Answer, Formed
    <3> QED
      BY <1>3, <3>1, <3>2, <3>3, <3>4, <3>5 DEF Inst!UninstallStep
  <2> QED
    BY <1>3, <2>1, UninstallFrame DEF Clear, Mine, DaemonStays, Inst!NoDaemon, Inst!Up,
       Inst!UninstallStep
<1>4. CASE Inst!SetupStep(c)
  BY <1>4, SetupFrame DEF Inst!SetupStep, Mine
<1> QED
  BY <1>1, <1>2, <1>3, <1>4, Walks

\* Once the stop of the service has come back, the unit's process has ended.
Halts(c) ==
  /\ memo[c].removed => at[c] \notin {"start", "disable", "disabling"} /\ Inst!Ended(c)
  /\ at[c] \in {"unlink", "unload"} => Inst!Ended(c)
Halted == \A c \in Commands : req[c].op = "uninstall" => Halts(c)

LEMMA InitHalted == Inst!Init => Halted
BY DEF Inst!Init, Halted, Halts, Inst!Nothing

LEMMA HaltedStep == ASSUME Formed, Halted, [Inst!Next]_vars PROVE Halted'
<1> SUFFICES ASSUME NEW c \in Commands, req[c].op = "uninstall" PROVE Halts(c)'
  BY Walks DEF Halted, Elsewhere, Mine
<1>1. Halts(c)
  BY DEF Halted
<1>2. ASSUME Inst!Ended(c), at[c] \notin {"start", "disable"} PROVE Inst!Ended(c)'
  BY <1>2, EndedStays DEF Tells
<1>3. CASE at'[c] = at[c] /\ memo'[c].removed = memo[c].removed
  BY <1>1, <1>2, <1>3 DEF Halts
<1>4. CASE Inst!UninstallStep(c)
  <2>1. CASE Inst!Look(c)
    BY <1>1, <2>1 DEF Inst!Look, Inst!Goto, Halts, Formed, Inst!Nothing
  <2>2. CASE Inst!Disable(c)
    BY <1>1, <1>2, <2>2 DEF Inst!Disable, Inst!Stopping, Inst!Stopped, Inst!Goto, Inst!Fail,
       Halts, Formed
  <2>3. CASE Inst!UnlinkUnit(c) \/ Inst!WaitStopped(c)
    BY <1>1, <1>2, <2>3 DEF Inst!UnlinkUnit, Inst!WaitStopped, Inst!Goto, Inst!Answer, Inst!Fail,
       Halts, Formed
  <2>4. CASE Inst!Unload(c)
    BY <1>1, <1>2, <2>4 DEF Inst!Unload, Inst!Remote, Inst!Goto, Inst!Fail, Halts, Formed,
       Inst!Nothing
  <2>5. CASE Inst!Recheck(c) \/ Inst!RemoveRuntime(c) \/ Inst!Purge(c)
    <3>1. at[c] \in {"alive", "runtime", "purge"}
      BY <2>5 DEF Inst!Recheck, Inst!RemoveRuntime, Inst!Purge, Inst!Goto, Inst!Answer, Inst!Fail
    <3>2. at'[c] \in {"runtime", "purge", "purging", "end"}
      BY <2>5 DEF Inst!Recheck, Inst!RemoveRuntime, Inst!Purge, Inst!Goto, Inst!Answer, Inst!Fail,
         Formed
    <3>3. memo'[c].removed = memo[c].removed
      BY <2>5 DEF Inst!Recheck, Inst!RemoveRuntime, Inst!Purge, Formed, Inst!Nothing
    <3> QED
      BY <1>1, <1>2, <3>1, <3>2, <3>3 DEF Halts
  <2>6. CASE Inst!PurgeRoot(c)
    <3>1. at[c] = "purging" /\ at'[c] \in {"purging", "end"} /\ memo'[c].removed = memo[c].removed
      BY <2>6 DEF Inst!PurgeRoot, Inst!Answer, Inst!Fail, Formed, Inst!Nothing
    <3> QED
      BY <1>1, <1>2, <3>1 DEF Halts
  <2> QED
    BY <1>4, <2>1, <2>2, <2>3, <2>4, <2>5, <2>6 DEF Inst!UninstallStep
<1> QED
  BY <1>3, <1>4, Walks DEF Elsewhere, Mine, Inst!SetupStep

LEMMA Serving ==
  ASSUME Formed, Answering, Readying, [Inst!Next]_vars, NEW c \in Commands,
         at'[c] = "observe", at[c] # "observe", memo'[c].running, memo[c].changed, memo[c].installed,
         desk.daemon.by = "unit", c \notin desk.daemon.during, c \notin desk.lost
  PROVE  memo[c].phone \in desk.daemon.knows /\ desk.daemon.version = "new"
<1>1. Inst!SetupStep(c)
  <2>1. ~Inst!UninstallStep(c)
    <3>1. ~(Inst!Look(c) \/ Inst!Disable(c) \/ Inst!UnlinkUnit(c) \/ Inst!Unload(c) \/ Inst!WaitStopped(c) \/ Inst!Recheck(c) \/ Inst!RemoveRuntime(c))
      BY DEF Inst!Look, Inst!Disable, Inst!Stopping, Inst!Stopped, Inst!UnlinkUnit, Inst!Unload,
         Inst!Remote, Inst!WaitStopped, Inst!Recheck, Inst!RemoveRuntime,
             Inst!Goto, Inst!Fail, Inst!Answer, Formed
    <3>2. ~(Inst!Purge(c) \/ Inst!PurgeRoot(c))
      BY DEF Inst!Purge, Inst!PurgeRoot, Inst!Goto, Inst!Fail, Inst!Answer, Formed
    <3> QED
      BY <3>1, <3>2 DEF Inst!UninstallStep
  <2> QED
    BY <2>1, Walks DEF Elsewhere, Mine
<1>2. Inst!DaemonStatus(c) \/ Inst!AwaitDaemon(c) \/ Inst!AwaitVersion(c)
  <2>1. ~(Inst!Preflight(c) \/ Inst!RequireAdb(c) \/ Inst!Detect(c) \/ Inst!Authorize(c) \/ Inst!Register(c) \/ Inst!SelectDefault(c)
          \/ Inst!Pair(c) \/ Inst!Install(c) \/ Inst!Failed(c)
          \/ Inst!ObserveDevice(c) \/ Inst!FirstUse(c) \/ Inst!OfferBackup(c) \/ Inst!BackupRestart(c) \/ Inst!CreateClient(c))
    BY DEF Inst!Preflight, Inst!RequireAdb, Inst!Detect, Inst!Authorize, Inst!Register,
       Inst!SelectDefault, Inst!Pair, Inst!Install, Inst!Failed, Inst!ObserveDevice,
           Inst!FirstUse, Inst!OfferBackup, Inst!BackupRestart, Inst!CreateClient, Inst!Goto, Inst!Stop, Inst!Answer, Inst!Fail, Formed
  <2>2. ~(Inst!InstallReload(c) \/ Inst!InstallEnable(c) \/ Inst!StartDaemon(c))
    BY SystemctlFrame DEF Inst!InstallReload, Inst!InstallEnable, Inst!StartDaemon, Formed
  <2>3. ~Inst!RestartDaemon(c)
    BY DEF Inst!RestartDaemon, Inst!Stopping, Inst!Stopped, Inst!Goto, Inst!Fail, Formed
  <2> QED
    BY <1>1, <2>1, <2>2, <2>3 DEF Inst!SetupStep
<1>3. req[c].op = "setup" /\ Ready(c)
  BY <1>1 DEF Inst!SetupStep, Readying
<1>4. CASE at[c] \in {"daemon", "awaiting"}
  <2>1. ~Inst!NeedsRestart(c)
    BY <1>2, <1>3, <1>4 DEF Inst!DaemonStatus, Inst!AwaitDaemon, Inst!AwaitVersion, Inst!Judge,
       Ready, Inst!Goto, Inst!Up, Inst!Stop, Inst!Answer, Inst!Fail, Formed
  <2> QED
    BY <1>3, <1>4, <2>1 DEF Inst!NeedsRestart, Ready, Registered, Serves, Late
<1>5. CASE at[c] = "awaiting_version" /\ Inst!AwaitVersion(c)
  <2>1. c \in desk.since
    BY <1>3, <1>5 DEF Ready, Inst!Ended, Inst!Alive, Answering, Inst!Owners
  <2> QED
    BY <1>3, <1>5, <2>1 DEF Inst!AwaitVersion, Ready, Registered, Serves, Late, Inst!Up,
       Inst!Stop, Inst!Answer, Inst!Fail, Formed
<1> QED
  BY <1>2, <1>4, <1>5 DEF Inst!DaemonStatus, Inst!AwaitDaemon, Inst!AwaitVersion, Inst!Judge,
     Inst!Goto, Inst!Stop, Inst!Answer, Inst!Fail

\* The setup that registers a phone and installs the service goes on with a daemon of
\* this version that has read the profile: the one there was before is restarted, and
\* one that came since read it as it started.
THEOREM ServesWhenReady == ASSUME Inst!Found PROVE Inst!Spec => Inst!ReadyDaemonServes
<1>1. Inst!Init => Formed /\ Answering /\ Readying
  BY InitFormed, InitAnswering, InitReadying
<1>2. Formed /\ Answering /\ Readying /\ [Inst!Next]_vars => (Formed /\ Answering /\ Readying)'
  BY FormedStep, AnsweringStep, ReadyingStep
<1>3. Formed /\ Answering /\ Readying /\ [Inst!Next]_vars => [\A c \in Commands :
        /\ at'[c] = "observe" /\ at[c] # "observe" /\ memo'[c].running
        /\ memo[c].changed /\ memo[c].installed
        /\ desk.daemon.by = "unit" /\ c \notin desk.daemon.during
        /\ c \notin desk.lost
        => memo[c].phone \in desk.daemon.knows /\ desk.daemon.version = "new"]_vars
  BY Serving
<1> QED
  BY <1>1, <1>2, <1>3, PTL DEF Inst!Spec, Inst!vars, vars, Inst!ReadyDaemonServes

LEMMA Removal ==
  ASSUME Formed, Clear, Halted, [Inst!Next]_vars, NEW c \in Commands, Inst!Strips(c)
  PROVE  /\ ~Inst!Up \/ c \in desk.daemon.during
         /\ memo[c].removed => ~Inst!Alive("unit") \/ c \in desk.since
<1>1. Inst!UninstallStep(c)
  <2>1. ASSUME NEW d \in Commands, Inst!SetupStep(d) PROVE FALSE
    BY <2>1, SetupFrame DEF FilesStay, DaemonKept, Inst!Strips, Inst!Up, Inst!NoDaemon
  <2> QED
    BY <2>1, Walks DEF Elsewhere, Mine, Inst!Strips
<1>2. req[c].op = "uninstall"
  BY <1>1 DEF Inst!UninstallStep
<1>3. memo[c].removed => ~Inst!Alive("unit") \/ c \in desk.since
  BY <1>2 DEF Halted, Halts, Inst!Ended
<1>4. CASE Inst!RemoveRuntime(c) \/ Inst!PurgeRoot(c)
  <2>1. CASE Inst!RemoveRuntime(c)
    <3>1. at[c] = "runtime" /\ (desk' = desk \/ ~memo[c].alive)
      BY <2>1 DEF Inst!RemoveRuntime, Inst!Goto
    <3>2. desk' # desk
      BY DEF Inst!Strips, Inst!Up, Inst!NoDaemon
    <3> QED
      BY <1>2, <1>3, <3>1, <3>2 DEF Clear
  <2>2. CASE Inst!PurgeRoot(c)
    BY <1>2, <1>3, <2>2 DEF Inst!PurgeRoot, Clear
  <2> QED
    BY <1>4, <2>1, <2>2
<1>5. ASSUME desk'.roots = desk.roots, desk'.daemon = desk.daemon PROVE FALSE
  BY <1>5 DEF Inst!Strips, Inst!Up, Inst!NoDaemon
<1>6. ~(Inst!Look(c) \/ Inst!WaitStopped(c) \/ Inst!Recheck(c) \/ Inst!Purge(c) \/ Inst!Unload(c))
  BY <1>5 DEF Inst!Look, Inst!WaitStopped, Inst!Recheck, Inst!Purge, Inst!Unload
<1>7. ~Inst!UnlinkUnit(c)
  BY <1>5 DEF Inst!UnlinkUnit, Formed, DeskFields
<1>8. ~Inst!Disable(c)
  <2>1. ASSUME desk' = Inst!Disabled(c) PROVE FALSE
    BY <1>5, <2>1 DEF Inst!Disabled, Inst!Told, Formed, DeskFields
  <2> QED
    BY <1>5, <2>1 DEF Inst!Disable, Inst!Stopping, Inst!Stopped
<1> QED
  BY <1>1, <1>4, <1>6, <1>7, <1>8 DEF Inst!UninstallStep

\* An uninstall removes the files of no daemon that answered when it last looked; nor
\* those of a process of the service that answers no more, if the stop of the service
\* reported no error; whoever started the daemon, and whatever else runs meanwhile.
THEOREM RemovesNothingBeneath == ASSUME Inst!Found PROVE Inst!Spec => Inst!NothingRemovedBeneath
<1>1. Inst!Init => Formed /\ Clear /\ Halted
  BY InitFormed, InitClear, InitHalted
<1>2. Formed /\ Clear /\ Halted /\ [Inst!Next]_vars => (Formed /\ Clear /\ Halted)'
  BY FormedStep, ClearStep, HaltedStep
<1>3. Formed /\ Clear /\ Halted /\ [Inst!Next]_vars => [\A c \in Commands : Inst!Strips(c) =>
        /\ ~Inst!Up \/ c \in desk.daemon.during
        /\ memo[c].removed => ~Inst!Alive("unit") \/ c \in desk.since]_vars
  BY Removal
<1> QED
  BY <1>1, <1>2, <1>3, PTL DEF Inst!Spec, Inst!vars, vars, Inst!NothingRemovedBeneath
=============================================================================
