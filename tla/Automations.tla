---------------------------- MODULE Automations ----------------------------
(***************************************************************************)
(* The automations of the daemon (daemon.py, core/automation.py,           *)
(* actions.py): observer threads put events on a bounded queue, the rules  *)
(* thread cancels the jobs of a device that left and selects the rules an  *)
(* event fires, a pool runs the firings step by step and starts jobs, and  *)
(* a stop takes all of it down.  Jobs is the detailed model of the jobs    *)
(* themselves: here a job is an entry of the runner's map, and its token.  *)
(*                                                                         *)
(* The rules file is external: every reload reads any of Files.  What an   *)
(* action does to a phone is its outcome.  Jobs that API clients start are *)
(* left out, and so are placeholders and the data that outcomes add to the *)
(* context: a step with an `if` of its own may find it met or not.         *)
(***************************************************************************)
EXTENDS Rules, FiniteSets

CONSTANTS
  Devices,
  Bodies,      \* events without their id: [type, device, initial, data]
  Files,       \* what the rules file can hold: sequences of rules
  Workers,     \* the threads of the firing pool (max_firings)
  Reloaders,   \* threads that reload: socket and API handlers
  JoinMayTimeOut,  \* the rules thread may need more than the 10 s it is waited for
  QueueSize,   \* maxsize of _rule_queue: 1000 in the code
  MaxEvents, MaxTime, MaxReloads  \* bounds on events, clock ticks and reloads

\* load_rules refuses a file with two rules of one name.
ASSUME AutomationsAssumption ==
  /\ \A file \in Files :
       /\ file \in Seq({file[i] : i \in DOMAIN file})
       /\ \A i, j \in DOMAIN file : file[i].name = file[j].name => i = j
       /\ \A i \in DOMAIN file : file[i].cooldown \in Int
  /\ JoinMayTimeOut \in BOOLEAN
  /\ QueueSize \in Nat \ {0} /\ MaxEvents \in Nat /\ MaxTime \in Nat /\ MaxReloads \in Nat

JobActions == {"backup", "send", "clipboard-sync"}
Keys == Devices \X JobActions
RuleNames == UNION {{file[i].name : i \in DOMAIN file} : file \in Files}
EventIds == 1 .. MaxEvents
Never == -1
Idle == [list |-> "none"]
NoEvent == [id |-> 0]
Stop == [id |-> -1]

VARIABLES
  events,    \* number of events sunk so far
  clock,     \* time.monotonic()
  loaded,    \* Daemon.rules: the active rules that status and _sink consult
  rules,     \* Engine.rules: the rules events are matched against
  reload,    \* reload[h]: the rules handler h has loaded and not yet given to the engine
  reloads,   \* number of reloads so far
  queue,     \* _rule_queue
  rulesPc,   \* where the rules thread is; "dead" after an exception
  event,     \* the event it handles
  selected,  \* what select() returned and the thread has not passed on
  lastFired, \* Engine._last_fired, by rule name
  pool,      \* the pool's queue of firings
  poolOpen,  \* submit() still works
  firing,    \* firing[w]: the firing worker w runs
  jobs,      \* jobs[k]: "free", "running" or "cancelled" (token set, still running)
  audit,     \* audit[r, e]: how many entries the audit file has of rule r and event e
  stop,      \* where run() is on its way down
  chosen,    \* history: the firings selected to run, with the time
  abandoned  \* history: the firings the stop dropped

eventVars == <<events, queue>>
ruleVars == <<loaded, rules, reload, reloads>>
threadVars == <<rulesPc, event, selected, lastFired>>
poolVars == <<pool, poolOpen, firing>>
history == <<chosen, abandoned>>
vars == <<eventVars, clock, ruleVars, threadVars, poolVars, jobs, audit, stop, history>>

Init ==
  /\ events = 0 /\ clock = 0
  /\ \E file \in Files : loaded = Active(file)
  /\ rules = loaded
  /\ reload = [h \in Reloaders |-> <<>>] /\ reloads = 0
  /\ queue = <<>>
  /\ rulesPc = "get" /\ event = NoEvent /\ selected = <<>>
  /\ lastFired = [r \in RuleNames |-> Never]
  /\ pool = <<>> /\ poolOpen = TRUE
  /\ firing = [w \in Workers |-> Idle]
  /\ jobs = [k \in Keys |-> "free"]
  /\ audit = [f \in RuleNames \X EventIds |-> 0]
  /\ stop = "running"
  /\ chosen = {} /\ abandoned = {}

Tick ==
  /\ clock < MaxTime
  /\ clock' = clock + 1
  /\ UNCHANGED <<eventVars, ruleVars, threadVars, poolVars, jobs, audit, stop, history>>

(***************************************************************************)
(* _sink, and reload_rules on a handler's thread                           *)
(***************************************************************************)
HasRoom == Len(queue) < QueueSize

WithId(body, n) ==
  [id |-> n, type |-> body.type, device |-> body.device, initial |-> body.initial, data |-> body.data]

\* An event is offered to the rules thread if a rule could want it, or jobs
\* may have to be cancelled; a full queue drops it.
Sink(body) ==
  /\ stop = "running" /\ events < MaxEvents
  /\ events' = events + 1
  /\ queue' = IF (loaded # <<>> \/ body.type = "device.disconnected") /\ HasRoom
                THEN Append(queue, WithId(body, events'))
                ELSE queue
  /\ UNCHANGED <<clock, ruleVars, threadVars, poolVars, jobs, audit, stop, history>>

\* load_rules and `self.rules = loaded`; a file that does not parse changes nothing.
ReloadFile(h) == \E file \in Files :
  /\ stop = "running" /\ reload[h] = <<>> /\ reloads < MaxReloads
  /\ reloads' = reloads + 1
  /\ loaded' = Active(file)
  /\ reload' = [reload EXCEPT ![h] = <<loaded'>>]
  /\ UNCHANGED <<rules, eventVars, clock, threadVars, poolVars, jobs, audit, stop, history>>

ReplaceRules_ForgetsCooldowns(h) ==  \* mutant: a reload makes a new engine
  /\ reload[h] # <<>>
  /\ rules' = reload[h][1]
  /\ reload' = [reload EXCEPT ![h] = <<>>]
  /\ lastFired' = [r \in RuleNames |-> Never]
  /\ UNCHANGED <<loaded, reloads, eventVars, clock, rulesPc, event, selected, poolVars, jobs, audit, stop, history>>

\* Engine.replace_rules: cooldowns are kept.
ReplaceRules(h) ==
  /\ reload[h] # <<>>
  /\ rules' = reload[h][1]
  /\ reload' = [reload EXCEPT ![h] = <<>>]
  /\ UNCHANGED <<loaded, reloads, eventVars, clock, threadVars, poolVars, jobs, audit, stop, history>>

(***************************************************************************)
(* _run_rules                                                              *)
(***************************************************************************)
SetTokens(keys) == jobs' = [k \in Keys |-> IF k \in keys /\ jobs[k] = "running" THEN "cancelled" ELSE jobs[k]]

Get_CancelsForRules ==  \* mutant: jobs are cancelled only if a rule is about the disconnect
  LET e == Head(queue) IN
  /\ rulesPc = "get" /\ queue # <<>>
  /\ queue' = Tail(queue)
  /\ IF e = Stop
       THEN rulesPc' = "ended" /\ UNCHANGED <<event, jobs>>
       ELSE /\ rulesPc' = "select"
            /\ event' = e
            /\ IF e.type = "device.disconnected" /\ (\E i \in DOMAIN rules : rules[i].when = e.type)
                 THEN SetTokens({e.device} \X JobActions)
                 ELSE UNCHANGED jobs
  /\ UNCHANGED <<events, clock, ruleVars, selected, lastFired, poolVars, audit, stop, history>>

\* The next event; if it says that a device left, the device's jobs are
\* cancelled first.
Get ==
  LET e == Head(queue) IN
  /\ rulesPc = "get" /\ queue # <<>>
  /\ queue' = Tail(queue)
  /\ IF e = Stop
       THEN rulesPc' = "ended" /\ UNCHANGED <<event, jobs>>
       ELSE /\ rulesPc' = "select"
            /\ event' = e
            /\ IF e.type = "device.disconnected"
                 THEN SetTokens({e.device} \X JobActions)
                 ELSE UNCHANGED jobs
  /\ UNCHANGED <<events, clock, ruleVars, selected, lastFired, poolVars, audit, stop, history>>

CoolingDown(rule) ==
  /\ lastFired[rule.name] # Never
  /\ rule.cooldown # 0
  /\ clock - lastFired[rule.name] < rule.cooldown

\* The thread has still to pass on what `left` holds.
Handed(left) ==
  IF left = <<>> THEN rulesPc' = "get" /\ event' = NoEvent
                 ELSE rulesPc' = "dispatch" /\ UNCHANGED event
Dies == rulesPc' = "dead" /\ event' = NoEvent /\ selected' = <<>>

\* select(): names are unique, so the rules do not see each other's firing.
\* If evaluating a condition raises, nothing is selected and the thread dies;
\* the rules before that one keep their new cooldown.
SelectRules ==
  LET answers == [i \in DOMAIN rules |-> Matches(rules[i], event)]
      raising == {i \in DOMAIN rules : answers[i] = "raises"}
      reached == {i \in DOMAIN rules : \A j \in raising : i < j}
      firing_ == {rules[i].name : i \in {x \in reached : answers[x] = "holds" /\ ~CoolingDown(rules[x])}}
      hits == Among(rules, {rules[i] : i \in {x \in DOMAIN rules : answers[x] = "holds"}})
  IN /\ rulesPc = "select"
     /\ lastFired' = [r \in RuleNames |-> IF r \in firing_ THEN clock ELSE lastFired[r]]
     /\ IF raising = {}
          THEN /\ selected' = [i \in DOMAIN hits |-> [rule |-> hits[i], skip |-> CoolingDown(hits[i])]]
               /\ Handed(selected')
               /\ chosen' = chosen \union {[rule |-> r, event |-> event.id, at |-> clock] : r \in firing_}
          ELSE Dies /\ UNCHANGED chosen
     /\ UNCHANGED <<eventVars, clock, ruleVars, poolVars, jobs, audit, stop, abandoned>>

Audited(rule, e) == audit' = [audit EXCEPT ![<<rule.name, e.id>>] = @ + 1]
AuditClosed == stop = "stopped"

\* One entry of what select() returned: a skip is audited, a firing submitted.
\* A closed audit file and a pool that is shut down both raise.
Dispatch ==
  LET s == Head(selected)
      passOn == selected' = Tail(selected) /\ Handed(selected')
  IN
  /\ rulesPc = "dispatch"
  /\ \/ /\ s.skip /\ ~AuditClosed
        /\ Audited(s.rule, event)
        /\ passOn
        /\ UNCHANGED <<pool, abandoned>>
     \/ /\ ~s.skip /\ poolOpen
        /\ pool' = Append(pool, [rule |-> s.rule, event |-> event])
        /\ passOn
        /\ UNCHANGED <<audit, abandoned>>
     \/ /\ IF s.skip THEN AuditClosed ELSE ~poolOpen
        /\ Dies
        /\ abandoned' = abandoned \union {<<selected[i].rule.name, event.id>> : i \in {x \in DOMAIN selected : ~selected[x].skip}}
        /\ UNCHANGED <<pool, audit>>
  /\ UNCHANGED <<eventVars, clock, ruleVars, lastFired, poolOpen, firing, jobs, stop, chosen>>

(***************************************************************************)
(* _fire and Engine.fire, on a worker of the pool                          *)
(***************************************************************************)
Begin(w) ==
  /\ firing[w] = Idle /\ pool # <<>>
  /\ firing' = [firing EXCEPT ![w] =
       [list |-> "do", inJob |-> FALSE, rule |-> Head(pool).rule, event |-> Head(pool).event,
        left |-> Head(pool).rule.do, failed |-> FALSE]]
  /\ pool' = Tail(pool)
  /\ UNCHANGED <<eventVars, clock, ruleVars, threadVars, poolOpen, jobs, audit, stop, history>>

\* A firing runs the steps of its `do` list, and after that those of on_error; a step that
\* starts a job waits for its end.
InJob(w) == firing[w] # Idle /\ firing[w].inJob
AtStep(w) == firing[w] # Idle /\ ~InJob(w) /\ firing[w].left # <<>>
AtEnd(w) == firing[w] # Idle /\ ~InJob(w) /\ firing[w].left = <<>>
Step(w) == Head(firing[w].left)
Key(w) == <<firing[w].event.device, Step(w).action>>

\* The outcome of a step joins the firing.  A `do` step that is not ok ends
\* the list unless the rule continues on errors; only one that failed, and
\* was not skipped, calls for on_error.
After(f, ok, skipped) ==
  LET breaks == f.list = "do" /\ ~ok /\ ~f.rule.keepGoing IN
  [f EXCEPT !.left = IF breaks THEN <<>> ELSE Tail(@),
            !.failed = @ \/ (f.list = "do" /\ ~ok /\ ~skipped)]

\* A step whose own condition is not met is skipped, which is ok.
Unmet(w) ==
  /\ AtStep(w) /\ Step(w).gated
  /\ firing' = [firing EXCEPT ![w] = After(@, TRUE, TRUE)]
  /\ UNCHANGED <<eventVars, clock, ruleVars, threadVars, pool, poolOpen, jobs, audit, stop, history>>

\* notify-desktop, notify-phone, run: a subprocess with a timeout.
ShortAction(w) == \E ok \in BOOLEAN :
  /\ AtStep(w) /\ Step(w).action \notin JobActions
  /\ firing' = [firing EXCEPT ![w] = After(@, ok, FALSE)]
  /\ UNCHANGED <<eventVars, clock, ruleVars, threadVars, pool, poolOpen, jobs, audit, stop, history>>

JobFree_Unchecked(k) == k \in Keys  \* mutant: duplicates are not skipped
JobFree(k) == jobs[k] = "free"

\* A job of the same device and action is running: the outcome is not ok, but
\* skipped.
Duplicate(w) ==
  /\ AtStep(w) /\ Step(w).action \in JobActions
  /\ ~JobFree(Key(w))
  /\ firing' = [firing EXCEPT ![w] = After(@, FALSE, TRUE)]
  /\ UNCHANGED <<eventVars, clock, ruleVars, threadVars, pool, poolOpen, jobs, audit, stop, history>>

StartJob(w) ==
  /\ AtStep(w) /\ Step(w).action \in JobActions
  /\ JobFree(Key(w))
  /\ jobs' = [jobs EXCEPT ![Key(w)] = "running"]
  /\ firing' = [firing EXCEPT ![w].inJob = TRUE]
  /\ UNCHANGED <<eventVars, clock, ruleVars, threadVars, pool, poolOpen, audit, stop, history>>

\* JobRunner.run returns.  clipboard-sync returns ok only when it is
\* cancelled; a cancelled job can also end ok or failed.
EndJob(w) == \E ok \in BOOLEAN :
  /\ InJob(w)
  /\ ok /\ Step(w).action = "clipboard-sync" => jobs[Key(w)] = "cancelled"
  /\ jobs' = [jobs EXCEPT ![Key(w)] = "free"]
  /\ firing' = [firing EXCEPT ![w] = After([@ EXCEPT !.inJob = FALSE], ok, FALSE)]
  /\ UNCHANGED <<eventVars, clock, ruleVars, threadVars, pool, poolOpen, audit, stop, history>>

StepRaises_Unaudited(w) ==  \* mutant: the exception is lost in the future
  /\ AtStep(w)
  /\ firing' = [firing EXCEPT ![w] = Idle]
  /\ UNCHANGED <<eventVars, clock, ruleVars, threadVars, pool, poolOpen, jobs, audit, stop, history>>

\* A step raises (a bad condition or option): the firing ends as rule.error.
StepRaises(w) ==
  /\ AtStep(w)
  /\ Audited(firing[w].rule, firing[w].event)
  /\ firing' = [firing EXCEPT ![w] = Idle]
  /\ UNCHANGED <<eventVars, clock, ruleVars, threadVars, pool, poolOpen, jobs, stop, history>>

OnErrorDue(f) == f.list = "do" /\ f.failed /\ f.rule.onError # <<>>

OnError(w) ==
  /\ AtEnd(w) /\ OnErrorDue(firing[w])
  /\ firing' = [firing EXCEPT ![w].list = "onError", ![w].left = firing[w].rule.onError]
  /\ UNCHANGED <<eventVars, clock, ruleVars, threadVars, pool, poolOpen, jobs, audit, stop, history>>

RecordFiring(w) ==
  /\ AtEnd(w) /\ ~OnErrorDue(firing[w])
  /\ Audited(firing[w].rule, firing[w].event)
  /\ firing' = [firing EXCEPT ![w] = Idle]
  /\ UNCHANGED <<eventVars, clock, ruleVars, threadVars, pool, poolOpen, jobs, stop, history>>

(***************************************************************************)
(* run(), after the observer has returned                                  *)
(***************************************************************************)
Observed ==
  /\ stop = "running"
  /\ stop' = "sentinel"
  /\ UNCHANGED <<eventVars, clock, ruleVars, threadVars, poolVars, jobs, audit, history>>

\* _rule_queue.put(None) waits for room.
PutStop ==
  /\ stop = "sentinel" /\ HasRoom
  /\ queue' = Append(queue, Stop)
  /\ stop' = "join"
  /\ UNCHANGED <<events, clock, ruleVars, threadVars, poolVars, jobs, audit, history>>

\* _rule_thread.join(timeout=10): over, or given up.
Joined ==
  /\ stop = "join"
  /\ JoinMayTimeOut \/ rulesPc \in {"ended", "dead"}
  /\ stop' = "cancel"
  /\ UNCHANGED <<eventVars, clock, ruleVars, threadVars, poolVars, jobs, audit, history>>

CancelAll ==
  /\ stop = "cancel"
  /\ SetTokens(Keys)
  /\ stop' = IF \A k \in Keys : JobFree(k) THEN "pool" ELSE "idle"
  /\ UNCHANGED <<eventVars, clock, ruleVars, threadVars, poolVars, audit, history>>

\* jobs.wait_idle(10): idle, or given up.
WaitIdle ==
  /\ stop = "idle"
  /\ stop' = "pool"
  /\ UNCHANGED <<eventVars, clock, ruleVars, threadVars, poolVars, jobs, audit, history>>

\* _pool.shutdown(wait=True, cancel_futures=True): the waiting firings are dropped.
ShutPool ==
  /\ stop = "pool"
  /\ poolOpen' = FALSE
  /\ pool' = <<>>
  /\ abandoned' = abandoned \union {<<pool[i].rule.name, pool[i].event.id>> : i \in DOMAIN pool}
  /\ stop' = "drain"
  /\ UNCHANGED <<eventVars, clock, ruleVars, threadVars, firing, jobs, audit, chosen>>

WorkersIdle == \A w \in Workers : firing[w] = Idle

CloseAudit_NoWait ==  \* mutant: shutdown(wait=False)
  /\ stop = "drain"
  /\ stop' = "stopped"
  /\ UNCHANGED <<eventVars, clock, ruleVars, threadVars, poolVars, jobs, audit, history>>

CloseAudit ==
  /\ stop = "drain" /\ WorkersIdle
  /\ stop' = "stopped"
  /\ UNCHANGED <<eventVars, clock, ruleVars, threadVars, poolVars, jobs, audit, history>>

RulesThread == Get \/ SelectRules \/ Dispatch

\* The steps of a worker that come by themselves: all but the end of a job
\* that nobody cancelled and that need not end.
WorkerStep(w) ==
  \/ Begin(w) \/ Unmet(w) \/ ShortAction(w) \/ Duplicate(w) \/ StartJob(w)
  \/ StepRaises(w) \/ OnError(w) \/ RecordFiring(w)

MustEnd(w) ==
  /\ InJob(w)
  /\ Step(w).action = "clipboard-sync" => jobs[Key(w)] = "cancelled"

StopStep == PutStop \/ Joined \/ CancelAll \/ WaitIdle \/ ShutPool \/ CloseAudit

Next ==
  \/ Tick
  \/ \E body \in Bodies : Sink(body)
  \/ \E h \in Reloaders : ReloadFile(h) \/ ReplaceRules(h)
  \/ RulesThread
  \/ \E w \in Workers : WorkerStep(w) \/ EndJob(w)
  \/ Observed \/ StopStep

Spec == Init /\ [][Next]_vars

\* Threads run, and jobs that must end do.  Nothing makes the daemon stop.
Fairness ==
  /\ WF_vars(RulesThread)
  /\ \A h \in Reloaders : WF_vars(ReplaceRules(h))
  /\ \A w \in Workers : WF_vars(WorkerStep(w)) /\ WF_vars(MustEnd(w) /\ EndJob(w))
  /\ WF_vars(StopStep)

FairSpec == Spec /\ Fairness

(***************************************************************************)
(* Properties                                                              *)
(***************************************************************************)

Cooldowns(name) == UNION {{file[i].cooldown : i \in {x \in DOMAIN file : file[x].name = name}} : file \in Files}

\* "Cooldown timers survive a reload for rules that keep their name": two
\* firings of a rule are never closer than the shortest cooldown any version
\* of the file gives it, however reloads and events interleave.
CooldownHolds ==
  \A f, g \in chosen : f.rule = g.rule /\ f.event < g.event =>
    \E c \in Cooldowns(f.rule) : g.at - f.at >= c

\* Every firing that select() decides is somewhere, and in one place only: in
\* the hands of the rules thread, in the pool, on a worker, in the audit
\* file, or dropped by the stop.  None is lost to an exception or audited twice.
FiringsAccounted == \A f \in chosen :
  LET id == <<f.rule, f.event>>
      inHand == {i \in DOMAIN selected : ~selected[i].skip /\ <<selected[i].rule.name, event.id>> = id}
      waiting == {i \in DOMAIN pool : <<pool[i].rule.name, pool[i].event.id>> = id}
      running == {w \in Workers : firing[w] # Idle /\ <<firing[w].rule.name, firing[w].event.id>> = id}
  IN Cardinality(inHand) + Cardinality(waiting) + Cardinality(running)
       + audit[id] + Cardinality({id} \cap abandoned) = 1

\* Once the audit file is closed nothing is left that would write to it or
\* that a stopped daemon would keep running on the phone.
StoppedIsQuiet == stop = "stopped" => WorkersIdle /\ pool = <<>> /\ \A k \in Keys : jobs[k] = "free"

\* "One long job never delays another rule": with fewer long-lived jobs than
\* workers every submitted firing gets a worker, because a second job of the
\* same device and action is skipped instead of waiting on a worker.
PoolNeverStarves == pool # <<>> ~> pool = <<>>

LeftQueued(d) == \E i \in DOMAIN queue : queue[i] # Stop /\ queue[i].type = "device.disconnected" /\ queue[i].device = d

\* "device.disconnected for the job's device cancels its running jobs": once
\* the event is queued, each job of the device is cancelled or ends.
DisconnectCancels == \A k \in Keys :
  LeftQueued(k[1]) /\ jobs[k] = "running" ~> jobs[k] # "running" \/ stop # "running"

\* "Daemon stop: cancels every running job": while the stop waits for the
\* pool without a time limit, no job is left that nobody has cancelled.
CancelledAtStop == stop = "drain" => \A k \in Keys : jobs[k] # "running"

=============================================================================
