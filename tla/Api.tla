-------------------------------- MODULE Api --------------------------------
(***************************************************************************)
(* The local HTTP API: from a request's bytes to its answer                *)
(* (src/linkplane/api/server.py, security.py, actions.py, execute.py), on  *)
(* top of the job layer, of which it sees what JobLifecycle promises (and  *)
(* Jobs implements).  Each request has a handler thread; the jobs of       *)
(* action requests are started by the workers of a pool of their own.      *)
(*                                                                         *)
(* A request asks for an action on a device or cancels a job.  Its faults  *)
(* are what is wrong with it; of several, the first in the order of the    *)
(* checks decides.  A job is named by the request that asked for it, or is *)
(* a job of a rule.  Record files can be written; the runner's other       *)
(* failures are in Jobs.                                                   *)
(***************************************************************************)
EXTENDS Providers, SequencesExt

CONSTANTS
  Asks,      \* the requests
  RuleJobs,  \* jobs that rules start
  Plans,     \* a set of records: asks, what the requests made ask; rules, the jobs <<j, k>>
             \* rules may start; wires, what may be seen when a provider is selected
  Pool,      \* max_jobs: workers of the action pool
  Keys, NoJob, Retries

VARIABLES
  state, attempt, holder, published,  \* the job layer, as in JobLifecycle
  plan,    \* the requests and their surroundings, never changed
  at,      \* at[r]: where its handler is: new, ready, run, wait, token, done
  reply,   \* reply[r]: the status of the answer, 0 before there is one
  named,   \* named[r]: the job a 409 names, or NoJob
  audit,   \* audit[r]: the decisions written to the audit log for it
  via,     \* via[r]: the provider selected for it
  reached, \* reached[r]: the phone or endpoint the action has run on
  queue,   \* the jobs submitted that no worker has taken
  shown,   \* shown[r]: the state on_started was given, "none" before
  tokens,  \* the jobs whose cancellation token is set
  closed   \* the runtime has been closed

jobVars == <<state, attempt, holder, published>>
askVars == <<plan, at, reply, named, audit, via, reached>>
vars == <<jobVars, askVars, queue, shown, tokens, closed>>

JobIds == Asks \union RuleJobs
Job == INSTANCE JobLifecycle

Specs == [a \in {"device.ping", "notify.post", "device.find", "clipboard.read", "backup.photos", "clipboard.sync"} |->
  [over |-> IF a \in {"device.ping", "notify.post"} THEN {"adb", "ssh"}
            ELSE IF a \in {"device.find", "backup.photos"} THEN {"adb"} ELSE {"ssh"},
   job |-> a \in {"backup.photos", "clipboard.sync"}]]

\* A request that is made asks one thing; a phone's serial is not the word for no phone.
ASSUME ApiAssumption ==
  /\ Asks \cap RuleJobs = {}
  /\ \A p \in Plans :
       /\ DOMAIN p.asks \subseteq Asks
       /\ \A r \in DOMAIN p.asks :
            \/ p.asks[r].kind = "cancel"
            \/ /\ p.asks[r].kind = "action" /\ p.asks[r].action \in DOMAIN Specs
               /\ p.asks[r].target.serial # "none"
       /\ \A job \in p.rules : job[1] \in RuleJobs

Made == DOMAIN plan.asks
Asked(r) == plan.asks[r]
IsJob(r) == Asked(r).kind = "action" /\ Specs[Asked(r).action].job
KeyOf(r) == Asked(r).action  \* one device: the key of a job is its action

Nothing == [ok |-> FALSE]

Init ==
  /\ Job!Init
  /\ plan \in Plans
  /\ at = [r \in Asks |-> "new"]
  /\ reply = [r \in Asks |-> 0]
  /\ named = [r \in Asks |-> NoJob]
  /\ audit = [r \in Asks |-> <<>>]
  /\ via = [r \in Asks |-> Nothing]
  /\ reached = [r \in Asks |-> "none"]
  /\ queue = <<>>
  /\ shown = [r \in Asks |-> "none"]
  /\ tokens = {}
  /\ closed = FALSE

(***************************************************************************)
(* The checks, in order, each with the status it answers                   *)
(***************************************************************************)
HeaderChecks == << <<"host", 403>>, <<"origin", 403>>, <<"options", 401>>, <<"token_in_url", 400>>,
                   <<"no_token", 401>>, <<"unknown_token", 401>>, <<"no_route", 404>>, <<"method", 405>>,
                   <<"route_scope", 403>>, <<"too_large", 413>>, <<"not_json_type", 415>>, <<"not_json", 400>> >>
ActionChecks == << <<"no_action", 400>>, <<"correlation_id", 400>>, <<"unknown_field", 400>>,
                   <<"not_implemented", 501>>, <<"unknown_action", 400>>, <<"action_scope", 403>>,
                   <<"broken_config", 500>>, <<"no_such_device", 404>>, <<"bad_parameters", 400>> >>
CancelChecks == << <<"has_body", 400>> >>

Checks(r) == HeaderChecks \o (IF Asked(r).kind = "action" THEN ActionChecks ELSE CancelChecks)
Failing(r) == {i \in DOMAIN Checks(r) : Checks(r)[i][1] \in Asked(r).faults}
Scopes == {"route_scope", "action_scope"}  \* the refusals that are audited

Goto(r, to) == at' = [at EXCEPT ![r] = to]
Reply(r, status) == reply' = [reply EXCEPT ![r] = status]
Write(r, decision) == audit' = [audit EXCEPT ![r] = Append(@, decision)]
Answer(r, status, decision) == Goto(r, "done") /\ Reply(r, status) /\ Write(r, decision)
AnswerUnwritten(r, status) == Goto(r, "done") /\ Reply(r, status) /\ UNCHANGED audit

\* _dispatch, then what post_action or cancel_job checks before it does anything.
Check(r) ==
  /\ at[r] = "new"
  /\ \/ /\ Failing(r) = {}
        /\ Goto(r, "ready") /\ UNCHANGED <<reply, audit>>
     \/ /\ Failing(r) # {}
        /\ LET check == Checks(r)[Min(Failing(r))] IN
             \/ check[1] \in Scopes /\ Answer(r, check[2], "blocked")
             \/ check[1] \notin Scopes /\ AnswerUnwritten(r, check[2])
  /\ UNCHANGED <<jobVars, plan, named, via, reached, queue, shown, tokens, closed>>

StatusOf(code) ==
  CASE code \in {"capability_unsupported", "capability_unavailable", "ambiguous"} -> 409
    [] code = "failed" -> 502
    [] code = "config_missing" -> 500
    [] OTHER -> 503

(***************************************************************************)
(* ActionRuntime                                                           *)
(***************************************************************************)
\* execute: select, check_capability; an immediate action writes its request.
Execute(r) == \E wire \in plan.wires :
  LET spec == Specs[Asked(r).action]
      provider == SelectFor(Asked(r).target, spec, wire)
      status == IF provider.ok THEN Report(wire, provider, Asked(r).action) ELSE "none"
  IN /\ at[r] = "ready" /\ Asked(r).kind = "action"
     /\ \/ ~provider.ok /\ Answer(r, StatusOf(provider.code), "failed") /\ UNCHANGED via
        \/ /\ provider.ok /\ status # "supported"
           /\ Answer(r, StatusOf(CapabilityRefusal(status)), "blocked") /\ UNCHANGED via
        \/ /\ provider.ok /\ status = "supported"
           /\ via' = [via EXCEPT ![r] = provider]
           /\ \/ spec.job /\ Goto(r, "submit") /\ UNCHANGED <<reply, audit>>
              \/ ~spec.job /\ Goto(r, "run") /\ Write(r, "started") /\ UNCHANGED reply
     /\ UNCHANGED <<jobVars, plan, named, reached, queue, shown, tokens, closed>>

Endpoint(r) == IF via[r].provider = "adb" THEN via[r].serial ELSE "ssh"

\* _run_immediate: the service runs on the handler's thread.  Of the statuses of
\* its failures two stand for all.
RunImmediate(r) ==
  /\ at[r] = "run"
  /\ reached' = [reached EXCEPT ![r] = Endpoint(r)]
  /\ \/ Answer(r, 200, "completed")
     \/ \E status \in {409, 502} : Answer(r, status, "failed")
  /\ UNCHANGED <<jobVars, plan, named, via, queue, shown, tokens, closed>>

\* _start_job submits; a pool that is shut down raises.
Submit(r) ==
  /\ at[r] = "submit"
  /\ \/ ~closed /\ queue' = Append(queue, r) /\ Goto(r, "wait") /\ UNCHANGED <<reply, audit>>
     \/ closed /\ AnswerUnwritten(r, 500) /\ UNCHANGED queue
  /\ UNCHANGED <<jobVars, plan, named, via, reached, shown, tokens, closed>>

Skipped_NotHolder(r) == holder[KeyOf(r)] # r  \* mutant: asks the runner, which may have finished the job
Skipped(r) == shown[r] = "skipped"

StartedAudit_Early(r) == "started"  \* mutant: the request is written before its outcome is known
StartedAudit(r) == IF Skipped(r) THEN "blocked" ELSE "started"

\* on_started was called in time: the record says started, or a duplicate.
SeeStarted(r) ==
  /\ at[r] = "wait" /\ shown[r] # "none"
  /\ \/ Skipped(r) /\ Answer(r, 409, StartedAudit(r)) /\ named' = [named EXCEPT ![r] = holder[KeyOf(r)]]
     \/ ~Skipped(r) /\ Answer(r, 202, StartedAudit(r)) /\ UNCHANGED named
  /\ UNCHANGED <<jobVars, plan, via, reached, queue, shown, tokens, closed>>

\* It was not called within JOB_START_TIMEOUT: an error, and nothing is taken back.
GivesUp_Never(r) == FALSE  \* mutant: the wait has no timeout
GivesUp(r) == at[r] = "wait" /\ shown[r] = "none"
StopWaiting(r) ==
  /\ GivesUp(r)
  /\ AnswerUnwritten(r, 500)
  /\ UNCHANGED <<jobVars, plan, named, via, reached, queue, shown, tokens, closed>>

\* runtime.close: the jobs no worker has taken are dropped.
Close ==
  /\ ~closed
  /\ closed' = TRUE
  /\ queue' = <<>>
  /\ UNCHANGED <<jobVars, askVars, shown, tokens>>

(***************************************************************************)
(* cancel_job                                                              *)
(***************************************************************************)
Target(r) == Asked(r).job

\* The record is read from its file, and decides unless it says the job runs.
CancelRead(r) ==
  /\ at[r] = "ready" /\ Asked(r).kind = "cancel"
  /\ LET seen == published[Target(r)] IN
       \/ seen = "none" /\ AnswerUnwritten(r, 404)
       \/ seen = "cancelled" /\ Answer(r, 200, "skipped")
       \/ seen \in Job!Terminal \ {"cancelled"} /\ Answer(r, 409, "blocked")
       \/ seen \in {"running", "retrying"} /\ Goto(r, "token") /\ UNCHANGED <<reply, audit>>
  /\ UNCHANGED <<jobVars, plan, named, via, reached, queue, shown, tokens, closed>>

\* jobs.cancel: the token is found while the job has its key.
CancelToken(r) ==
  /\ at[r] = "token"
  /\ \/ /\ Job!Holding(Target(r))
        /\ tokens' = tokens \union {Target(r)}
        /\ Answer(r, 202, "started")
     \/ ~Job!Holding(Target(r)) /\ Answer(r, 409, "blocked") /\ UNCHANGED tokens
  /\ UNCHANGED <<jobVars, plan, named, via, reached, queue, shown, closed>>

\* A rule, a lost device or the daemon's stop cancels it.
CancelElsewhere == \E j \in JobIds \ tokens :
  /\ Job!Holding(j)
  /\ tokens' = tokens \union {j}
  /\ UNCHANGED <<jobVars, askVars, queue, shown, closed>>

(***************************************************************************)
(* The runner's threads                                                    *)
(***************************************************************************)
JobOnly == UNCHANGED <<askVars, queue, shown, tokens, closed>>

\* A worker of the pool takes the next job; one at a time for each worker.
Busy == Cardinality({r \in Made : Job!Holding(r)})
WorkerTakes ==
  /\ queue # <<>> /\ Busy < Pool
  /\ LET r == Head(queue) IN
       /\ Job!Start(r, KeyOf(r)) \/ Job!Skip(r, KeyOf(r))
       /\ reached' = [reached EXCEPT ![r] = IF state'[r] = "skipped" THEN @ ELSE Endpoint(r)]
  /\ queue' = Tail(queue)
  /\ UNCHANGED <<plan, at, reply, named, audit, via, shown, tokens, closed>>

RuleStarts == \E job \in plan.rules : Job!Start(job[1], job[2]) /\ JobOnly

\* on_started, after the record was written.
OnStarted(r) ==
  /\ shown[r] = "none" /\ state[r] # "none" /\ published[r] # "none"
  /\ shown' = [shown EXCEPT ![r] = IF state[r] = "skipped" THEN "skipped" ELSE "running"]
  /\ UNCHANGED <<jobVars, askVars, queue, tokens, closed>>

\* A job of a request is past on_started before its service is called.
Called(j) == j \in Asks => shown[j] # "none"

Works(j) ==
  \/ Called(j) /\ j \notin tokens /\ (Job!Retry(j) \/ Job!Resume(j))
  \/ Called(j) /\ \E s \in {"completed", "failed"} : state[j] = "running" /\ Job!End(j, s)
  \/ Called(j) /\ j \in tokens /\ Job!End(j, "cancelled")
  \/ published[j] # state[j] /\ Job!Publish(j)

JobStep ==
  \/ \E j \in JobIds : Works(j) /\ JobOnly
  \/ \E k \in Keys : Job!Release(k) /\ JobOnly

Handler(r) == Check(r) \/ Execute(r) \/ RunImmediate(r) \/ Submit(r) \/ SeeStarted(r)
              \/ StopWaiting(r) \/ CancelRead(r) \/ CancelToken(r)

Next ==
  \/ \E r \in Made : Handler(r) \/ OnStarted(r)
  \/ WorkerTakes \/ RuleStarts \/ JobStep \/ CancelElsewhere \/ Close

\* A handler is a thread whose waits are all bounded: the services' subprocesses
\* have timeouts, and the wait for a job's start has one.
Spec == Init /\ [][Next]_vars /\ \A r \in Asks : WF_vars(r \in Made /\ at[r] # "new" /\ Handler(r))

(***************************************************************************)
(* Properties                                                              *)
(***************************************************************************)
Ran(r) == reached[r] # "none"
Done(r) == at[r] = "done"

\* An answer that refuses a request means that the request does nothing, now or
\* later; the exception is "the job did not start in time" (_start_job), which takes
\* nothing back.
RefusedRunsNothing == \A r \in Asks : Done(r) /\ reply[r] \in 400 .. 499 =>
  IF IsJob(r) THEN ~Ran(r) ELSE Ran(r) => Last(audit[r]) = "failed"

\* The audit log says of every action what became of it: started means that it ran,
\* completed and a job's started are the two ways to succeed, and a request that
\* succeeded or ran on this thread is in it (docs/local-api-design.md).
AuditTellsOutcome == \A r \in Asks : Done(r) /\ Asked(r).kind = "action" =>
  /\ "started" \in ToSet(audit[r]) => Ran(r)
  /\ reply[r] = 202 <=> audit[r] = <<"started">>
  /\ reply[r] = 200 <=> audit[r] = <<"started", "completed">>
  /\ Ran(r) => audit[r] # <<>> \/ reply[r] = 500

\* An action runs on the device it was asked for, over its serial or its SSH
\* endpoint, whatever else is plugged in ("never resolved through adb_factory(None)").
RightPhone == \A r \in Asks : Ran(r) =>
  \/ reached[r] = Asked(r).target.serial
  \/ reached[r] = "ssh" /\ Asked(r).target.ssh

\* Every request a handler has taken up is answered, also when the pool is full or
\* has been closed.
EveryRequestAnswered == \A r \in Asks : (at[r] # "new") ~> Done(r)

\* "202: accepted, the job will reach `cancelled` at its next boundary" (cancel_job,
\* docs/local-api-design.md): a job whose cancellation was accepted does not end
\* otherwise.  The code does not keep this.
AcceptedIsCancelled == \A r \in Asks :
  Done(r) /\ Asked(r).kind = "cancel" /\ reply[r] = 202 =>
    state[Target(r)] \notin {"completed", "failed"}
=============================================================================
