------------------------------- MODULE Jobs -------------------------------
(***************************************************************************)
(* JobRunner of src/linkplane/jobs.py: the calls of run() that several     *)
(* threads have in flight at once, the three bookkeeping maps behind one   *)
(* lock, the record files, and the cancellations that other threads send.  *)
(*                                                                         *)
(* A CancellationToken is made by each call of run() together with the     *)
(* job's id, so the token of job j is identified with j.  _running and     *)
(* _running_ids, which map the same keys to the token and to the id, are   *)
(* then one function `running`; _by_id is the set `byId`.  The reason text *)
(* of a cancellation, timestamps, progress, results and messages are left  *)
(* out; a progress update rewrites the file of a job with the same state,  *)
(* and one that cannot be written raises inside the call (CallRaises).     *)
(***************************************************************************)
EXTENDS Naturals, FiniteSets

CONSTANTS
  Workers,       \* threads that call run(): the firing pool, the API executor
  Cancellers,    \* threads that cancel: rule thread, main thread, API handlers
  Devices, Actions,
  Retries,       \* Len(retry_delays): 3 in the code
  MaxJobs,       \* bound on the number of jobs the runner is asked to make
  MaxCrashes,    \* bound on the number of times the process dies
  FailingSaves   \* the writes of a record file that may fail (a full disk)

SavePoints == {"skip", "start", "retry", "resume", "final"}

ASSUME JobsAssumption ==
  /\ Retries \in Nat /\ MaxJobs \in Nat /\ MaxCrashes \in Nat
  /\ FailingSaves \subseteq SavePoints

Keys == Devices \X Actions
JobIds == 1 .. MaxJobs
NoJob == 0
NoKey == <<>>
Idle == "idle"

Terminal == {"completed", "failed", "cancelled", "skipped"}
States == Terminal \union {"running", "retrying"}
Codes == {"cancelled", "transport_unavailable", "other"}
Retryable == {"transport_unavailable"}

VARIABLES
  counter,    \* _counter: the number of ids handed out
  running,    \* running[k]: the job registered under key k, or NoJob
  byId,       \* the ids a cancellation by id finds
  cancelled,  \* the jobs whose token is set
  stopped,    \* history: those of them whose thread was then between a call and the
              \* end of the wait that may follow it
  rec,        \* rec[j]: the record of job j as the thread that runs it has it
  disk,       \* disk[j]: the state the record file shows, "none" if no file
  pc,         \* pc[w]: where thread w is in run()
  work,       \* work[w]: the job thread w runs
  toCancel,   \* toCancel[c]: the tokens a canceller has snapshotted, not yet set
  crashes     \* how often the process died

vars == <<counter, running, byId, cancelled, stopped, rec, disk, pc, work, toCancel, crashes>>
workVars == <<pc, work>>
lockVars == <<running, byId>>
tokenVars == <<cancelled, stopped>>

Unused == [key |-> NoKey, state |-> "none", attempt |-> 1]

Init ==
  /\ counter = 0
  /\ running = [k \in Keys |-> NoJob]
  /\ byId = {}
  /\ cancelled = {}
  /\ stopped = {}
  /\ rec = [j \in JobIds |-> Unused]
  /\ disk = [j \in JobIds |-> "none"]
  /\ pc = [w \in Workers |-> Idle]
  /\ work = [w \in Workers |-> NoJob]
  /\ toCancel = [c \in Cancellers |-> {}]
  /\ crashes = 0

(***************************************************************************)
(* Helpers                                                                 *)
(***************************************************************************)
Goto(w, from, to) ==
  /\ pc[w] = from
  /\ pc' = [pc EXCEPT ![w] = to]

\* replace(record, state=..., attempt=...)
SetRecord(j, s, n) == rec' = [rec EXCEPT ![j] = [key |-> @.key, state |-> s, attempt |-> n]]

\* _save() reached the file / raised before os.replace.
Saved(j) == disk' = [disk EXCEPT ![j] = rec[j].state]
SaveFails(point) == point \in FailingSaves /\ UNCHANGED disk

(***************************************************************************)
(* run(), one action per stretch between two points another thread can see *)
(***************************************************************************)

KeyFree_Unchecked(k) == k \in Keys  \* mutant: the check under the lock is gone
KeyFree(k) == running[k] = NoJob

NewId == counter + 1

\* The key is free: token, id and record are registered under the lock.
Enter(w, k) ==
  /\ Goto(w, Idle, "start")
  /\ counter < MaxJobs
  /\ KeyFree(k)
  /\ counter' = NewId
  /\ running' = [running EXCEPT ![k] = counter']
  /\ byId' = byId \union {counter'}
  /\ rec' = [rec EXCEPT ![counter'] = [key |-> k, state |-> "running", attempt |-> 1]]
  /\ work' = [work EXCEPT ![w] = counter']
  /\ UNCHANGED <<tokenVars, disk, toCancel, crashes>>

\* The key is taken: a skipped record is written while the lock is held.
Skip(w, k) ==
  /\ pc[w] = Idle
  /\ counter < MaxJobs
  /\ ~KeyFree(k)
  /\ counter' = NewId
  /\ rec' = [rec EXCEPT ![counter'] = [key |-> k, state |-> "skipped", attempt |-> 1]]
  /\ \/ disk' = [disk EXCEPT ![counter'] = "skipped"]
     \/ SaveFails("skip")
  /\ UNCHANGED <<lockVars, tokenVars, workVars, toCancel, crashes>>

\* The first _transition and on_started, outside the lock and outside the try.
Started(w) ==
  /\ Goto(w, "start", "call")
  /\ Saved(work[w])
  /\ UNCHANGED <<counter, lockVars, tokenVars, rec, work, toCancel, crashes>>

\* The first save raises: the exception leaves run() past its finally clause.
StartFails(w) ==
  /\ Goto(w, "start", Idle)
  /\ SaveFails("start")
  /\ work' = [work EXCEPT ![w] = NoJob]
  /\ UNCHANGED <<counter, lockVars, tokenVars, rec, toCancel, crashes>>

CallSucceeds_SavesInside(w) ==  \* mutant: the terminal record is saved before the pop
  /\ Goto(w, "call", "pop")
  /\ SetRecord(work[w], "completed", rec[work[w]].attempt)
  /\ disk' = [disk EXCEPT ![work[w]] = "completed"]
  /\ UNCHANGED <<counter, lockVars, tokenVars, work, toCancel, crashes>>
\* The service call returned ok: completed, whatever the token says.
CallSucceeds(w) ==
  /\ Goto(w, "call", "pop")
  /\ SetRecord(work[w], "completed", rec[work[w]].attempt)
  /\ UNCHANGED <<counter, lockVars, tokenVars, disk, work, toCancel, crashes>>

Stopped(j, code) == code = "cancelled" \/ j \in cancelled

RetriesLeft_OneMore(n) == n <= Retries + 1  \* mutant: off by one
RetriesLeft(n) == n <= Retries

\* The service call returned an error with a code: the token is asked once.
CallErrs(w, code) ==
  LET j == work[w]
      n == rec[j].attempt
      again == code \in Retryable /\ RetriesLeft(n)
  IN \/ /\ Goto(w, "call", "pop")
        /\ Stopped(j, code)
        /\ SetRecord(j, "cancelled", n)
        /\ UNCHANGED <<counter, lockVars, tokenVars, disk, work, toCancel, crashes>>
     \/ /\ Goto(w, "call", "pop")
        /\ ~Stopped(j, code) /\ ~again
        /\ SetRecord(j, "failed", n)
        /\ UNCHANGED <<counter, lockVars, tokenVars, disk, work, toCancel, crashes>>
     \/ /\ Goto(w, "call", "backoff")
        /\ ~Stopped(j, code) /\ again
        /\ UNCHANGED <<counter, lockVars, tokenVars, rec, disk, work, toCancel, crashes>>

\* The attempt is to be retried, whatever happens to the token from here on.
Backoff(w) ==
  /\ Goto(w, "backoff", "retry")
  /\ SetRecord(work[w], "retrying", rec[work[w]].attempt)
  /\ UNCHANGED <<counter, lockVars, tokenVars, disk, work, toCancel, crashes>>

Raises_Unpopped(w, from) ==  \* mutant: the exception path misses the finally clause
  /\ Goto(w, from, "final")
  /\ SetRecord(work[w], "failed", rec[work[w]].attempt)
  /\ UNCHANGED <<counter, lockVars, tokenVars, work, toCancel, crashes>>
\* except Exception: the record fails and keeps the attempt it showed last.
Raises(w, from) ==
  /\ Goto(w, from, "pop")
  /\ SetRecord(work[w], "failed", rec[work[w]].attempt)
  /\ UNCHANGED <<counter, lockVars, tokenVars, work, toCancel, crashes>>

CallRaises(w) == Raises(w, "call") /\ UNCHANGED disk

RetrySaved(w) ==
  /\ Goto(w, "retry", "wait")
  /\ Saved(work[w])
  /\ UNCHANGED <<counter, lockVars, tokenVars, rec, work, toCancel, crashes>>

RetryFails(w) == Raises(w, "retry") /\ SaveFails("retry")

WaitEnds_Deaf(w) ==  \* mutant: the wait is a plain sleep
  /\ Goto(w, "wait", "resume")
  /\ SetRecord(work[w], "running", rec[work[w]].attempt + 1)
  /\ UNCHANGED <<counter, lockVars, tokenVars, disk, work, toCancel, crashes>>
\* _wait(): the delay is over or the token is set, and the token decides.
WaitEnds(w) ==
  LET j == work[w] IN
  /\ \/ /\ Goto(w, "wait", "pop")
        /\ j \in cancelled
        /\ SetRecord(j, "cancelled", rec[j].attempt)
     \/ /\ Goto(w, "wait", "resume")
        /\ j \notin cancelled
        /\ SetRecord(j, "running", rec[j].attempt + 1)
  /\ UNCHANGED <<counter, lockVars, tokenVars, disk, work, toCancel, crashes>>

ResumeSaved(w) ==
  /\ Goto(w, "resume", "call")
  /\ Saved(work[w])
  /\ UNCHANGED <<counter, lockVars, tokenVars, rec, work, toCancel, crashes>>

ResumeFails(w) == Raises(w, "resume") /\ SaveFails("resume")

Pop_KeepsId(w) ==  \* mutant: _by_id is not cleaned up
  /\ Goto(w, "pop", "final")
  /\ running' = [running EXCEPT ![rec[work[w]].key] = NoJob]
  /\ UNCHANGED <<counter, byId, tokenVars, rec, disk, work, toCancel, crashes>>
\* finally: the job leaves the maps before its terminal record is saved.
Pop(w) ==
  /\ Goto(w, "pop", "final")
  /\ running' = [running EXCEPT ![rec[work[w]].key] = NoJob]
  /\ byId' = byId \ {work[w]}
  /\ UNCHANGED <<counter, tokenVars, rec, disk, work, toCancel, crashes>>

Final(w) ==
  /\ Goto(w, "final", Idle)
  /\ \/ Saved(work[w])
     \/ SaveFails("final")
  /\ work' = [work EXCEPT ![w] = NoJob]
  /\ UNCHANGED <<counter, lockVars, tokenVars, rec, toCancel, crashes>>

(***************************************************************************)
(* Cancellation, from any thread                                           *)
(***************************************************************************)
Snapshot(c, tokens) ==
  /\ toCancel[c] = {}
  /\ toCancel' = [toCancel EXCEPT ![c] = tokens]
  /\ UNCHANGED <<counter, lockVars, tokenVars, rec, disk, workVars, crashes>>

CancelDevice(c, d) ==
  Snapshot(c, {running[k] : k \in {x \in Keys : x[1] = d /\ running[x] # NoJob}})

CancelAll(c) == Snapshot(c, {running[k] : k \in {x \in Keys : running[x] # NoJob}})

CancelId(c, j) == j \in byId /\ Snapshot(c, {j})

\* The jobs with an attempt under way, or failed and not given up: another one
\* can still be prevented.
Between == {work[w] : w \in {v \in Workers : pc[v] \in {"call", "backoff", "retry", "wait"}}}

\* token.cancel() of one snapshotted token, after the lock is released.
CancelToken(c) == \E j \in toCancel[c] :
  /\ cancelled' = cancelled \union {j}
  /\ stopped' = IF j \in Between THEN stopped \union {j} ELSE stopped
  /\ toCancel' = [toCancel EXCEPT ![c] = @ \ {j}]
  /\ UNCHANGED <<counter, lockVars, rec, disk, workVars, crashes>>

(***************************************************************************)
(* The process dies and a new daemon makes a new JobRunner.  Ids carry the *)
(* time, so those of the new runner are new; the record files stay.        *)
(***************************************************************************)
Crash ==
  /\ crashes < MaxCrashes
  /\ crashes' = crashes + 1
  /\ running' = [k \in Keys |-> NoJob]
  /\ byId' = {}
  /\ pc' = [w \in Workers |-> Idle]
  /\ work' = [w \in Workers |-> NoJob]
  /\ toCancel' = [c \in Cancellers |-> {}]
  /\ UNCHANGED <<counter, tokenVars, rec, disk>>

CallStep(w) == CallSucceeds(w) \/ CallRaises(w) \/ \E code \in Codes : CallErrs(w, code)

\* The steps run() takes by itself, whatever the service does.
RunStep(w) ==
  \/ Started(w) \/ StartFails(w)
  \/ Backoff(w) \/ RetrySaved(w) \/ RetryFails(w)
  \/ WaitEnds(w)
  \/ ResumeSaved(w) \/ ResumeFails(w)
  \/ Pop(w) \/ Final(w)

CancelStep(c) ==
  \/ \E d \in Devices : CancelDevice(c, d)
  \/ \E j \in JobIds : CancelId(c, j)
  \/ CancelAll(c)
  \/ CancelToken(c)

Next ==
  \/ \E w \in Workers, k \in Keys : Enter(w, k) \/ Skip(w, k)
  \/ \E w \in Workers : CallStep(w) \/ RunStep(w)
  \/ \E c \in Cancellers : CancelStep(c)
  \/ Crash

Spec == Init /\ [][Next]_vars

(***************************************************************************)
(* Threads run, delays end, and a service whose token is set returns at    *)
(* its next boundary (operations.py).  A call that nobody cancelled may    *)
(* run for ever: use_clipboard does, by design.                            *)
(***************************************************************************)
CancelledCall(w) == work[w] \in cancelled /\ CallStep(w)

Fairness ==
  /\ \A w \in Workers : WF_vars(RunStep(w)) /\ WF_vars(CancelledCall(w))
  /\ \A c \in Cancellers : WF_vars(CancelToken(c))

FairSpec == Spec /\ Fairness

(***************************************************************************)
(* Properties                                                              *)
(***************************************************************************)
Record == [key : Keys \union {NoKey}, state : States \union {"none"}, attempt : 1 .. (Retries + 1)]

\* Type correctness of the runner's bookkeeping, the records and the threads.
TypeOK ==
  /\ counter \in 0 .. MaxJobs
  /\ running \in [Keys -> JobIds \union {NoJob}]
  /\ byId \subseteq JobIds
  /\ cancelled \subseteq JobIds
  /\ stopped \subseteq cancelled
  /\ rec \in [JobIds -> Record]
  /\ disk \in [JobIds -> States \union {"none"}]
  /\ pc \in [Workers -> {Idle, "start", "call", "backoff", "retry", "wait", "resume", "pop", "final"}]
  /\ work \in [Workers -> JobIds \union {NoJob}]
  /\ toCancel \in [Cancellers -> SUBSET JobIds]
  /\ crashes \in 0 .. MaxCrashes

\* Between registration and removal a thread owns the key of its job.
Owning(w) == pc[w] \in {"start", "call", "backoff", "retry", "wait", "resume", "pop"}

KeyOf(w) == rec[work[w]].key

\* "One running job per (device, action)": two threads never run the service
\* for the same device and action at once (run(), the check under the lock).
OneJobPerKey ==
  \A v, w \in Workers : v # w /\ Owning(v) /\ Owning(w) => KeyOf(v) # KeyOf(w)

HasThread(k) == \E w \in Workers : Owning(w) /\ work[w] = running[k]

\* No registered job without a thread that runs it: "the running-set entry is
\* removed in every exit path, including an exception" (docs/state-machines.md).
\* A leaked entry turns every later request for the key into `skipped`.
NoLeakedEntry == \A k \in Keys : running[k] # NoJob => HasThread(k)

\* The one way out of run() that leaves its entry is a first write that fails:
\* whatever else raises, a registered job without a thread has no record.
OnlyUnsavedLeaks ==
  \A k \in Keys : running[k] # NoJob => HasThread(k) \/ disk[running[k]] = "none"

\* A reader of the record files that sees a job ended may start it again: its
\* key is already free (the finally clause pops before it saves), and the job
\* can no longer be cancelled by id.
EndedMeansFree ==
  \A j \in JobIds : disk[j] \in Terminal =>
    /\ j \notin byId
    /\ \A k \in Keys : running[k] # j

\* The attempt under way when a job is cancelled is its last: wherever the
\* cancel falls (in the call, between the check of the token and the record of
\* the retry, in its save, in the wait) the service is not called again for it.
\* A cancel that comes after the wait finds one more attempt starting.
NoAttemptAfterCancel ==
  [][\A w \in Workers : pc[w] # "call" /\ pc'[w] = "call" => work[w] \notin stopped]_vars

\* Whoever cancels a device, an id or everything ends the jobs it found: each
\* that got as far as a record leaves the maps, whether it was calling the
\* service, waiting out a delay or between two saves (cancel_device,
\* cancel_all, cancel and the loop of run()).
CancelEndsJob == \A j \in JobIds :
  j \in cancelled /\ j \in byId /\ disk[j] # "none" ~> j \notin byId

Lifecycle == INSTANCE JobLifecycle WITH
  state <- [j \in JobIds |-> rec[j].state],
  attempt <- [j \in JobIds |-> rec[j].attempt],
  holder <- running,
  published <- disk

\* The runner implements the documented life cycle of a job.
ImplementsLifecycle == Lifecycle!Spec
=============================================================================
