--------------------------- MODULE JobLifecycle ---------------------------
(***************************************************************************)
(* What the job layer promises: the state diagram that                     *)
(* docs/state-machines.md draws and the module comment of jobs.py states.  *)
(* A job is created running or skipped, moves along the diagram, and never *)
(* leaves a terminal state; at most one job holds a (device, action) key,  *)
(* and a terminal state of a job that ran is published to readers of the   *)
(* records only after the job has given its key back.                      *)
(* Jobs.tla implements this specification.                                 *)
(***************************************************************************)
EXTENDS Naturals

CONSTANTS Keys,      \* the (device, action) pairs a job runs for
          JobIds,    \* identities of the jobs
          NoJob,     \* marks a key that no job holds
          Retries    \* how many times a failed attempt may be retried

VARIABLES state,     \* state[j]: the state of job j, "none" before it exists
          attempt,   \* attempt[j]: which attempt job j is making
          holder,    \* holder[k]: the job that holds key k, or NoJob
          published  \* published[j]: the state a reader of the records sees

vars == <<state, attempt, holder, published>>

Terminal == {"completed", "failed", "cancelled", "skipped"}

Holding(j) == \E k \in Keys : holder[k] = j

Init ==
  /\ state = [j \in JobIds |-> "none"]
  /\ attempt = [j \in JobIds |-> 1]
  /\ holder = [k \in Keys |-> NoJob]
  /\ published = [j \in JobIds |-> "none"]

\* A free key starts a job at once: there is no queue and no queued state.
Start(j, k) ==
  /\ state[j] = "none"
  /\ holder[k] = NoJob
  /\ state' = [state EXCEPT ![j] = "running"]
  /\ holder' = [holder EXCEPT ![k] = j]
  /\ UNCHANGED <<attempt, published>>

\* A duplicate request is a job that is skipped; it may go unrecorded.
Skip(j, k) ==
  /\ state[j] = "none"
  /\ holder[k] # NoJob
  /\ state' = [state EXCEPT ![j] = "skipped"]
  /\ published' \in {published, [published EXCEPT ![j] = "skipped"]}
  /\ UNCHANGED <<attempt, holder>>

Retry(j) ==
  /\ Holding(j) /\ state[j] = "running"
  /\ attempt[j] <= Retries
  /\ state' = [state EXCEPT ![j] = "retrying"]
  /\ UNCHANGED <<attempt, holder, published>>

Resume(j) ==
  /\ Holding(j) /\ state[j] = "retrying"
  /\ state' = [state EXCEPT ![j] = "running"]
  /\ attempt' = [attempt EXCEPT ![j] = @ + 1]
  /\ UNCHANGED <<holder, published>>

End(j, s) ==
  /\ Holding(j) /\ state[j] \notin Terminal
  /\ s \in Terminal \ {"skipped"}
  /\ state' = [state EXCEPT ![j] = s]
  /\ UNCHANGED <<attempt, holder, published>>

Release(k) ==
  /\ holder[k] # NoJob
  /\ state[holder[k]] \in Terminal
  /\ holder' = [holder EXCEPT ![k] = NoJob]
  /\ UNCHANGED <<state, attempt, published>>

Publish(j) ==
  /\ state[j] # "none"
  /\ state[j] \in Terminal => ~Holding(j)
  /\ published' = [published EXCEPT ![j] = state[j]]
  /\ UNCHANGED <<state, attempt, holder>>

\* The process dies: every key is free, and the jobs that ran never move again.
Restart ==
  /\ holder' = [k \in Keys |-> NoJob]
  /\ UNCHANGED <<state, attempt, published>>

Next ==
  \/ \E j \in JobIds, k \in Keys : Start(j, k) \/ Skip(j, k)
  \/ \E j \in JobIds : Retry(j) \/ Resume(j) \/ Publish(j)
  \/ \E j \in JobIds, s \in Terminal : End(j, s)
  \/ \E k \in Keys : Release(k)
  \/ Restart

Spec == Init /\ [][Next]_vars
=============================================================================
