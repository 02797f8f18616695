---------------------------- MODULE JobsProofs ----------------------------
(***************************************************************************)
(* Proofs about Jobs for every set of threads, devices and actions, every  *)
(* number of retries, jobs and crashes, and every choice of failing saves. *)
(*                                                                         *)
(* The argument: ids are fresh (nothing refers to an id above the          *)
(* counter), a key in `running` is the key of the job registered there, a  *)
(* thread between Enter and Pop finds its own job under its key, and a     *)
(* thread past Pop has left no trace in the maps.                          *)
(***************************************************************************)
EXTENDS Jobs, TLAPS

Live == {"running", "retrying"}
Calling == {"start", "call", "backoff", "resume"}
Backing == {"retry", "wait"}
Leaving == {"pop", "final"}

\* Nothing refers to an id that was not handed out.
Fresh ==
  /\ \A w \in Workers : work[w] <= counter
  /\ \A k \in Keys : running[k] <= counter
  /\ \A j \in byId : j <= counter
  /\ \A j \in JobIds : j > counter => disk[j] = "none"

\* What a thread holds, and what its record shows, at each place of run().
ThreadsOK ==
  \A w \in Workers :
    /\ (pc[w] = Idle) <=> (work[w] = NoJob)
    /\ pc[w] # Idle => rec[work[w]].key \in Keys
    /\ pc[w] \in Calling => rec[work[w]].state = "running"
    /\ pc[w] = "backoff" => rec[work[w]].attempt <= Retries
    /\ pc[w] \in Backing => rec[work[w]].state = "retrying" /\ rec[work[w]].attempt <= Retries
    /\ pc[w] \in Leaving => rec[work[w]].state \in Terminal

DistinctJobs ==
  \A v, w \in Workers : v # w /\ work[v] = work[w] => work[v] = NoJob

Registered == \A w \in Workers : Owning(w) => running[KeyOf(w)] = work[w]

Gone ==
  \A w \in Workers : pc[w] = "final" =>
    /\ work[w] \notin byId
    /\ \A k \in Keys : running[k] # work[w]

KeysAgree == \A k \in Keys : running[k] # NoJob => rec[running[k]].key = k

IInv ==
  /\ TypeOK
  /\ Fresh
  /\ ThreadsOK
  /\ DistinctJobs
  /\ Registered
  /\ Gone
  /\ KeysAgree
  /\ EndedMeansFree

USE DEF NoJob, Idle

\* The initial state satisfies the inductive invariant.
LEMMA InitIInv == Init => IInv
<1> SUFFICES ASSUME Init PROVE IInv
  OBVIOUS
<1> USE JobsAssumption DEF Init, JobIds
<1>1. TypeOK
  BY DEF TypeOK, Record, Unused, NoKey, States, Terminal
<1>2. Fresh /\ ThreadsOK /\ DistinctJobs /\ Registered /\ Gone /\ KeysAgree
  BY DEF Fresh, ThreadsOK, DistinctJobs, Registered, Gone, KeysAgree, Owning, Calling, Backing, Leaving
<1>3. EndedMeansFree
  BY DEF EndedMeansFree, Terminal
<1> QED
  BY <1>1, <1>2, <1>3 DEF IInv

(***************************************************************************)
(* One lemma per action that moves a thread.                               *)
(***************************************************************************)

LEMMA EnterStep == ASSUME IInv, NEW w \in Workers, NEW k \in Keys, Enter(w, k) PROVE IInv'
<1> USE JobsAssumption DEF IInv, TypeOK, JobIds, Calling, Backing, Leaving, Enter, KeyFree, NewId, Goto, lockVars, tokenVars
<1>1. TypeOK'
  BY DEF Record, States, Terminal
<1>2. Fresh'
  <2>0. counter' = counter + 1 /\ counter \in Nat
    OBVIOUS
  <2>1. \A v \in Workers : work'[v] \in JobIds \union {NoJob} /\ work'[v] <= counter'
    BY <2>0 DEF Fresh
  <2>2. \A x \in Keys : running'[x] <= counter'
    BY <2>0 DEF Fresh
  <2>3. \A j \in byId' : j <= counter'
    BY <2>0 DEF Fresh
  <2>4. \A j \in JobIds : j > counter' => disk'[j] = "none"
    BY <2>0 DEF Fresh
  <2> QED
    BY <2>1, <2>2, <2>3, <2>4 DEF Fresh
<1>3. ThreadsOK'
  BY DEF Fresh, ThreadsOK, Record, States, Terminal, NoKey
<1>4. DistinctJobs'
  BY DEF Fresh, ThreadsOK, DistinctJobs
<1>5. Registered'
  BY DEF Fresh, ThreadsOK, DistinctJobs, Registered, KeysAgree, Owning, KeyOf, Record
<1>6. Gone'
  BY DEF Fresh, ThreadsOK, DistinctJobs, Registered, Gone, KeysAgree, Owning, KeyOf
<1>7. KeysAgree'
  BY DEF Fresh, ThreadsOK, KeysAgree, Record, Registered, Owning, KeyOf
<1>8. EndedMeansFree'
  BY DEF Fresh, ThreadsOK, DistinctJobs, Registered, Gone, EndedMeansFree, Owning, KeyOf, Terminal
<1> QED
  BY <1>1, <1>2, <1>3, <1>4, <1>5, <1>6, <1>7, <1>8 DEF IInv

LEMMA SkipStep == ASSUME IInv, NEW w \in Workers, NEW k \in Keys, Skip(w, k) PROVE IInv'
<1> USE JobsAssumption DEF IInv, TypeOK, JobIds, Calling, Backing, Leaving, Skip, KeyFree, NewId, SaveFails, lockVars, tokenVars, workVars
<1>1. TypeOK'
  <2>1. counter + 1 \in JobIds /\ counter' \in 0 .. MaxJobs
    OBVIOUS
  <2>2. [key |-> k, state |-> "skipped", attempt |-> 1] \in Record
    BY DEF Record, States, Terminal
  <2>3. rec' \in [JobIds -> Record]
    BY <2>1, <2>2
  <2>4. disk' \in [JobIds -> States \union {"none"}]
    BY <2>1 DEF States, Terminal
  <2> QED
    BY <2>1, <2>3, <2>4
<1>2. Fresh'
  <2>0. counter' = counter + 1 /\ counter \in Nat
    OBVIOUS
  <2>1. \A v \in Workers : work'[v] \in JobIds \union {NoJob} /\ work'[v] <= counter'
    BY <2>0 DEF Fresh
  <2>2. \A x \in Keys : running'[x] <= counter'
    BY <2>0 DEF Fresh
  <2>3. \A j \in byId' : j <= counter'
    BY <2>0 DEF Fresh
  <2>4. \A j \in JobIds : j > counter' => disk'[j] = "none"
    BY <2>0 DEF Fresh
  <2> QED
    BY <2>1, <2>2, <2>3, <2>4 DEF Fresh
<1>3. ThreadsOK'
  BY DEF Fresh, ThreadsOK, Record, States, Terminal, NoKey
<1>4. DistinctJobs'
  BY DEF Fresh, ThreadsOK, DistinctJobs
<1>5. Registered'
  BY DEF Fresh, ThreadsOK, DistinctJobs, Registered, KeysAgree, Owning, KeyOf, Record
<1>6. Gone'
  BY DEF Fresh, ThreadsOK, DistinctJobs, Registered, Gone, KeysAgree, Owning, KeyOf
<1>7. KeysAgree'
  BY DEF Fresh, ThreadsOK, KeysAgree, Record, Registered, Owning, KeyOf
<1>8. EndedMeansFree'
  BY DEF Fresh, ThreadsOK, DistinctJobs, Registered, Gone, EndedMeansFree, Owning, KeyOf, Terminal
<1> QED
  BY <1>1, <1>2, <1>3, <1>4, <1>5, <1>6, <1>7, <1>8 DEF IInv

\* A save that reaches the file, or does not, before the call is (re)started.
LEMMA SaveStep ==
  ASSUME IInv, NEW w \in Workers, NEW from, NEW to,
         <<from, to>> \in {<<"start", "call">>, <<"retry", "wait">>, <<"resume", "call">>},
         Goto(w, from, to), Saved(work[w]),
         UNCHANGED <<counter, lockVars, tokenVars, rec, work, toCancel, crashes>>
  PROVE IInv'
<1> USE JobsAssumption DEF IInv, TypeOK, JobIds, Calling, Backing, Leaving, Goto, Saved, lockVars, tokenVars
<1>0. work[w] \in JobIds /\ rec[work[w]].state \in {"running", "retrying"}
  BY DEF ThreadsOK
<1>1. TypeOK'
  BY <1>0 DEF Record, States, Terminal
<1>2. Fresh'
  BY <1>0 DEF Fresh
<1>3. ThreadsOK'
  BY <1>0 DEF Fresh, ThreadsOK, Record, States, Terminal, NoKey
<1>4. DistinctJobs'
  BY <1>0 DEF Fresh, ThreadsOK, DistinctJobs
<1>5. Registered'
  BY <1>0 DEF Fresh, ThreadsOK, DistinctJobs, Registered, KeysAgree, Owning, KeyOf, Record
<1>6. Gone'
  BY <1>0 DEF Fresh, ThreadsOK, DistinctJobs, Registered, Gone, KeysAgree, Owning, KeyOf
<1>7. KeysAgree'
  BY <1>0 DEF Fresh, ThreadsOK, KeysAgree, Record, Registered, Owning, KeyOf
<1>8. EndedMeansFree'
  BY <1>0 DEF Fresh, ThreadsOK, DistinctJobs, Registered, Gone, EndedMeansFree, Owning, KeyOf, Terminal
<1> QED
  BY <1>1, <1>2, <1>3, <1>4, <1>5, <1>6, <1>7, <1>8 DEF IInv

\* A step that only moves a thread on and changes its record.
LEMMA MoveStep ==
  ASSUME IInv, NEW w \in Workers, NEW from \in {"call", "backoff", "retry", "wait", "resume"},
         NEW to, NEW s, NEW n \in 1 .. (Retries + 1),
         \/ to = "pop" /\ s \in {"completed", "failed", "cancelled"}
         \/ to = "backoff" /\ s = "running" /\ n <= Retries
         \/ to = "retry" /\ s = "retrying" /\ n <= Retries
         \/ to = "resume" /\ s = "running",
         Goto(w, from, to), SetRecord(work[w], s, n),
         UNCHANGED <<counter, lockVars, tokenVars, disk, work, toCancel, crashes>>
  PROVE IInv'
<1> USE JobsAssumption DEF IInv, TypeOK, JobIds, Calling, Backing, Leaving, Goto, lockVars, tokenVars
<1>a. work[w] \in JobIds
  BY DEF ThreadsOK
<1>b. /\ rec' \in [JobIds -> Record]
      /\ \A j \in JobIds : rec'[j].key = rec[j].key
      /\ \A j \in JobIds : j # work[w] => rec'[j] = rec[j]
      /\ rec'[work[w]].state = s /\ rec'[work[w]].attempt = n
  <2>1. rec' = [rec EXCEPT ![work[w]] = [key |-> rec[work[w]].key, state |-> s, attempt |-> n]]
    BY DEF SetRecord
  <2>2. [key |-> rec[work[w]].key, state |-> s, attempt |-> n] \in Record
    BY <1>a DEF Record, States, Terminal
  <2> QED
    BY <1>a, <2>1, <2>2
<1>1. TypeOK'
  BY <1>a, <1>b DEF Record, States, Terminal
<1>2. Fresh'
  BY <1>a, <1>b DEF Fresh
<1>3. ThreadsOK'
  <2> SUFFICES ASSUME NEW v \in Workers
               PROVE  /\ (pc'[v] = Idle) <=> (work'[v] = NoJob)
                      /\ pc'[v] # Idle => rec'[work'[v]].key \in Keys
                      /\ pc'[v] \in Calling => rec'[work'[v]].state = "running"
                      /\ pc'[v] = "backoff" => rec'[work'[v]].attempt <= Retries
                      /\ pc'[v] \in Backing =>
                           rec'[work'[v]].state = "retrying" /\ rec'[work'[v]].attempt <= Retries
                      /\ pc'[v] \in Leaving => rec'[work'[v]].state \in Terminal
    BY DEF ThreadsOK
  <2>1. CASE v = w
    BY <1>a, <1>b, <2>1 DEF ThreadsOK, Terminal
  <2>2. CASE v # w /\ pc[v] = Idle
    BY <2>2 DEF ThreadsOK
  <2>3. CASE v # w /\ pc[v] # Idle
    <3>1. work[v] \in JobIds /\ work[v] # work[w]
      BY <1>a, <2>3 DEF ThreadsOK, DistinctJobs
    <3> QED
      BY <1>b, <2>3, <3>1 DEF ThreadsOK
  <2> QED
    BY <2>1, <2>2, <2>3
<1>4. DistinctJobs'
  BY <1>a, <1>b DEF Fresh, ThreadsOK, DistinctJobs
<1>5. Registered'
  BY <1>a, <1>b DEF Fresh, ThreadsOK, DistinctJobs, Registered, KeysAgree, Owning, KeyOf, Record
<1>6. Gone'
  BY <1>a, <1>b DEF Fresh, ThreadsOK, DistinctJobs, Registered, Gone, KeysAgree, Owning, KeyOf
<1>7. KeysAgree'
  BY <1>a, <1>b DEF Fresh, ThreadsOK, KeysAgree, Record, Registered, Owning, KeyOf
<1>8. EndedMeansFree'
  BY <1>a, <1>b DEF Fresh, ThreadsOK, DistinctJobs, Registered, Gone, EndedMeansFree, Owning, KeyOf, Terminal
<1> QED
  BY <1>1, <1>2, <1>3, <1>4, <1>5, <1>6, <1>7, <1>8 DEF IInv

LEMMA PopStep == ASSUME IInv, NEW w \in Workers, Pop(w) PROVE IInv'
<1> USE JobsAssumption DEF IInv, TypeOK, JobIds, Calling, Backing, Leaving, Pop, Goto, tokenVars
<1>1. TypeOK'
  BY DEF Record, States, Terminal
<1>2. Fresh'
  BY DEF Fresh
<1>3. ThreadsOK'
  BY DEF Fresh, ThreadsOK, Record, States, Terminal, NoKey
<1>4. DistinctJobs'
  BY DEF Fresh, ThreadsOK, DistinctJobs
<1>5. Registered'
  BY DEF Fresh, ThreadsOK, DistinctJobs, Registered, KeysAgree, Owning, KeyOf, Record
<1>6. Gone'
  BY DEF Fresh, ThreadsOK, DistinctJobs, Registered, Gone, KeysAgree, Owning, KeyOf
<1>7. KeysAgree'
  BY DEF Fresh, ThreadsOK, KeysAgree, Record, Registered, Owning, KeyOf
<1>8. EndedMeansFree'
  BY DEF Fresh, ThreadsOK, DistinctJobs, Registered, Gone, EndedMeansFree, Owning, KeyOf, Terminal
<1> QED
  BY <1>1, <1>2, <1>3, <1>4, <1>5, <1>6, <1>7, <1>8 DEF IInv

LEMMA FinalStep == ASSUME IInv, NEW w \in Workers, Final(w) PROVE IInv'
<1> USE JobsAssumption DEF IInv, TypeOK, JobIds, Calling, Backing, Leaving, Final, Saved, SaveFails, Goto, lockVars, tokenVars
<1>0. work[w] \in JobIds /\ rec[work[w]].state \in Terminal
  BY DEF ThreadsOK
<1>1. TypeOK'
  BY <1>0 DEF Record, States, Terminal
<1>2. Fresh'
  BY <1>0 DEF Fresh
<1>3. ThreadsOK'
  BY <1>0 DEF Fresh, ThreadsOK, Record, States, Terminal, NoKey
<1>4. DistinctJobs'
  BY <1>0 DEF Fresh, ThreadsOK, DistinctJobs
<1>5. Registered'
  BY <1>0 DEF Fresh, ThreadsOK, DistinctJobs, Registered, KeysAgree, Owning, KeyOf, Record
<1>6. Gone'
  BY <1>0 DEF Fresh, ThreadsOK, DistinctJobs, Registered, Gone, KeysAgree, Owning, KeyOf
<1>7. KeysAgree'
  BY <1>0 DEF Fresh, ThreadsOK, KeysAgree, Record, Registered, Owning, KeyOf
<1>8. EndedMeansFree'
  BY <1>0 DEF Fresh, ThreadsOK, DistinctJobs, Registered, Gone, EndedMeansFree, Owning, KeyOf, Terminal
<1> QED
  BY <1>1, <1>2, <1>3, <1>4, <1>5, <1>6, <1>7, <1>8 DEF IInv

LEMMA StartFailsStep == ASSUME IInv, NEW w \in Workers, StartFails(w) PROVE IInv'
<1> USE JobsAssumption DEF IInv, TypeOK, JobIds, Calling, Backing, Leaving, StartFails, SaveFails, Goto, lockVars, tokenVars
<1>1. TypeOK'
  BY DEF Record, States, Terminal
<1>2. Fresh'
  BY DEF Fresh
<1>3. ThreadsOK'
  BY DEF Fresh, ThreadsOK, Record, States, Terminal, NoKey
<1>4. DistinctJobs'
  BY DEF Fresh, ThreadsOK, DistinctJobs
<1>5. Registered'
  BY DEF Fresh, ThreadsOK, DistinctJobs, Registered, KeysAgree, Owning, KeyOf, Record
<1>6. Gone'
  BY DEF Fresh, ThreadsOK, DistinctJobs, Registered, Gone, KeysAgree, Owning, KeyOf
<1>7. KeysAgree'
  BY DEF Fresh, ThreadsOK, KeysAgree, Record, Registered, Owning, KeyOf
<1>8. EndedMeansFree'
  BY DEF Fresh, ThreadsOK, DistinctJobs, Registered, Gone, EndedMeansFree, Owning, KeyOf, Terminal
<1> QED
  BY <1>1, <1>2, <1>3, <1>4, <1>5, <1>6, <1>7, <1>8 DEF IInv

\* Cancellations touch only the tokens and the snapshots.
LEMMA CancelledStep ==
  ASSUME IInv, cancelled' \in SUBSET JobIds, stopped' \subseteq cancelled', toCancel' \in [Cancellers -> SUBSET JobIds],
         UNCHANGED <<counter, lockVars, rec, disk, workVars, crashes>>
  PROVE IInv'
<1> USE DEF IInv, TypeOK, lockVars, tokenVars, workVars
<1>1. TypeOK'
  BY DEF TypeOK, States, Terminal
<1>2. Fresh'
  BY DEF Fresh
<1>3. ThreadsOK'
  BY DEF ThreadsOK
<1>4. DistinctJobs'
  BY DEF DistinctJobs
<1>5. Registered'
  BY DEF Registered, Owning, KeyOf
<1>6. Gone'
  BY DEF Gone
<1>7. KeysAgree'
  BY DEF KeysAgree
<1>8. EndedMeansFree'
  BY DEF EndedMeansFree
<1> QED
  BY <1>1, <1>2, <1>3, <1>4, <1>5, <1>6, <1>7, <1>8

LEMMA CancelSteps == ASSUME IInv, NEW c \in Cancellers, CancelStep(c) PROVE IInv'
<1>1. ASSUME NEW tokens \in SUBSET JobIds, Snapshot(c, tokens) PROVE IInv'
  <2>1. cancelled' \in SUBSET JobIds /\ stopped' \subseteq cancelled' /\ toCancel' \in [Cancellers -> SUBSET JobIds]
    BY <1>1 DEF Snapshot, tokenVars, IInv, TypeOK
  <2> QED
    BY <1>1, <2>1, CancelledStep DEF Snapshot
<1>2. CASE \E d \in Devices : CancelDevice(c, d)
  <2>1. ASSUME NEW d \in Devices
        PROVE {running[k] : k \in {x \in Keys : x[1] = d /\ running[x] # NoJob}} \in SUBSET JobIds
    BY DEF IInv, TypeOK
  <2> QED
    BY <1>1, <1>2, <2>1 DEF CancelDevice
<1>3. CASE \E j \in JobIds : CancelId(c, j)
  BY <1>1, <1>3 DEF CancelId
<1>4. CASE CancelAll(c)
  <2>1. {running[k] : k \in {x \in Keys : running[x] # NoJob}} \in SUBSET JobIds
    BY DEF IInv, TypeOK
  <2> QED
    BY <1>1, <1>4, <2>1 DEF CancelAll
<1>5. CASE CancelToken(c)
  <2>1. cancelled' \in SUBSET JobIds /\ stopped' \subseteq cancelled' /\ toCancel' \in [Cancellers -> SUBSET JobIds]
    BY <1>5 DEF CancelToken, IInv, TypeOK
  <2> QED
    BY <1>5, <2>1, CancelledStep DEF CancelToken
<1> QED
  BY <1>2, <1>3, <1>4, <1>5 DEF CancelStep

LEMMA CrashStep == ASSUME IInv, Crash PROVE IInv'
<1> USE JobsAssumption DEF IInv, TypeOK, JobIds, Crash, Calling, Backing, Leaving, tokenVars
<1>1. TypeOK'
  BY DEF States
<1>2. Fresh'
  BY DEF Fresh
<1>3. ThreadsOK'
  BY DEF ThreadsOK
<1>4. DistinctJobs'
  BY DEF DistinctJobs
<1>5. Registered'
  BY DEF Registered, Owning
<1>6. Gone'
  BY DEF Gone
<1>7. KeysAgree'
  BY DEF KeysAgree
<1>8. EndedMeansFree'
  BY DEF EndedMeansFree
<1> QED
  BY <1>1, <1>2, <1>3, <1>4, <1>5, <1>6, <1>7, <1>8

\* A record that does not change is one rewritten with what it showed.
LEMMA AsItWas ==
  ASSUME IInv, NEW w \in Workers, pc[w] # Idle, UNCHANGED rec
  PROVE  SetRecord(work[w], rec[work[w]].state, rec[work[w]].attempt)
<1>1. work[w] \in JobIds /\ rec \in [JobIds -> Record]
  BY DEF IInv, TypeOK, ThreadsOK
<1>2. [key |-> rec[work[w]].key, state |-> rec[work[w]].state, attempt |-> rec[work[w]].attempt] = rec[work[w]]
  BY <1>1 DEF Record
<1> QED
  BY <1>1, <1>2 DEF SetRecord

\* A step of the thread inside run(), one case per action.
LEMMA CallStepIInv == ASSUME IInv, NEW w \in Workers, CallStep(w) PROVE IInv'
<1> DEFINE n == rec[work[w]].attempt
<1>0. pc[w] = "call" => n \in 1 .. (Retries + 1)
  BY DEF IInv, TypeOK, ThreadsOK, Record
<1>1. CASE CallSucceeds(w)
  BY <1>0, <1>1, MoveStep DEF CallSucceeds, Goto
<1>2. CASE CallRaises(w)
  BY <1>0, <1>2, MoveStep DEF CallRaises, Raises, Goto
<1>3. ASSUME NEW code \in Codes, CallErrs(w, code) PROVE IInv'
  <2>1. pc[w] = "call" /\ UNCHANGED <<counter, lockVars, tokenVars, disk, work, toCancel, crashes>>
    BY <1>3 DEF CallErrs, Goto
  <2>2. CASE Goto(w, "call", "pop") /\ SetRecord(work[w], "cancelled", n)
    BY <1>0, <2>1, <2>2, MoveStep
  <2>3. CASE RetriesLeft(n) /\ Goto(w, "call", "backoff") /\ UNCHANGED rec
    <3>1. SetRecord(work[w], "running", n)
      BY <2>1, <2>3, AsItWas DEF IInv, ThreadsOK, Calling
    <3> QED
      BY <1>0, <2>1, <2>3, <3>1, MoveStep DEF RetriesLeft
  <2>4. CASE Goto(w, "call", "pop") /\ SetRecord(work[w], "failed", n)
    BY <1>0, <2>1, <2>4, MoveStep
  <2> QED
    BY <1>3, <2>2, <2>3, <2>4 DEF CallErrs
<1> QED
  BY <1>1, <1>2, <1>3 DEF CallStep

LEMMA RunStepIInv == ASSUME IInv, NEW w \in Workers, RunStep(w) PROVE IInv'
<1> DEFINE n == rec[work[w]].attempt
<1>0. pc[w] # Idle => n \in 1 .. (Retries + 1)
  BY DEF IInv, TypeOK, ThreadsOK, Record
<1>1. CASE Started(w)
  BY <1>1, SaveStep DEF Started
<1>2. CASE StartFails(w)
  BY <1>2, StartFailsStep
<1>10. CASE Backoff(w)
  BY <1>0, <1>10, MoveStep DEF Backoff, Goto, IInv, ThreadsOK
<1>3. CASE RetrySaved(w)
  BY <1>3, SaveStep DEF RetrySaved
<1>4. CASE RetryFails(w)
  BY <1>0, <1>4, MoveStep DEF RetryFails, Raises, SaveFails, Goto
<1>5. CASE WaitEnds(w)
  <2>1. pc[w] = "wait" /\ UNCHANGED <<counter, lockVars, tokenVars, disk, work, toCancel, crashes>>
    BY <1>5 DEF WaitEnds, Goto
  <2>2. n + 1 \in 1 .. (Retries + 1)
    BY <1>0, <2>1, JobsAssumption DEF IInv, ThreadsOK, Backing
  <2>3. CASE Goto(w, "wait", "pop") /\ SetRecord(work[w], "cancelled", n)
    BY <1>0, <2>1, <2>3, MoveStep
  <2>4. CASE Goto(w, "wait", "resume") /\ SetRecord(work[w], "running", n + 1)
    BY <2>1, <2>2, <2>4, MoveStep
  <2> QED
    BY <1>5, <2>3, <2>4 DEF WaitEnds
<1>6. CASE ResumeSaved(w)
  BY <1>6, SaveStep DEF ResumeSaved
<1>7. CASE ResumeFails(w)
  BY <1>0, <1>7, MoveStep DEF ResumeFails, Raises, SaveFails, Goto
<1>8. CASE Pop(w)
  BY <1>8, PopStep
<1>9. CASE Final(w)
  BY <1>9, FinalStep
<1> QED
  BY <1>1, <1>2, <1>3, <1>4, <1>5, <1>6, <1>7, <1>8, <1>9, <1>10 DEF RunStep

LEMMA NextIInv == IInv /\ [Next]_vars => IInv'
<1> SUFFICES ASSUME IInv, [Next]_vars PROVE IInv'
  OBVIOUS
<1>1. ASSUME NEW w \in Workers, NEW k \in Keys, Enter(w, k) \/ Skip(w, k) PROVE IInv'
  BY <1>1, EnterStep, SkipStep
<1>2. ASSUME NEW w \in Workers, CallStep(w) \/ RunStep(w) PROVE IInv'
  BY <1>2, CallStepIInv, RunStepIInv
<1>3. ASSUME NEW c \in Cancellers, CancelStep(c) PROVE IInv'
  BY <1>3, CancelSteps
<1>4. CASE Crash
  BY <1>4, CrashStep
<1>5. CASE UNCHANGED vars
  <2>1. cancelled' \in SUBSET JobIds /\ stopped' \subseteq cancelled' /\ toCancel' \in [Cancellers -> SUBSET JobIds]
    BY <1>5 DEF vars, IInv, TypeOK
  <2> QED
    BY <1>5, <2>1, CancelledStep DEF vars, lockVars, tokenVars, workVars
<1> QED
  BY <1>1, <1>2, <1>3, <1>4, <1>5 DEF Next

\* When the first save cannot fail, every registered job has its thread.
LEMMA NoLeakStep ==
  ASSUME "start" \notin FailingSaves, IInv, NoLeakedEntry, [Next]_vars
  PROVE  NoLeakedEntry'
<1> USE DEF NoLeakedEntry, HasThread, Owning, IInv, TypeOK, JobIds, lockVars, tokenVars, workVars
<1>1. ASSUME NEW w \in Workers, NEW k \in Keys, Enter(w, k) PROVE NoLeakedEntry'
  <2>1. Owning(w)' /\ work'[w] = running'[k] /\ pc[w] = Idle
    BY <1>1 DEF Enter, Goto
  <2>2. ASSUME NEW x \in Keys, x # k, running'[x] # NoJob
        PROVE  \E v \in Workers : Owning(v)' /\ work'[v] = running'[x]
    <3>1. running'[x] = running[x]
      BY <1>1, <2>2 DEF Enter
    <3>2. PICK v \in Workers : Owning(v) /\ work[v] = running[x]
      BY <2>2, <3>1
    <3>3. v # w
      BY <2>1, <3>2
    <3> QED
      BY <1>1, <3>1, <3>2, <3>3 DEF Enter, Goto
  <2> QED
    BY <2>1, <2>2
<1>2. ASSUME NEW w \in Workers, NEW k \in Keys, Skip(w, k) PROVE NoLeakedEntry'
  BY <1>2 DEF Skip
<1>3. ASSUME NEW w \in Workers, UNCHANGED <<running, work>>,
             Owning(w)' \/ ~Owning(w), \A v \in Workers : v # w => pc'[v] = pc[v]
      PROVE  NoLeakedEntry'
  BY <1>3
<1>4. ASSUME NEW w \in Workers, CallStep(w) PROVE NoLeakedEntry'
  BY <1>3, <1>4 DEF CallStep, CallSucceeds, CallRaises, Raises, CallErrs, Goto
<1>5. ASSUME NEW w \in Workers,
             \/ Started(w) \/ Backoff(w) \/ RetrySaved(w) \/ RetryFails(w) \/ WaitEnds(w)
             \/ ResumeSaved(w) \/ ResumeFails(w)
      PROVE  NoLeakedEntry'
  BY <1>3, <1>5 DEF Started, Backoff, RetrySaved, RetryFails, WaitEnds, ResumeSaved, ResumeFails, Raises, Goto
<1>6. ASSUME NEW w \in Workers, StartFails(w) PROVE NoLeakedEntry'
  BY <1>6 DEF StartFails, SaveFails
<1>7. ASSUME NEW w \in Workers, Pop(w) PROVE NoLeakedEntry'
  <2>1. pc[w] = "pop" /\ running[KeyOf(w)] = work[w] /\ KeyOf(w) \in Keys /\ work[w] # NoJob
    BY <1>7 DEF Pop, Goto, Registered, ThreadsOK, KeyOf, Leaving
  <2>2. ASSUME NEW x \in Keys, running'[x] # NoJob
        PROVE  \E v \in Workers : Owning(v)' /\ work'[v] = running'[x]
    <3>1. running'[x] = running[x] /\ x # KeyOf(w)
      BY <1>7, <2>1, <2>2 DEF Pop, KeyOf
    <3>2. PICK v \in Workers : Owning(v) /\ work[v] = running[x]
      BY <2>2, <3>1
    <3>3. v # w
      BY <3>1, <3>2, <2>1, <2>2 DEF KeysAgree, KeyOf
    <3> QED
      BY <1>7, <3>1, <3>2, <3>3 DEF Pop, Goto
  <2> QED
    BY <2>2
<1>8. ASSUME NEW w \in Workers, Final(w) PROVE NoLeakedEntry'
  BY <1>8 DEF Final, Goto
<1>9. ASSUME NEW c \in Cancellers, CancelStep(c) PROVE NoLeakedEntry'
  BY <1>9 DEF CancelStep, CancelDevice, CancelId, CancelAll, CancelToken, Snapshot
<1>10. CASE Crash
  BY <1>10 DEF Crash
<1>11. CASE UNCHANGED vars
  BY <1>11 DEF vars
<1> QED
  BY <1>1, <1>2, <1>4, <1>5, <1>6, <1>7, <1>8, <1>9, <1>10, <1>11 DEF Next, RunStep

\* A thread that has not written its record yet: there is none.
NewUnsaved == \A w \in Workers : pc[w] = "start" => disk[work[w]] = "none"

LEMMA NewUnsavedStep == ASSUME IInv, NewUnsaved, [Next]_vars PROVE NewUnsaved'
<1> USE DEF NewUnsaved, IInv, TypeOK, JobIds, lockVars, tokenVars, workVars
<1>1. ASSUME NEW w \in Workers, NEW k \in Keys, Enter(w, k) PROVE NewUnsaved'
  BY <1>1, JobsAssumption DEF Enter, NewId, Goto, Fresh
<1>2. ASSUME NEW w \in Workers, NEW k \in Keys, Skip(w, k) PROVE NewUnsaved'
  <2>1. \A j \in JobIds : j # counter + 1 => disk'[j] = disk[j]
    BY <1>2 DEF Skip, NewId, SaveFails
  <2>2. \A v \in Workers : work[v] # counter + 1
    BY DEF Fresh
  <2> QED
    BY <1>2, <2>1, <2>2 DEF Skip, ThreadsOK
<1>3. ASSUME NEW w \in Workers, UNCHANGED work, pc'[w] # "start",
             \A v \in Workers : v # w => pc'[v] = pc[v],
             \A j \in JobIds : disk'[j] # disk[j] => j = work[w]
      PROVE  NewUnsaved'
  BY <1>3 DEF DistinctJobs, ThreadsOK
<1>4. ASSUME NEW w \in Workers, CallStep(w) PROVE NewUnsaved'
  BY <1>3, <1>4 DEF CallStep, CallSucceeds, CallRaises, Raises, CallErrs, Goto
<1>5. ASSUME NEW w \in Workers,
             \/ Started(w) \/ Backoff(w) \/ RetrySaved(w) \/ RetryFails(w) \/ WaitEnds(w)
             \/ ResumeSaved(w) \/ ResumeFails(w) \/ Pop(w)
      PROVE  NewUnsaved'
  BY <1>3, <1>5 DEF Started, Backoff, RetrySaved, RetryFails, WaitEnds, ResumeSaved, ResumeFails, Pop,
     Raises, Goto, Saved, SaveFails
<1>6. ASSUME NEW w \in Workers, StartFails(w) PROVE NewUnsaved'
  BY <1>6 DEF StartFails, SaveFails, Goto
<1>7. ASSUME NEW w \in Workers, Final(w) PROVE NewUnsaved'
  <2>1. ASSUME NEW v \in Workers, pc'[v] = "start"
        PROVE  pc[v] = "start" /\ work'[v] = work[v] /\ v # w
    BY <1>7, <2>1 DEF Final, Goto
  <2>2. \A j \in JobIds : j # work[w] => disk'[j] = disk[j]
    BY <1>7 DEF Final, Saved, SaveFails
  <2> QED
    BY <2>1, <2>2 DEF DistinctJobs, ThreadsOK
<1>8. ASSUME NEW c \in Cancellers, CancelStep(c) PROVE NewUnsaved'
  BY <1>8 DEF CancelStep, CancelDevice, CancelId, CancelAll, CancelToken, Snapshot
<1>9. CASE Crash \/ UNCHANGED vars
  BY <1>9 DEF Crash, vars
<1> QED
  BY <1>1, <1>2, <1>4, <1>5, <1>6, <1>7, <1>8, <1>9 DEF Next, RunStep

LEMMA UnsavedLeakStep ==
  ASSUME IInv, NewUnsaved, OnlyUnsavedLeaks, [Next]_vars
  PROVE  OnlyUnsavedLeaks'
<1> USE DEF OnlyUnsavedLeaks, HasThread, Owning, IInv, TypeOK, JobIds, lockVars, tokenVars, workVars
<1>1. ASSUME NEW w \in Workers, NEW k \in Keys, Enter(w, k) PROVE OnlyUnsavedLeaks'
  <2>1. Owning(w)' /\ work'[w] = running'[k] /\ pc[w] = Idle
    BY <1>1 DEF Enter, Goto
  <2>2. ASSUME NEW x \in Keys, x # k, running'[x] # NoJob
        PROVE  HasThread(x)' \/ disk'[running'[x]] = "none"
    <3>1. running'[x] = running[x] /\ disk' = disk
      BY <1>1, <2>2 DEF Enter
    <3>2. ASSUME NEW v \in Workers, Owning(v), work[v] = running[x] PROVE HasThread(x)'
      <4>1. v # w
        BY <2>1, <3>2
      <4> QED
        BY <1>1, <3>1, <3>2, <4>1 DEF Enter, Goto
    <3> QED
      BY <2>2, <3>1, <3>2
  <2> QED
    BY <2>1, <2>2
<1>2. ASSUME NEW w \in Workers, NEW k \in Keys, Skip(w, k) PROVE OnlyUnsavedLeaks'
  <2>1. ASSUME NEW x \in Keys PROVE running[x] # NoJob => disk'[running[x]] = disk[running[x]]
    <3>1. \A j \in JobIds : j # counter + 1 => disk'[j] = disk[j]
      BY <1>2 DEF Skip, NewId, SaveFails
    <3>2. running[x] # counter + 1
      BY DEF Fresh
    <3> QED
      BY <3>1, <3>2
  <2> QED
    BY <1>2, <2>1 DEF Skip
<1>3. ASSUME NEW w \in Workers, UNCHANGED <<running, work>>, Owning(w)' \/ ~Owning(w),
             \A v \in Workers : v # w => pc'[v] = pc[v],
             \A j \in JobIds : disk'[j] # disk[j] => j = work[w] /\ Owning(w)'
      PROVE  OnlyUnsavedLeaks'
  BY <1>3
<1>4. ASSUME NEW w \in Workers, CallStep(w) PROVE OnlyUnsavedLeaks'
  BY <1>3, <1>4 DEF CallStep, CallSucceeds, CallRaises, Raises, CallErrs, Goto
<1>5. ASSUME NEW w \in Workers,
             \/ Started(w) \/ Backoff(w) \/ RetrySaved(w) \/ RetryFails(w) \/ WaitEnds(w)
             \/ ResumeSaved(w) \/ ResumeFails(w)
      PROVE  OnlyUnsavedLeaks'
  BY <1>3, <1>5 DEF Started, Backoff, RetrySaved, RetryFails, WaitEnds, ResumeSaved, ResumeFails, Raises,
     Goto, Saved, SaveFails
<1>6. ASSUME NEW w \in Workers, StartFails(w) PROVE OnlyUnsavedLeaks'
  BY <1>6 DEF StartFails, SaveFails, Goto, NewUnsaved
<1>7. ASSUME NEW w \in Workers, Pop(w) PROVE OnlyUnsavedLeaks'
  <2>1. pc[w] = "pop" /\ running[KeyOf(w)] = work[w] /\ KeyOf(w) \in Keys /\ work[w] # NoJob
    BY <1>7 DEF Pop, Goto, Registered, ThreadsOK, KeyOf, Leaving
  <2>2. ASSUME NEW x \in Keys, running'[x] # NoJob
        PROVE  HasThread(x)' \/ disk'[running'[x]] = "none"
    <3>1. running'[x] = running[x] /\ x # KeyOf(w) /\ disk' = disk
      BY <1>7, <2>1, <2>2 DEF Pop, KeyOf
    <3>2. ASSUME NEW v \in Workers, Owning(v), work[v] = running[x] PROVE HasThread(x)'
      <4>1. v # w
        BY <3>1, <3>2, <2>1, <2>2 DEF KeysAgree, KeyOf
      <4> QED
        BY <1>7, <3>1, <3>2, <4>1 DEF Pop, Goto
    <3> QED
      BY <2>2, <3>1, <3>2
  <2> QED
    BY <2>2
<1>8. ASSUME NEW w \in Workers, Final(w) PROVE OnlyUnsavedLeaks'
  <2>1. ASSUME NEW x \in Keys PROVE disk'[running[x]] = disk[running[x]] \/ running[x] = NoJob
    BY <1>8 DEF Final, Goto, Saved, SaveFails, Gone
  <2>2. ASSUME NEW v \in Workers, Owning(v) PROVE Owning(v)' /\ work'[v] = work[v]
    BY <1>8, <2>2 DEF Final, Goto
  <2> QED
    BY <1>8, <2>1, <2>2 DEF Final
<1>9. ASSUME NEW c \in Cancellers, CancelStep(c) PROVE OnlyUnsavedLeaks'
  BY <1>9 DEF CancelStep, CancelDevice, CancelId, CancelAll, CancelToken, Snapshot
<1>10. CASE Crash
  BY <1>10 DEF Crash
<1>11. CASE UNCHANGED vars
  BY <1>11 DEF vars
<1> QED
  BY <1>1, <1>2, <1>4, <1>5, <1>6, <1>7, <1>8, <1>9, <1>10, <1>11 DEF Next, RunStep

(***************************************************************************)
(* The theorems                                                            *)
(***************************************************************************)

\* The bookkeeping of JobRunner keeps its types for ever: in particular no
\* job makes more than Retries + 1 attempts.
THEOREM TypeCorrect == Spec => []TypeOK
<1>1. IInv => TypeOK
  BY DEF IInv
<1> QED
  BY <1>1, InitIInv, NextIInv, PTL DEF Spec

\* Two threads never run the service for the same device and action at once,
\* whatever fails to be saved and whenever the process dies.
THEOREM MutualExclusion == Spec => []OneJobPerKey
<1>1. IInv => OneJobPerKey
  BY DEF IInv, OneJobPerKey, Registered, DistinctJobs, ThreadsOK, Owning, NoJob, Idle
<1> QED
  BY <1>1, InitIInv, NextIInv, PTL DEF Spec

\* A job whose record shows an end has given back its key and its id.
THEOREM EndedJobsAreFree == Spec => []EndedMeansFree
<1>1. IInv => EndedMeansFree
  BY DEF IInv
<1> QED
  BY <1>1, InitIInv, NextIInv, PTL DEF Spec

\* As long as the first save of a record cannot fail, run() removes its entry
\* on every way out, exceptions and other failed saves included.  (When it can
\* fail, LeaksAreUnsaved says which entries stay.)
THEOREM EntriesAreRemoved ==
  ASSUME "start" \notin FailingSaves
  PROVE  Spec => []NoLeakedEntry
<1>1. Init => NoLeakedEntry
  BY DEF Init, NoLeakedEntry, HasThread
<1>2. IInv /\ NoLeakedEntry /\ [Next]_vars => NoLeakedEntry'
  BY NoLeakStep
<1> QED
  BY <1>1, <1>2, InitIInv, NextIInv, PTL DEF Spec

\* Whatever raises and whichever writes fail, an entry without a thread is one
\* whose job never got its first record.
THEOREM LeaksAreUnsaved == Spec => []OnlyUnsavedLeaks
<1>1. Init => NewUnsaved /\ OnlyUnsavedLeaks
  BY DEF Init, NewUnsaved, OnlyUnsavedLeaks, HasThread
<1>2. IInv /\ NewUnsaved /\ OnlyUnsavedLeaks /\ [Next]_vars => NewUnsaved' /\ OnlyUnsavedLeaks'
  BY NewUnsavedStep, UnsavedLeakStep
<1> QED
  BY <1>1, <1>2, InitIInv, NextIInv, PTL DEF Spec

(***************************************************************************)
(* A job cancelled between its call and the end of the wait: its token     *)
(* stays set, so the wait does not end in another attempt.                 *)
(***************************************************************************)
StaysStopped ==
  /\ \A j \in stopped : j <= counter
  /\ \A w \in Workers : work[w] \in stopped => pc[w] \notin {"start", "resume"}

LEMMA StoppedStep == ASSUME IInv, StaysStopped, [Next]_vars PROVE StaysStopped'
<1> USE DEF StaysStopped, tokenVars, lockVars, workVars
<1>0. stopped \subseteq JobIds /\ NoJob \notin stopped /\ counter \in Nat
  BY JobsAssumption DEF IInv, TypeOK, JobIds
<1>1. ASSUME NEW w \in Workers, NEW k \in Keys, Enter(w, k) PROVE StaysStopped'
  <2>1. counter' = counter + 1 /\ stopped' = stopped
    BY <1>1 DEF Enter, NewId
  <2>2. counter' \notin stopped /\ \A j \in stopped : j <= counter'
    BY <1>0, <2>1 DEF JobIds
  <2>3. \A v \in Workers : v # w => pc'[v] = pc[v] /\ work'[v] = work[v]
    BY <1>1 DEF Enter, Goto
  <2>4. work'[w] = counter'
    BY <1>1 DEF Enter, IInv, TypeOK
  <2> QED
    BY <2>1, <2>2, <2>3, <2>4
<1>2. ASSUME NEW w \in Workers, NEW k \in Keys, Skip(w, k) PROVE StaysStopped'
  BY <1>0, <1>2 DEF Skip, NewId, JobIds
<1>3. ASSUME NEW w \in Workers, UNCHANGED <<counter, stopped>>,
             work'[w] \in {work[w], NoJob},
             work'[w] \in stopped => pc'[w] \notin {"start", "resume"},
             \A v \in Workers : v # w => pc'[v] = pc[v] /\ work'[v] = work[v]
      PROVE  StaysStopped'
  BY <1>3
<1>4. ASSUME NEW w \in Workers, CallStep(w) PROVE StaysStopped'
  BY <1>3, <1>4 DEF CallStep, CallSucceeds, CallRaises, Raises, CallErrs, Goto, IInv, TypeOK
<1>5. ASSUME NEW w \in Workers, WaitEnds(w) PROVE StaysStopped'
  <2>1. work[w] \in stopped => work[w] \in cancelled
    BY DEF IInv, TypeOK
  <2> QED
    BY <1>3, <1>5, <2>1 DEF WaitEnds, Goto, IInv, TypeOK
<1>6. ASSUME NEW w \in Workers,
             \/ Started(w) \/ Backoff(w) \/ RetrySaved(w) \/ RetryFails(w) \/ ResumeSaved(w)
             \/ ResumeFails(w) \/ Pop(w)
      PROVE  StaysStopped'
  BY <1>3, <1>6 DEF Started, Backoff, RetrySaved, RetryFails, ResumeSaved, ResumeFails, Pop, Raises, Goto,
     IInv, TypeOK
<1>7. ASSUME NEW w \in Workers, StartFails(w) \/ Final(w) PROVE StaysStopped'
  BY <1>0, <1>3, <1>7 DEF StartFails, Final, Goto, IInv, TypeOK
<1>8. ASSUME NEW c \in Cancellers, CancelStep(c) PROVE StaysStopped'
  <2>1. CASE CancelToken(c)
    <3>1. PICK j \in toCancel[c] : /\ stopped' = (IF j \in Between THEN stopped \union {j} ELSE stopped)
                                   /\ UNCHANGED <<counter, pc, work>>
      BY <2>1 DEF CancelToken
    <3>2. CASE j \in Between
      <4>1. PICK v \in Workers : work[v] = j /\ pc[v] \in {"call", "backoff", "retry", "wait"}
        BY <3>2 DEF Between
      <4>2. j <= counter
        BY <4>1 DEF IInv, Fresh
      <4>3. \A w \in Workers : work[w] = j => w = v
        BY <4>1 DEF IInv, DistinctJobs, ThreadsOK
      <4> QED
        BY <3>1, <3>2, <4>1, <4>2, <4>3
    <3>3. CASE j \notin Between
      BY <3>1, <3>3
    <3> QED
      BY <3>2, <3>3
  <2>2. CASE UNCHANGED <<counter, stopped, pc, work>>
    BY <2>2
  <2> QED
    BY <1>8, <2>1, <2>2 DEF CancelStep, CancelDevice, CancelId, CancelAll, Snapshot
<1>9. CASE Crash
  BY <1>0, <1>9 DEF Crash
<1>10. CASE UNCHANGED vars
  BY <1>10 DEF vars
<1> QED
  BY <1>1, <1>2, <1>4, <1>5, <1>6, <1>7, <1>8, <1>9, <1>10 DEF Next, RunStep

\* The two steps that call the service find a job that was not stopped before.
LEMMA CallsUnstopped ==
  ASSUME IInv, StaysStopped, [Next]_vars, NEW w \in Workers, pc[w] # "call", pc'[w] = "call"
  PROVE  work[w] \notin stopped
<1>1. pc[w] \in {"start", "resume"}
  <2> USE DEF Goto, IInv, TypeOK
  <2>1. ASSUME NEW v \in Workers, NEW k \in Keys, Enter(v, k) \/ Skip(v, k) PROVE FALSE
    BY <2>1 DEF Enter, Skip, workVars
  <2>2. ASSUME NEW v \in Workers, CallStep(v) PROVE FALSE
    BY <2>2 DEF CallStep, CallSucceeds, CallRaises, Raises, CallErrs
  <2>3. ASSUME NEW v \in Workers, RunStep(v) PROVE pc[w] \in {"start", "resume"}
    BY <2>3 DEF RunStep, Started, StartFails, Backoff, RetrySaved, RetryFails, WaitEnds, ResumeSaved,
                ResumeFails, Pop, Final, Raises
  <2>4. ASSUME NEW c \in Cancellers, CancelStep(c) PROVE FALSE
    BY <2>4 DEF CancelStep, CancelDevice, CancelId, CancelAll, CancelToken, Snapshot, workVars
  <2>5. CASE Crash \/ UNCHANGED vars
    BY <2>5 DEF Crash, vars
  <2> QED
    BY <2>1, <2>2, <2>3, <2>4, <2>5 DEF Next
<1> QED
  BY <1>1 DEF StaysStopped

\* The attempt under way when a job is cancelled is its last, wherever between
\* its call and the end of the wait the cancel falls.
THEOREM CancelledAttemptIsLast == Spec => NoAttemptAfterCancel
<1>1. Init => StaysStopped
  BY DEF Init, StaysStopped
<1>2. IInv /\ StaysStopped /\ [Next]_vars => StaysStopped'
  BY StoppedStep
<1>3. IInv /\ StaysStopped /\ [Next]_vars
      => [\A w \in Workers : pc[w] # "call" /\ pc'[w] = "call" => work[w] \notin stopped]_vars
  BY CallsUnstopped
<1> QED
  BY <1>1, <1>2, <1>3, InitIInv, NextIInv, PTL DEF Spec, NoAttemptAfterCancel

(***************************************************************************)
(* Jobs implements JobLifecycle: initial states map to initial states, and *)
(* every step of a thread, a canceller or a crash maps to a step of the    *)
(* diagram or to none.  To the invariant it adds that a record is blank    *)
(* until its id is handed out.                                             *)
(***************************************************************************)
Blank == \A j \in JobIds : j > counter => rec[j] = Unused

\* The variables of the diagram, as Jobs sees them.
StateOf == [j \in JobIds |-> rec[j].state]
AttemptOf == [j \in JobIds |-> rec[j].attempt]
Stutters == UNCHANGED <<StateOf, AttemptOf, running, disk>>

LEMMA MappedInit == Init => Blank /\ Lifecycle!Init
BY DEF Init, Blank, Lifecycle!Init, Unused

\* Only the record of a job that a thread runs, or of the next id, is written.
LEMMA BlankStep == ASSUME IInv, Blank, [Next]_vars PROVE Blank'
<1> USE DEF Blank, IInv, TypeOK, JobIds, lockVars, tokenVars, workVars
<1>1. ASSUME NEW w \in Workers, NEW k \in Keys, Enter(w, k) \/ Skip(w, k) PROVE Blank'
  <2>1. counter' = counter + 1 /\ counter \in Nat
    BY <1>1 DEF Enter, Skip, NewId
  <2>2. \A j \in JobIds : j # counter' => rec'[j] = rec[j]
    BY <1>1 DEF Enter, Skip
  <2> QED
    BY <2>1, <2>2
<1>2. ASSUME NEW w \in Workers, NEW s, NEW n, SetRecord(work[w], s, n), counter' = counter PROVE Blank'
  <2>1. \A j \in JobIds : j > counter => j # work[w]
    BY JobsAssumption DEF Fresh
  <2> QED
    BY <1>2, <2>1 DEF SetRecord
<1>3. CASE UNCHANGED <<rec, counter>>
  BY <1>3
<1>4. ASSUME NEW w \in Workers, CallStep(w) PROVE Blank'
  BY <1>2, <1>3, <1>4 DEF CallStep, CallSucceeds, CallRaises, Raises, CallErrs
<1>5. ASSUME NEW w \in Workers, RunStep(w) PROVE Blank'
  BY <1>2, <1>3, <1>5 DEF RunStep, Started, StartFails, Backoff, RetrySaved, RetryFails, WaitEnds, ResumeSaved,
                          ResumeFails, Pop, Final, Raises
<1>6. ASSUME NEW c \in Cancellers, CancelStep(c) PROVE Blank'
  BY <1>3, <1>6 DEF CancelStep, CancelDevice, CancelId, CancelAll, CancelToken, Snapshot
<1>7. CASE Crash \/ UNCHANGED vars
  BY <1>3, <1>7 DEF Crash, vars
<1> QED
  BY <1>1, <1>4, <1>5, <1>6, <1>7 DEF Next

(***************************************************************************)
(* Registering a job                                                       *)
(***************************************************************************)
\* A new id's record differs from the blank one in its state alone.
LEMMA NewRecord ==
  ASSUME IInv, Blank, counter < MaxJobs, counter' = counter + 1,
         NEW k, NEW s, rec' = [rec EXCEPT ![counter'] = [key |-> k, state |-> s, attempt |-> 1]]
  PROVE  /\ counter' \in JobIds
         /\ StateOf[counter'] = "none"
         /\ StateOf' = [StateOf EXCEPT ![counter'] = s]
         /\ AttemptOf' = AttemptOf
<1> DEFINE blank == [key |-> k, state |-> s, attempt |-> 1]
<1>1. counter' \in JobIds /\ rec[counter'] = Unused
  BY JobsAssumption DEF Blank, IInv, TypeOK, JobIds
<1>2. rec' = [j \in JobIds |-> IF j = counter' THEN blank ELSE rec[j]]
  <2>1. DOMAIN rec = JobIds
    BY DEF IInv, TypeOK
  <2> QED
    BY <2>1
<1>3. \A j \in JobIds : /\ rec'[j].state = (IF j = counter' THEN s ELSE rec[j].state)
                        /\ rec'[j].attempt = (IF j = counter' THEN 1 ELSE rec[j].attempt)
  BY <1>2
<1>4. StateOf' = [StateOf EXCEPT ![counter'] = s]
  BY <1>1, <1>3 DEF StateOf
<1>5. AttemptOf' = AttemptOf
  BY <1>1, <1>3 DEF AttemptOf, Unused
<1> QED
  BY <1>1, <1>4, <1>5 DEF StateOf, Unused

LEMMA EnterStarts ==
  ASSUME IInv, Blank, NEW w \in Workers, NEW k \in Keys, Enter(w, k)
  PROVE  \E j \in JobIds : Lifecycle!Start(j, k)
<1>1. /\ counter' \in JobIds
      /\ StateOf[counter'] = "none"
      /\ StateOf' = [StateOf EXCEPT ![counter'] = "running"]
      /\ AttemptOf' = AttemptOf
  BY NewRecord DEF Enter, NewId
<1>2. running[k] = NoJob /\ running' = [running EXCEPT ![k] = counter'] /\ disk' = disk
  BY DEF Enter, KeyFree
<1>3. Lifecycle!Start(counter', k)
  BY <1>1, <1>2 DEF Lifecycle!Start, StateOf, AttemptOf
<1> QED
  BY <1>1, <1>3

LEMMA SkipSkips ==
  ASSUME IInv, Blank, NEW w \in Workers, NEW k \in Keys, Skip(w, k)
  PROVE  \E j \in JobIds : Lifecycle!Skip(j, k)
<1>1. /\ counter' \in JobIds
      /\ StateOf[counter'] = "none"
      /\ StateOf' = [StateOf EXCEPT ![counter'] = "skipped"]
      /\ AttemptOf' = AttemptOf
  BY NewRecord DEF Skip, NewId
<1>2. running[k] # NoJob /\ running' = running /\ disk' \in {disk, [disk EXCEPT ![counter'] = "skipped"]}
  BY DEF Skip, KeyFree, lockVars, tokenVars, SaveFails
<1>3. Lifecycle!Skip(counter', k)
  BY <1>1, <1>2 DEF Lifecycle!Skip, StateOf, AttemptOf
<1> QED
  BY <1>1, <1>3

(***************************************************************************)
(* A job on its way                                                        *)
(***************************************************************************)
\* A thread that owns a key finds its job there.
LEMMA OwnerHolds ==
  ASSUME IInv, NEW w \in Workers, Owning(w)
  PROVE  /\ work[w] \in JobIds
         /\ Lifecycle!Holding(work[w])
<1>1. work[w] \in JobIds /\ KeyOf(w) \in Keys
  BY DEF Owning, IInv, TypeOK, ThreadsOK, KeyOf
<1>2. running[KeyOf(w)] = work[w]
  BY DEF IInv, Registered
<1> QED
  BY <1>1, <1>2 DEF Lifecycle!Holding

LEMMA RecordChanges ==
  ASSUME IInv, NEW j \in JobIds, NEW s, NEW n, SetRecord(j, s, n)
  PROVE  /\ StateOf' = [StateOf EXCEPT ![j] = s]
         /\ AttemptOf' = [AttemptOf EXCEPT ![j] = n]
<1> DEFINE changed == [key |-> rec[j].key, state |-> s, attempt |-> n]
<1>1. rec' = [i \in JobIds |-> IF i = j THEN changed ELSE rec[i]]
  BY DEF SetRecord, IInv, TypeOK
<1>2. \A i \in JobIds : /\ rec'[i].state = (IF i = j THEN s ELSE rec[i].state)
                        /\ rec'[i].attempt = (IF i = j THEN n ELSE rec[i].attempt)
  BY <1>1
<1> QED
  BY <1>2 DEF StateOf, AttemptOf

\* The record of an owned job that has not ended takes a final state.
LEMMA EndsJob ==
  ASSUME IInv, NEW w \in Workers, Owning(w), pc[w] # "pop",
         NEW s \in {"completed", "failed", "cancelled"},
         SetRecord(work[w], s, rec[work[w]].attempt), UNCHANGED <<running, disk>>
  PROVE  \E j \in JobIds, t \in Lifecycle!Terminal : Lifecycle!End(j, t)
<1>1. work[w] \in JobIds /\ Lifecycle!Holding(work[w])
  BY OwnerHolds
<1>2. StateOf[work[w]] \in {"running", "retrying"}
  BY <1>1 DEF Owning, IInv, ThreadsOK, Calling, Backing, StateOf
<1>3. /\ StateOf' = [StateOf EXCEPT ![work[w]] = s]
      /\ AttemptOf' = [AttemptOf EXCEPT ![work[w]] = rec[work[w]].attempt]
  BY <1>1, RecordChanges
<1>4. AttemptOf' = AttemptOf
  BY <1>1, <1>3 DEF AttemptOf
<1>5. Lifecycle!End(work[w], s)
  BY <1>1, <1>2, <1>3, <1>4 DEF Lifecycle!End, Lifecycle!Terminal, StateOf, AttemptOf
<1> QED
  BY <1>1, <1>5 DEF Lifecycle!Terminal

\* An attempt that may be retried.
LEMMA BackoffRetries ==
  ASSUME IInv, NEW w \in Workers, pc[w] = "backoff", rec[work[w]].attempt <= Retries,
         SetRecord(work[w], "retrying", rec[work[w]].attempt), UNCHANGED <<running, disk>>
  PROVE  \E j \in JobIds : Lifecycle!Retry(j)
<1>1. work[w] \in JobIds /\ Lifecycle!Holding(work[w])
  BY OwnerHolds DEF Owning
<1>2. StateOf[work[w]] = "running" /\ AttemptOf[work[w]] <= Retries
  BY <1>1 DEF IInv, ThreadsOK, Calling, StateOf, AttemptOf
<1>3. /\ StateOf' = [StateOf EXCEPT ![work[w]] = "retrying"]
      /\ AttemptOf' = [AttemptOf EXCEPT ![work[w]] = rec[work[w]].attempt]
  BY <1>1, RecordChanges
<1>4. AttemptOf' = AttemptOf
  BY <1>1, <1>3 DEF AttemptOf
<1>5. Lifecycle!Retry(work[w])
  BY <1>1, <1>2, <1>3, <1>4 DEF Lifecycle!Retry, StateOf, AttemptOf
<1> QED
  BY <1>1, <1>5 DEF Lifecycle!Retry

\* A delay that is over and not cancelled.
LEMMA WaitResumes ==
  ASSUME IInv, NEW w \in Workers, pc[w] = "wait",
         SetRecord(work[w], "running", rec[work[w]].attempt + 1), UNCHANGED <<running, disk>>
  PROVE  \E j \in JobIds : Lifecycle!Resume(j)
<1>1. work[w] \in JobIds /\ Lifecycle!Holding(work[w])
  BY OwnerHolds DEF Owning
<1>2. StateOf[work[w]] = "retrying"
  BY <1>1 DEF IInv, ThreadsOK, Backing, StateOf
<1>3. /\ StateOf' = [StateOf EXCEPT ![work[w]] = "running"]
      /\ AttemptOf' = [AttemptOf EXCEPT ![work[w]] = AttemptOf[work[w]] + 1]
  BY <1>1, RecordChanges DEF AttemptOf
<1>4. Lifecycle!Resume(work[w])
  BY <1>1, <1>2, <1>3 DEF Lifecycle!Resume, StateOf, AttemptOf
<1> QED
  BY <1>1, <1>4 DEF Lifecycle!Resume

\* A save that reaches the file publishes the state of the record; the record of
\* an end is saved by a thread whose job is in no map any more.
LEMMA SavePublishes ==
  ASSUME IInv, NEW w \in Workers, pc[w] \in {"start", "retry", "resume", "final"},
         Saved(work[w]), UNCHANGED <<rec, running>>
  PROVE  \E j \in JobIds : Lifecycle!Publish(j)
<1>1. work[w] \in JobIds
  BY DEF IInv, TypeOK, ThreadsOK
<1>2. StateOf[work[w]] \in States
  BY <1>1 DEF IInv, ThreadsOK, Calling, Backing, Leaving, StateOf, States
<1>3. StateOf[work[w]] \in Terminal => \A k \in Keys : running[k] # work[w]
  BY <1>1 DEF IInv, ThreadsOK, Gone, Calling, Backing, StateOf, Terminal
<1>4. disk' = [disk EXCEPT ![work[w]] = StateOf[work[w]]]
  BY <1>1 DEF Saved, StateOf
<1>5. StateOf' = StateOf /\ AttemptOf' = AttemptOf
  BY DEF StateOf, AttemptOf
<1>6. Lifecycle!Publish(work[w])
  BY <1>1, <1>2, <1>3, <1>4, <1>5
     DEF Lifecycle!Publish, Lifecycle!Terminal, Lifecycle!Holding, States, Terminal, StateOf, AttemptOf
<1> QED
  BY <1>1, <1>6

LEMMA PopReleases == ASSUME IInv, NEW w \in Workers, Pop(w) PROVE \E k \in Keys : Lifecycle!Release(k)
<1>1. pc[w] = "pop"
  BY DEF Pop, Goto
<1>2. work[w] \in JobIds /\ KeyOf(w) \in Keys /\ StateOf[work[w]] \in Terminal
  BY <1>1 DEF IInv, TypeOK, ThreadsOK, Leaving, KeyOf, StateOf
<1>3. running[KeyOf(w)] = work[w]
  BY <1>1 DEF IInv, Registered, Owning
<1>4. running' = [running EXCEPT ![KeyOf(w)] = NoJob] /\ disk' = disk /\ StateOf' = StateOf /\ AttemptOf' = AttemptOf
  BY DEF Pop, KeyOf, StateOf, AttemptOf
<1>5. Lifecycle!Release(KeyOf(w))
  BY <1>2, <1>3, <1>4 DEF Lifecycle!Release, Lifecycle!Terminal, Terminal, StateOf, AttemptOf, JobIds
<1> QED
  BY <1>2, <1>5

(***************************************************************************)
(* Every step                                                              *)
(***************************************************************************)
Mapped == Lifecycle!Next \/ Stutters

LEMMA CallMapped == ASSUME IInv, NEW w \in Workers, CallStep(w) PROVE Mapped
<1> DEFINE n == rec[work[w]].attempt
<1>1. pc[w] = "call" /\ UNCHANGED <<running, disk>>
  BY DEF CallStep, CallSucceeds, CallRaises, Raises, CallErrs, Goto, lockVars
<1>2. ASSUME NEW s \in {"completed", "failed", "cancelled"}, SetRecord(work[w], s, n) PROVE Lifecycle!Next
  BY <1>1, <1>2, EndsJob DEF Owning, Lifecycle!Next
<1>3. CASE UNCHANGED rec
  BY <1>1, <1>3 DEF Stutters, StateOf, AttemptOf, Mapped
<1>4. ASSUME NEW code \in Codes, CallErrs(w, code) PROVE Mapped
  BY <1>2, <1>3, <1>4 DEF CallErrs, Mapped
<1> QED
  BY <1>2, <1>4 DEF CallStep, CallSucceeds, CallRaises, Raises, Mapped

LEMMA RunMapped == ASSUME IInv, NEW w \in Workers, RunStep(w) PROVE Mapped
<1> USE DEF Mapped
<1>1. CASE Started(w) \/ RetrySaved(w) \/ ResumeSaved(w)
  <2>1. pc[w] \in {"start", "retry", "resume"} /\ Saved(work[w]) /\ UNCHANGED <<rec, running>>
    BY <1>1 DEF Started, RetrySaved, ResumeSaved, Goto, lockVars, tokenVars
  <2> QED
    BY <2>1, SavePublishes DEF Lifecycle!Next
<1>2. CASE StartFails(w)
  BY <1>2 DEF StartFails, SaveFails, lockVars, tokenVars, Stutters, StateOf, AttemptOf
<1>3. CASE RetryFails(w) \/ ResumeFails(w)
  <2>1. /\ pc[w] \in {"retry", "resume"} /\ UNCHANGED <<running, disk>>
        /\ SetRecord(work[w], "failed", rec[work[w]].attempt)
    BY <1>3 DEF RetryFails, ResumeFails, Raises, SaveFails, Goto, lockVars, tokenVars
  <2> QED
    BY <2>1, EndsJob DEF Owning, Lifecycle!Next
<1>7. CASE Backoff(w)
  <2>1. pc[w] = "backoff" /\ rec[work[w]].attempt <= Retries /\ UNCHANGED <<running, disk>>
    BY <1>7 DEF Backoff, Goto, lockVars, IInv, ThreadsOK
  <2> QED
    BY <1>7, <2>1, BackoffRetries DEF Backoff, Lifecycle!Next
<1>4. CASE WaitEnds(w)
  <2>1. pc[w] = "wait" /\ UNCHANGED <<running, disk>>
    BY <1>4 DEF WaitEnds, Goto, lockVars, tokenVars
  <2>2. CASE SetRecord(work[w], "cancelled", rec[work[w]].attempt)
    BY <2>1, <2>2, EndsJob DEF Owning, Lifecycle!Next
  <2>3. CASE SetRecord(work[w], "running", rec[work[w]].attempt + 1)
    BY <2>1, <2>3, WaitResumes DEF Lifecycle!Next
  <2> QED
    BY <1>4, <2>2, <2>3 DEF WaitEnds
<1>5. CASE Pop(w)
  BY <1>5, PopReleases DEF Lifecycle!Next
<1>6. CASE Final(w)
  <2>1. pc[w] = "final" /\ UNCHANGED <<rec, running>>
    BY <1>6 DEF Final, Goto, lockVars, tokenVars
  <2>2. CASE Saved(work[w])
    BY <2>1, <2>2, SavePublishes DEF Lifecycle!Next
  <2>3. CASE SaveFails("final")
    BY <2>1, <2>3 DEF SaveFails, Stutters, StateOf, AttemptOf
  <2> QED
    BY <1>6, <2>2, <2>3 DEF Final
<1> QED
  BY <1>1, <1>2, <1>3, <1>4, <1>5, <1>6, <1>7 DEF RunStep

LEMMA MappedNext == ASSUME IInv, Blank, [Next]_vars PROVE [Lifecycle!Next]_(Lifecycle!vars)
<1>1. Stutters => UNCHANGED Lifecycle!vars
  BY DEF Stutters, Lifecycle!vars, StateOf, AttemptOf
<1>2. ASSUME NEW w \in Workers, NEW k \in Keys, Enter(w, k) \/ Skip(w, k) PROVE Lifecycle!Next
  BY <1>2, EnterStarts, SkipSkips DEF Lifecycle!Next
<1>3. ASSUME NEW w \in Workers, CallStep(w) \/ RunStep(w) PROVE Mapped
  BY <1>3, CallMapped, RunMapped DEF Mapped
<1>4. ASSUME NEW c \in Cancellers, CancelStep(c) PROVE Stutters
  BY <1>4 DEF CancelStep, CancelDevice, CancelId, CancelAll, CancelToken, Snapshot, lockVars, tokenVars,
              Stutters, StateOf, AttemptOf
<1>5. CASE Crash
  <2>1. Lifecycle!Restart
    BY <1>5 DEF Crash, Lifecycle!Restart, StateOf, AttemptOf
  <2> QED
    BY <2>1 DEF Lifecycle!Next
<1>6. CASE UNCHANGED vars
  BY <1>1, <1>6 DEF vars, Stutters, StateOf, AttemptOf
<1> QED
  BY <1>1, <1>2, <1>3, <1>4, <1>5, <1>6 DEF Next, Mapped

\* The runner implements the documented life cycle: whatever threads, cancellers,
\* failing saves and crashes do, the records, the keys and what a reader of the
\* files sees move only as the diagram allows.
THEOREM RunnerImplementsLifecycle == Spec => ImplementsLifecycle
<1>1. Init => Lifecycle!Init /\ Blank
  BY MappedInit
<1>2. IInv /\ Blank /\ [Next]_vars => Blank' /\ [Lifecycle!Next]_(Lifecycle!vars)
  BY BlankStep, MappedNext
<1> QED
  BY <1>1, <1>2, InitIInv, NextIInv, PTL DEF Spec, ImplementsLifecycle, Lifecycle!Spec
=============================================================================
