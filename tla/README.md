# Linkplane in TLA+

This directory is a verification development for Linkplane: TLA+ modules that
model the parts of the program where threads, processes, files and devices meet,
TLC configurations that check them on small instances, and theorems whose proofs
TLAPS checks for every value of the constants. Line numbers are those of the
code beside it; `PROJECT.json` maps every definition to the lines it stands for.

## 1. Inventory of the system

Linkplane connects a computer to Android phones over `adb` and `ssh`. Commands of
the `linkplane` tool run once and exit; several may run at once. The daemon
(`linkplane daemon`) stays: it observes phones, turns what changes into events,
numbers and stores the events, sends them to clients, fires the rules that match
them, and answers the local HTTP API. The daemon's threads share memory; the
commands share the phone and the user's files, mostly without a lock.

```
 adb server ──> Observer ──events──> Daemon._sink ──> HistoryWriter (history.jsonl)
                (tracker thread,        │        ├──> Subscriber queues ──> socket watch, HTTP streams
                 main loop)             │        └──> state.json
                                        └──> _rule_queue ──> rules thread ──> pool of firings
                                                                  │                │
                                              cancel_device <─────┘                v
        HTTP requests ──> checks ──> API executor threads ──> JobRunner <── backup, send, clipboard-sync
                            ^                                   └──> jobs/*.json, audit.jsonl
        clients.json ───────┘ (cache by modification time)

 commands: pair, refresh, remove ──> config.json (locked)     backup ──> folder and manifest
           clients, presets ──> clients.json, rules (unlocked)   setup, uninstall ──> unit, daemon, files
           find, photo, notify, screen, webcam, clipboard, send ──> the phone, the screen, a process
```

| Component | State it keeps | Operations | What is hard | What makes it correct |
|---|---|---|---|---|
| Job runner (`jobs.py`, `operations.py`) | `_running`, `_by_id`, `_running_ids`, tokens, one record file per job | `run`, `cancel`, `cancel_device`, `cancel_all`, `wait_idle` | two requests for one key; cancel against retry; a record write that fails; restart over old records | one job per key; no leaked entry; the records follow the diagram; a cancelled job stops |
| Observer (`observe.py`, `core/state.py`) | the states of the devices, the baseline flag, two locks | `on_tracker_snapshot`, `poll_once`, `_apply`, `run` | a slow poll overlapping a disconnect; the opening observation; polls that fail | states follow the tracker; events agree with states; a connection opens once |
| Event stream (`daemon.py`, `history.py`, `api/server.py`) | sequence counter, history file, subscriber list and queues | `_sink`, `add_subscriber`, `stream_events`, socket `watch`, `last_seq` | two producers without a lock; replay overlapping live; full queues; stop and crash | each event at most once per connection, in order, none missing; numbers not reused; streams end |
| Rules engine (`core/automation.py`, `automations.py`, `actions.py`, `daemon.py`) | rules, cooldowns, rules queue, pool, `fired`, audit file | `select`, `fire`, `reload_rules`, `_run_rules`, stop | reload during events; a rule that raises; long jobs in a small pool; stop while firings run | cooldowns hold; every firing is accounted for; a disconnect cancels; the stop is quiet |
| Daemon shell (`daemon.py`) | `state.json`, socket, discovery file | `_claim_socket`, `_write_snapshot`, `run` | check-then-act on the socket; a shared temporary file; the order of the stop | one daemon per socket; the snapshot is always whole |
| HTTP API (`api/server.py`, `api/security.py`, `api/actions.py`, `api/execute.py`) | executor pool, audit, record files read | the checks of a request, actions, `_start_job`, `cancel_job` | a start that times out and runs later; answers from a record read earlier; the wrong phone | an answer is true of what became of the request; every request is answered |
| API clients, presets (`clients.py`, `presets.py`) | whole files, replaced atomically; an mtime cache in the daemon | create, revoke, enable, disable | read-modify-write by several processes, no lock | no change is lost; a revoked client stays revoked |
| Profiles (`profiles.py`) | `config.json` under a file lock | pair, refresh, remove, select | a scan that takes long before the lock is taken; phones that change address | an update applies to the file as it is; the file stays loadable; an address goes to the phone that has the profile's serial |
| Backup (`backup.py`) | the destination folder, its manifest, two shared temporaries | discover, plan, pull, verify, publish, record, adopt | crash between a file and its record; two runs in one folder; user edits | a user's file is never overwritten; what is skipped is current; what was pulled is recorded |
| Transfer (`transfer.py`) | none; the items that arrived | send over ADB, hand to LocalSend | an interruption that also fails the push | the answer says how far it got |
| Clipboard (`clipboard.py`) | the last value seen on both sides | get, set, pull, push, sync | a copy between read and write | its own text never comes back over a newer copy |
| Webcam (`webcam.py`) | `webcam.json`, a detached process | start, stop | two starts; a save that fails after the start | the file names the process that runs |
| Camera, audio, screen, notification, find | the ringer, temporary photos, a notification | a few external calls each, with clean-up | a call that was done but reported lost; clean-up on each exit | nothing left raised, behind or doubled |
| Transports, providers | none | selection of a phone, capability reports, command lines | reports that age | the right phone |
| Dependencies, setup, service, uninstall | the unit, the daemon, configuration and state files | phases of setup and uninstall, `systemctl`, package managers | a daemon that starts or stops meanwhile; a daemon that has closed its socket and goes on writing; a phase that fails and is run again | a ready setup serves the phone; nothing is removed beneath a daemon |
| Registry, devices, doctor, status, projections, CLI | none | reports and rendering | - | - |

`PROJECT.json` lists every component with its status and every hazard of the
code at its line, with the properties that would catch it or the reason why
nothing does.

## 2. The modules

| Module | Models |
|---|---|
| `JobLifecycle` | what the job layer promises: the documented state diagram, keys, and when a reader may see what |
| `Jobs` | `JobRunner` step by step; implements `JobLifecycle` |
| `JobsProofs` | the inductive invariant of `Jobs`, its theorems, and the proof that it implements `JobLifecycle` |
| `DeviceDiff` | `diff` and `DeviceState` as operators |
| `Observer` | the tracker thread and `poll_once` over the ADB server's list |
| `ObserverProofs` | what `diff` emits, the invariant of the two threads, its theorems |
| `EventStream` | the sink, the history, subscribers and streams, with stop and crash |
| `EventStreamProofs` | its three safety properties: numbers, order, nothing missed |
| `Rules` | condition matching and blocked rules, as operators |
| `Automations` | rules queue and thread, reload, cooldowns, pool, firings, the jobs they start, the daemon stop |
| `AutomationsProofs` | its three safety properties: the stop, cooldowns, firings |
| `Providers` | the choice of a phone and of a provider from what the computer sees, as operators |
| `Api` | requests, their checks, action execution, job start and cancellation over `JobLifecycle` |
| `ApiProofs` | its invariant and three safety properties |
| `Commands` | what single commands share: steps, answers, the three outcomes of a call |
| `Find`, `Capture`, `Notify`, `Sessions`, `Webcam`, `Clipboard`, `Transfer` | one command or group of commands each |
| `Dependencies` | which package manager would install a program, and the two ways a command asks for it |
| `Operations` | the composition of these commands on one phone and one computer, and their properties |
| `OperationsProofs` | what each command leaves alone, and the eight properties |
| `Profiles`, `Records` | the commands on `config.json`; those on `clients.json` and the rules file, with the daemon's cache |
| `Configuration` | the composition of the two, and their properties |
| `ConfigurationProofs` | what each command leaves alone, and the four properties; then the two of `Installation` |
| `Services`, `Setup`, `Uninstall` | the unit, the daemon and the files; the phases of the two commands |
| `Installation` | their composition, and their properties |
| `Backup`, `BackupProofs` | runs of `linkplane backup` into one folder; the inductive invariants and theorems about them |
| `MC*` | the instances TLC checks |

Each module models the whole handler at the grain at which another thread or
process can see or disturb it: one action per critical section, per file write
and per call that may block. What a thread does under one lock is one action.

**Jobs.** A thread in `run()` has a `pc`: `start` (registered, first record not
yet written), `call` (in the service), `backoff` (the token has been asked, the attempt will
be retried), `retry`, `wait`, `resume` (around the backoff), `pop` (the `finally` clause) and `final` (the last write). `running` and
`byId` are the maps under `_lock`; `rec` is the record the thread holds and
`disk` what the record file says. `Enter` is the locked section of `run()` when the
key is free, `Skip` when it is not. Every save has a second outcome in which it
raises (`FailingSaves` says which may). A cancel first takes a snapshot of tokens
under the lock (`CancelDevice`, `CancelAll`, `CancelId`) and then sets them one by
one (`CancelToken`), because `cancel_device` and `cancel_all` release the lock in
between. `Crash` loses the maps and threads and keeps the files. What the service
returns is open: it may succeed, fail with a code that may be retried or not,
report a cancellation, or raise, whether it was cancelled or not. The token is asked in
`CallErrs` and the record becomes `retrying` in `Backoff`, a step later: a cancel between the two
lets the thread into the wait, which ends at once. `stopped` is a history variable: the jobs that
were cancelled while another attempt could still be prevented.

**Observer.** The ADB server changes a device's state and puts a frame on the
tracker's stream (`AdbChanges`). `TakeFrame` to `FrameDone` are
`on_tracker_snapshot` for one frame; between reading a present device, applying
it, listing the absent ones and writing them other steps interleave, as the code takes
`_lock` for each. `StartPoll` copies the states under the poll lock, `Poll` reads the
device, `Apply` compares and stores, `Sink` hands over one event at a time,
`EndPoll` releases. The tracker polls after each frame, the timer when it fires.
`view` is what a subscriber knows that only reads events, `openings` counts the opening
battery observations of a connection: both are history variables.

**EventStream.** `Observe` stamps an event and the following actions write its
history line, list the subscribers and offer it to each queue; both producers do
so without a lock between them. A client connects over HTTP (`Connect`, with
the cursor it sends) or the socket (`ConnectSocket`); a stream subscribes
first, then replays history lines, then reads its queue and skips what
`lastSent` covers. The queue is bounded and drops. `ObserverStops`,
`CloseSubscribers` and `StartClosing` are the stop; `Crash` restarts with
`LastSeq` of the file. The tracker thread may still be in the sink when the
observer stops: it is joined for at most 3 s.

**Automations.** `Sink` puts an event on the bounded queue if any rule is loaded or
the event is a disconnect, and drops it when there is no room. The rules thread
takes it (`Get`, which includes `cancel_device` for a disconnect), selects
(`SelectRules`) and submits one firing at a time (`Dispatch`). A worker runs the steps
of a firing; a job action occupies it until the job ends. `ReloadFile` and
`ReplaceRules` are the two stores of `reload_rules`. `Observed` to `CloseAudit` are
`run()` after the observer has returned. A job is reduced to the entry of its key
(`free`, `running`, `cancelled`): `Jobs` is the detailed model of it.

**Api.** A request has a handler thread. `Check` goes through the header checks and
those of the endpoint in the order of the code and answers with the first that fails;
`Execute` resolves the provider and its capability, `RunImmediate` runs a service on the
handler's thread, `Submit`, `SeeStarted` and `StopWaiting` are `_start_job` with its
timeout. `WorkerTakes` and `OnStarted` are a thread of the executor's pool; what it does
with the runner is an `INSTANCE` of `JobLifecycle`, which `Jobs` implements, so the API is
checked against any runner that keeps that promise. `CancelRead` and `CancelToken` are
`cancel_job`: a decision on the record file, then on the maps. `Close` is the stop.

**Commands and Operations.** A command is a process at a step; `memo` is what it read
earlier and uses later. A call to the phone has three outcomes: done, lost, and `unsure`, when
it was done and reported as failed because the time ran out. Each of `Find`, `Capture`,
`Notify`, `Sessions`, `Webcam`, `Clipboard` and `Transfer` gives the steps of its command from
the source, with the clean-up of its `finally` clauses as steps of their own; `Operations` runs
two of them over one phone (ringer, notifications, photos, clipboard) and one computer (files,
webcam process, packages), beside a user who copies, saves, interrupts and closes a camera.
`Require` and `Ensure` of `Dependencies` are the two ways in which screen, audio, preview, the
webcam and the torch of `find` get scrcpy or the loopback module; `ran` has the commands that
started a package manager.

**Configuration.** `Profiles` has the three pairings, the refresh with its subnet scan,
removal and selection. What a command asks a phone before it takes the file lock is in
`memo`; `update_config` is one step, because it holds the lock from reading to saving. For each
profile a refresh takes several steps: `RefreshTarget` (a serial that adb reported, or what the scan found),
`RefreshRoute` (whichever phone is behind that serial now names its address) and one `RefreshConnect` per
alias (whichever phone answers there now). Phones move between addresses (`Roams`) between any two of them. `Records` has create, revoke, enable and disable,
each as a read, a write of the temporary and a move, since these files are not locked; and the
daemon's lookup of a token, in its three steps (stat, read, decide). A tick is the resolution
of modification times: two saves may fall into one.

**Installation.** One step per phase of `_Run.run` and of the uninstall; more where another
process may come between: the name of a phone is asked for between reading the config
(`Register`) and pairing (`Pair`), a `systemctl` call that stops the service is begun and then waited for, and
the purge goes root by root (`PurgeRoot`). `UnitStarts` is systemd, `Interference` the user or a crash, `Replug`
a cable or a tap on Allow. What answers on the socket (`daemon`) and the processes (`process`)
are two things: a daemon that is told to stop goes from `told` over `closing` (its servers are closed)
to `leaving` (it has unlinked whatever socket was there, its own or another daemon's) and writes its snapshot,
job records and audit until its jobs have ended. A daemon that answers remembers the profiles it read when it
started and which commands had looked for one before (`during`); `since` are the commands that had begun
when the unit's last process started and have not stopped it since. `lost` is a history variable: the setups whose
profile an uninstall has removed.

**Backup.** A run discovers, loads the manifest, plans, and takes the pending files in order:
remote checksum, pull into the shared part file, verify, publish, record; then the untracked
ones (adopt or keep). `Crash` may come between any two steps, `PhoneEdits` and `FolderEdits`
too. `hurt` and `late` are history variables: that a crash, a failed save or an overlap
occurred, and which names another hand has changed since a run made its plan. A name may hold a link, to nothing or to
a file with the bytes of some version: `is_unchanged` follows it (`Held`), `ensure_inside` refuses it (`IsLink`).

### Abstractions

- `Jobs`: a job's identity stands for its id, automation, actor and times; at most
  `MaxJobs` jobs are ever made. Audit callbacks are left out.
- `Observer`: a battery reading is a level and whether power is connected. When a
  poll returns is up to the scheduler; a failed poll is an outcome of any poll.
  `ViewFollowsState` does not speak of Wi-Fi: the code stores a failed Wi-Fi poll
  as "no network", so no property of that field holds.
- `EventStream`: one daemon and one client at a time in the runs; comment
  frames and the write of the state snapshot are left out; filters are one set
  of wanted types.
- `Automations`: jobs that API clients start are left out, as are placeholders;
  `Get` does the pop and `cancel_device` in one step, since nothing but the rules thread
  looks at the popped event; a step's own `if` may be met or not.
- `Api`: one device, so the key of a job is its action; a request's content is the set of
  what is wrong with it; two statuses stand for those of a failed service.
- `Operations`: a text or photo is a number or the name of the command that made it.
- `Profiles`: a phone is its hardware serial, an address is `host:port` and the SSH host. A move is noted by a count (`roams`), which is
  how the property knows that no phone moved between two steps.
- `Records`: a token is named by the command that made it; hashing is taken to be injective.
- `Installation`: reports and dialogue texts are left out; packages are in `Dependencies`.
- `Backup`: a file's bytes and time are the number of its version, so checksums are
  injective and a version never comes back; free space and errors are outcomes.

## 3. The runs

| Run | Expect | Question |
|---|---|---|
| `jobs` | pass | two threads, two devices, a canceller, failing writes, a crash: the properties of the runner, and `JobLifecycle` |
| `event_stream` | pass | delivery, numbering and the end of streams under reconnects, full queues, stop and crash |
| `observer` | pass | states, events and opening observations under both threads, and that the tracker catches up |
| `automations` | pass | cooldowns, firings, audit, the pool, the cancellation by disconnect, the stop |
| `operations` | pass | two commands on one phone, each call of which may fail: what is left or doubled, and what trying again repeats |
| `api` | pass | three requests, every check, action and set of providers: what answers and the audit say, and that an answer comes |
| `backup` | pass | backups in sequence and at once, with crashes and edits: what is skipped, overwritten and recorded |
| `configuration` | pass | commands that change profiles, clients and rules at once, phones that move: what survives and who is let in |
| `installation` | pass | setups and uninstalls from every unit, daemon and configuration: what serves, what is removed |
| `daemon_stop` | violation | whether the stop cancels every running job |
| `api_accepted` | violation | whether a job whose cancellation was accepted ends cancelled |
| `setup_rerun` | violation | whether a ready setup has an enabled service |

### What the properties say

The comment above each property in its module states it and names the code.

- Jobs: no two threads run one (device, action) (`OneJobPerKey`); a registered key has a
  thread that will remove it, unless the first write of its record failed
  (`OnlyUnsavedLeaks`); a client that reads an ended record can start again at once
  (`EndedMeansFree`); the attempt under way when a job is cancelled, or the one whose retry
  is being prepared, is its last (`NoAttemptAfterCancel`), and a cancelled job that has a record ends (`CancelEndsJob`); `Jobs` refines
  `JobLifecycle` (`ImplementsLifecycle`).
- Event stream: while the producers did not overlap in the sink a connection gets each event
  once, in order (`OncePerConnection`), and none is missing after its cursor unless its queue
  was full (`NoEventMissed`); a number names one event for ever (`SeqNamesOneEvent`); closed streams end
  (`StreamsEnd`).
- Observer: `ConnectionFollowsTracker` and `ViewFollowsState` hold while no timer poll
  overlapped a frame (`frameDuringPoll`); `TrackerCatchesUp` always.
- Automations: `CooldownHolds` across reloads; `FiringsAccounted`: a selected firing is
  in exactly one place; `StoppedIsQuiet`; `PoolNeverStarves`; `DisconnectCancels`.
- Operations: `RingerRestored`, `NothingLeftBehind`, `NotifiedOnce`, `SinkIsTracked`,
  `RetryRepeatsNothing` (the answer that makes `JobRunner` try again comes before anything was done),
  `PublishedFaithfully`, `NoEcho`, `SendTells`. Each names the outcomes under
  which the code cannot know better (an `unsure` call, two commands that overlap).
- Api: an answer that refuses means that nothing runs, now or later
  (`RefusedRunsNothing`; a 5xx "did not start in time" is the exception); the audit agrees with the
  answer and with what ran (`AuditTellsOutcome`); an action reaches the phone it names
  (`RightPhone`); every request is answered (`EveryRequestAnswered`).
- Backup: `SkippedIsCurrent` and `ForeignKept` whatever crashes or overlaps;
  `CompleteAtEnd` and `NothingOrphaned` unless a run crashed or overlapped another.
- Configuration: a config that loads stays loadable but for a refresh
  (`ConfigStaysUsable`); what a command saves leaves the rest as it is
  (`ChangesSurvive`); where a hardware serial tells whose address is saved, it is that phone's
  (`RightPhone`, which names the exceptions: see the known limits); a revoked
  token is refused (`RevokedIsRefused`).
- Installation: a setup that registered a phone and installed the service verifies it with a
  daemon that has read the profile (`ReadyDaemonServes`, which names the exceptions); an uninstall removes nothing beneath a
  daemon that answers, nor, if its stop of the service succeeded, beneath a process of the service, unless
  that was started after it looked (`NothingRemovedBeneath`).

Every property of a passing run has a mutant in `PROJECT.json`: a change of one
definition, of the kind a mistaken edit of the code would make, under which TLC
finds the property violated.

### Bounds, and why they are enough

- `jobs`: two threads and two keys are what mutual exclusion and "cancel this
  device, not that one" need; two jobs make a duplicate and a restart after an
  end; one retry makes both the retry and the attempt that is the last; one
  crash. The jobs of a run are interchangeable, and a third adds no new pair.
- `event_stream`: two events are what order and duplication need; a queue of two
  holds a sentinel and an event behind it, and is full with one more; two connections of one
  client make a reconnection with a cursor; two kinds of event, of which one is wanted, make a
  gap in the numbers seen.
- `observer`: devices do not interact in the code (each is compared and stored by
  itself), so one is enough; two changes make a disconnect and a reconnect or an
  authorisation; of levels 10 and 20 one is below the threshold of 20 and one at it; one timer
  poll is enough to overlap any frame.
- `automations`: two workers with one key and two rules that want it make the
  duplicate; a queue of one fills; a clock of one tick makes a rule with a
  cooldown of one fire, be held back, and fire again; one reload changes the rule set
  between two events. In this run the stop's join of the rules thread does not time out
  (`JoinMayTimeOut = FALSE`); `daemon_stop` has the time-out.
- `operations`: commands that share something (two finds, two captures, two webcam
  commands) run in pairs, the others beside a short dry run; ringer levels 1 to 3 are below,
  and at, the loudest; two items have a first and a last; two copies make a text that is overtaken.
- `api`: two requests for one key and a cancellation of the first; or one request of
  each action, on each combination of serial and endpoint, against each set of at most two phones;
  or one with any two faults. A pool of one thread makes a job wait.
- `backup`: three runs in sequence over two files with two phone edits and one in the folder; two that overlap
  over two files; two that overlap over one file, with an edit on each side. Three versions make
  a file that changes during a pull and again before the next. The two processes are
  symmetric, and every property is a safety property, so the symmetry is sound.
- `configuration`: two commands on two profiles, two phones and two addresses, with up to two
  moves; three commands on clients or rules with up to two ticks.
- `installation`: two commands, the second after or beside the first; one act of the user or
  one change of a cable; every unit file and daemon version; one daemon of the user at a time, beside the unit's, which is what it takes
  for the end of one to unlink the socket of the other.

### Deadlock and fairness

Deadlock is checked in `jobs`. The other specifications say
`CHECK_DEADLOCK FALSE` because the system may really stop: the daemon ends, the commands
are over, or the bounded number of events, frames or connections is used up.

Fairness is weak and per thread. A thread that is not waiting runs
(operating-system scheduling); a delay ends (`_wait` sleeps a bounded time); a
poll returns (the providers run subprocesses with timeouts); a cancelled service
returns at its next boundary (`check_cancelled` in `operations.py` and its callers); an API
handler's waits are bounded (subprocess timeouts, `JOB_START_TIMEOUT`).
Nothing makes an uncancelled call end, a client leave or stay, a daemon stop, a pool thread
become free, or a timer poll come. In `Observer` a lock that is released becomes free for good after at most
`MaxPolls` timer polls, so that weak fairness of the waiting thread is enough; in the code
the timer is a minute apart.
`DisconnectCancels` and `PoolNeverStarves` are about a daemon that is not
stopping and a rules file with fewer long-lived jobs than workers. The commands have no
liveness property and no fairness: a crash or a kill may end each of them anywhere.

## 4. Findings

1. `daemon_stop` (`daemon.py:634`): a firing can start a job after `cancel_all`, and the
   pool's shutdown waits for it without a limit, where `docs/state-machines.md:55` says that the stop
   cancels every running job and waits up to 10 s.
2. `api_accepted` (`api/server.py:439`): a 202 promises that the job will reach `cancelled`, but a
   service past its last boundary completes, or fails of something else.
3. `setup_rerun` (`setup.py:604`): a setup whose `enable --now` failed leaves the unit file; the next
   one takes it for an installation, starts the service and says ready, but never enables it.

Known limits of the code that are not runs of their own. Where a name is given in brackets,
the property concerned makes an exception by that name; without it TLC has a counterexample.
The others are outside what the instance's inputs reach, as said:

- the first record of a job is saved outside the `try` that removes the entry (`jobs.py:209`): the
  key is then blocked until a restart (`OnlyUnsavedLeaks`);
- the two producers of events are not serialised (`daemon.py:482`): a connection can get a later number
  first (`overlapped`); one the observer no longer waits for offers behind the end-of-stream sentinel (`daemon.py:617`);
- a poll that began before a disconnect stores the device as connected (`observe.py:224`, `frameDuringPoll`);
- a condition with a quoted number, `{"below": "15"}`, passes the parser and ends the rules thread at the
  first event it is compared with (`core/automation.py:176`, the action `Dies`); the checked rules files have none;
- two concurrent reloads can leave `Daemon.rules` and the engine's rules different (`daemon.py:436`); the run has one reloader;
- a refresh neither validates what it saves nor checks whose profile has the name by then (`profiles.py:602`);
- `clients.json` and the rules file are not locked (`raced`), and two replacements within one timestamp
  hide a revocation (`sameTick`);
- a rule's `send` for a phone without an ADB serial falls back to LocalSend when none is attached, and a batch that LocalSend breaks off answers
  `transport_unavailable`, which `JobRunner` retries: what had arrived is sent again; a notification that falls back to SSH is the
  same for a caller that tries again (`SecondWay`; `transfer.py:389`);
- in a refresh nobody asks the phone that answers at a new address for its serial: after a move between `ip route` (`profiles.py:696`)
  and `adb connect` (`:732`) another phone's address is saved (`Unmoved`), and a profile that is reached at a stored address takes
  whichever phone is there now for its own (`sure`);
- an uninstall sees the daemons that answer: one of the user's that is ending, one whose socket another daemon's end unlinked
  (`daemon.py:627` unlinks what is there) and the unit's after a `disable` that failed or timed out (`service.py:79`) go on writing while their
  state is removed (`NothingRemovedBeneath` speaks of the others);
- `systemctl start` does nothing while the unit's daemon is still ending (`Starting`), so a setup then waits for a daemon in vain;
- a find with `--torch --install` runs the package manager while the phone rings (`find.py:240`); installing the loopback module never lets a
  webcam start go on, as the module is no program that could then be found (`dependencies.py:259`);
- `stop_webcam --dry-run` removes a malformed state file; two webcam commands at once, or a save that
  fails, leave a process no file names (`raced`, `unsaved`); two finds at once may leave the ringer raised (`adrift`).

## 5. Proofs

The theorems hold for any value of the constants that satisfies the named assumptions: any sets of threads, clients,
devices, files, commands, requests and rules, any bounds, and any set of worlds (initial states) the assumptions admit.

| Module | Theorem | States |
|---|---|---|
| `JobsProofs` | `TypeCorrect` | `Spec => []TypeOK` |
| | `MutualExclusion` | `Spec => []OneJobPerKey` |
| | `EndedJobsAreFree` | `Spec => []EndedMeansFree` |
| | `LeaksAreUnsaved` | `Spec => []OnlyUnsavedLeaks` |
| | `EntriesAreRemoved` | `Spec => []NoLeakedEntry`, if the first write cannot fail |
| | `CancelledAttemptIsLast` | `Spec => NoAttemptAfterCancel` |
| | `RunnerImplementsLifecycle` | `Spec => ImplementsLifecycle` |
| `EventStreamProofs` | `NumbersAreUnique` | `Spec => []SeqNamesOneEvent` |
| | `DeliversInOrder` | `Spec => []OncePerConnection` |
| | `NothingFallsBetween` | `Spec => []NoEventMissed` |
| `ObserverProofs` | `ConnectionFollows` | `Spec => []ConnectionFollowsTracker` |
| | `ViewFollows` | `Spec => []ViewFollowsState` |
| `AutomationsProofs` | `StopsQuietly` | `Spec => []StoppedIsQuiet` |
| | `CooldownsHold` | `Spec => []CooldownHolds` |
| | `FiringsAreAccounted` | `Spec => []FiringsAccounted` |
| `ApiProofs` | `RefusedDoesNothing` | `Spec => []RefusedRunsNothing` |
| | `AuditIsTrue` | `Spec => []AuditTellsOutcome` |
| | `ActionsReachTheirPhone` | `Spec => []RightPhone` |
| `OperationsProofs` | `RestoresTheRinger` | `Spec => []RingerRestored` |
| | `LeavesNothingBehind` | `Spec => []NothingLeftBehind` |
| | `PublishesFaithfully` | `Spec => PublishedFaithfully` |
| | `PostsAtMostOnce` | `Spec => []NotifiedOnce` |
| | `TracksTheSink` | `Spec => []SinkIsTracked` |
| | `RetriesRepeatNothing` | `Spec => []RetryRepeatsNothing` |
| | `SendsTell` | `Spec => []SendTells` |
| | `NeverEchoes` | `Spec => NoEcho`, if no world has two clipboard syncs |
| `ConfigurationProofs` | `StaysUsable` | `Spec => ConfigStaysUsable` |
| | `ChangesAreKept` | `Spec => ChangesSurvive` |
| | `AddressesAreRight` | `Spec => RightPhone` |
| | `RevokedAreRefused` | `Spec => RevokedIsRefused` |
| | `ServesWhenReady` | `Spec => ReadyDaemonServes`, of `Installation` |
| | `RemovesNothingBeneath` | `Spec => NothingRemovedBeneath`, of `Installation` |
| `BackupProofs` | `ForeignIsKept` | `Spec => ForeignKept` |
| | `SkippedFilesAreCurrent` | `Spec => SkippedIsCurrent` |
| | `EndsComplete` | `Spec => []CompleteAtEnd` |
| | `OrphansNothing` | `Spec => []NothingOrphaned` |

**Jobs.** `OneJobPerKey` is not inductive: it speaks of the threads only, and what keeps a
second thread out is the map. The invariant `IInv` adds that ids not made yet
are unused (`Fresh`), that a thread in `run()` has the job its `pc` says
(`ThreadsOK`), that no two threads have one job (`DistinctJobs`), that an owning thread's job is in
both maps under its own key (`Registered`), that a job past `pop` is in neither (`Gone`), that a
registered entry's job has that key (`KeysAgree`), and `EndedMeansFree` itself.
Then two owners of one key would both be its entry in `running`, hence one job, hence one
thread. `LeaksAreUnsaved` adds to `IInv` that a thread that has not made its first write has no
record (`NewUnsaved`). `EntriesAreRemoved` needs its assumption: without it the entry of a job whose first write failed stays.
`CancelledAttemptIsLast` is an action property and needs an invariant of its own, `StaysStopped`: the thread of a job that was
cancelled while another attempt could be prevented is never about to start one (`start`, `resume`). With it only the two steps that call the
service remain.

`RunnerImplementsLifecycle` is a simulation: the initial states map to initial states, and one lemma per action
of `Jobs` names the step of `JobLifecycle` it maps to, or shows that it is a stutter. `IInv` gives what a
step needs to know (whose entry the key holds, which record the thread has); `Blank`, that an id not handed out has no record yet,
is added, so that starting a job maps to a start.

**Event stream.** `Numbered` says that the counter is past every line, that a stamped event has a number no line has, and that
whatever a client has or will have is a line of the file; so numbers are unique even where producers overlap. `Ordered`
speaks of the time before an overlap: one producer at a time, whose event is the newest (`OneProducer`), and for each connection that
what it was sent, its dedup cursor, the replay still to come, its queue and the event still to be offered rise in this order
(`InLine`). `Complete` adds, for a connection that resumed after a cursor and whose queue was never full, that an event it is due is
sent, queued, about to be offered, or ahead of the replay (`OnItsWay`), and that the cursor `lastSent` skips only what was sent. It is
where subscribing before the replay is needed. `StreamAssumption` says that the producers differ and the bounds are numbers.

**Observer.** `Locking` says that a poll holds its lock. `InOrder` speaks of the time before a frame and a timer poll overlap: one thread
is at work (`OneAtWork`), what it has read still stands (`ReadStands`), the states agree with the ADB server up to the frame that is
being handled (`Followed`), each view shows the state, or will once the events in hand are read (`Shown`), and a connection has
opened at most once and has a reading then (`OpenedOnce`). The lemma `DiffLeads` is about the operator alone: for any two observations of a device
the events of `diff` lead a view that shows the first to one that shows the second. `ObserverAssumption` tells the threads apart.

**Automations.** `Shape` says where rules, events and firings may be, with ids in the order of the queue. `Quiet` adds that a
job of a rule has a worker that waits for it, and that a stop past the rules thread has closed and emptied the pool. `Timed` adds that
`lastFired` is not behind any firing of the rule and that events still to be selected are later than those that were. `Accounts`
says that each selected firing is in exactly one of five places, and that what was not selected is in none. That the rules of a file
have different names is needed here, and `load_rules` refuses a file where they do not (`AutomationsAssumption`).

**Api.** `IInv` pairs what a request's handler has written so far (`HandlerHolds`, with the seven ways to be `done` in `Outcome`) with
what may have become of its job (`JobHolds`): a queued or started job is that of a request that passed every check, and its
provider is the phone's own (`Own`). The jobs of rules have identities of their own, and a request is a cancellation or an action of the
table with a serial (`ApiAssumption`); a request without a serial is answered by an earlier check.

**Operations.** A frame lemma for each family of commands says which fields of the phone and the computer its steps leave alone (`FindFrame`
to `OutsideFrame`); with it every property needs only the lemmas of the commands it is about. The invariants: `Ringer`, one find at most
between reading the volume and putting it back, which has read the level there was; `Photos` and `Publishing`, a photo or part file has a capture
that will remove it, and what a capture has looked for is not there; `PostsOf` and `SendOf`, what one command knows at each step;
`Tracked`, a start or stop that is midway knows the only process; `Remembers`, a text that a sync remembers of a side is there
unless something was copied into it; `Fresh`, a command that looks for its phone has done nothing yet, and one
that answered `transport_unavailable` is over and has done nothing, unless it had handed over to a second way. `OperationsAssumption` says that each command's request is one the program takes. `Items` may be 0, as the API
accepts an empty list of paths: then an interrupted send is `cancelled` with nothing left to send, and `SendTells` allows for it.
`NeverEchoes` is about one sync, since what "was copied meanwhile" means is relative to the passes of a sync.

**Backup.** `ForeignIsKept` rests on `PlanHolds`: from the plan on, each name a run still has to pull either has a record in the
manifest it loaded, or is not there, or has been changed by another hand since; and the one it is pulling was no link when
`ensure_inside` looked, or has been changed since. The lemma `OthersHold` shows that a step of somebody else cannot break it,
as `late` grows by whatever it changes; one lemma per action of the run shows the rest. `SkippedFilesAreCurrent` rests on
`Recorded`: a record pairs a listed version with a checksum that is no older, because the listing is not ahead of the phone and the
checksum is read after it; no overlap or crash breaks that. `EndsComplete` and `OrphansNothing` rest on `Sequential`, which speaks of
the time before a crash or an overlap: one run is active, its part is its own, what it knows of the manifest is the manifest but for the record it is
saving (`Knows`), the file it records is what it put there (`Holds`), and what it has done with is up to date (`Settles`).
That `BackupAssumption` numbers the files gives a pending set a first element.

**Configuration.** Frame lemmas again say what a command leaves alone, and `Acts` that an answer is given by a command's last step
only. `StaysUsable` rests on `Defaulted` (the default is none or a profile there is) and on what a step may do to the profiles
(`ProfileChanges`: save one, apply a refresh, remove, select). `ChangesAreKept` adds that a profile keeps the form of one (`Recorded`) and, for
the files without a lock, that before an overlap one command at most is between reading and saving, and what it read is what the file says
(`ClientsKept`, `RulesKept`); `config.json` is read again under its lock, so there no such exception is needed. `AddressesAreRight` follows an address from the
probe that found it to the save (`Connected`, `OnWay`, `Routes`): the phone a refresh has in hand is the profile's where a hardware serial
says so, and as long as no phone has moved since it was asked (`seen` against `roams`) the address is still that phone's; so is what adb connects to. `RevokedAreRefused`
rests on three invariants of tokens: no save is later than the clock (`Clocked`), no two clients have one token (`Unshared`), and a
cache whose time is the file's time holds no revoked token unless two saves shared a tick (`CacheHolds`). `ConfigurationAssumption` says that
no serial is an address, two phones have two addresses, and tokens are not shared by the clients there are or will be.

**Installation.** Its commands have the variables of `Configuration`, so its proofs are there, about an instance of it. `Readying`: a
profile a setup has added is there unless an uninstall has removed it since (`lost`), and the unit's daemon has read it if there was none when the setup
began, or it has just been restarted; if there was one, the setup will restart it. A restart serves only once the process it stopped
has ended: a setup past `restarting` knows that it has, or that another has started since (`Ended`). `Clear`: an uninstall that found no daemon has none
before it, or one that came since. `Halted`: once the stop of the service has come back without an error, no process of the unit is left but one started
since, whether it answers or not. `Answering` ties the two views of a daemon together: what answers is a process that runs or was only just told to stop. Their hypothesis `Found` (assumed in `Installation`, and so evaluated in its runs) says only which fields units and daemons have and what
may be asked; the number of commands is open, where the run has two.

So every safety invariant, action property and refinement that a passing run checks is a theorem. Only model-checked: liveness under fairness
(`CancelEndsJob`, `StreamsEnd`, `TrackerCatchesUp`, `PoolNeverStarves`, `DisconnectCancels`, `EveryRequestAnswered`), as the prover has no rules
for `ENABLED`.

## 6. Plan

1. Daemon shell: the writers of `state.json` with their one temporary name, the socket claim of two daemons, the
   discovery file.
2. The rules endpoints of the API, and the composition of `Api` with the stop in `Automations`.
3. Pure algorithms over bounded inputs: device identification, batch listings,
   the parsing of a backup's listing, matching against the documented matching.
4. Proofs about what items 1 to 3 add; liveness stays with TLC.

## 7. Not modelled

- Command lines, parsing and rendering (transports, providers, CLI, projections, the OpenAPI document): stateless, and
  best served by the repository's own tests.
- Read-only reports (registry, devices, doctor, status, the read endpoints of the API): they read what other parts hold at one moment.
- The core vocabulary (capabilities, error codes, telemetry parsers): records and single values, used by the modules above.
- The pairing page and the socket's protocol commands other than `watch`.
- Legacy scripts and maintenance tools: not part of the running program.
- The parts under "Plan" that are not there yet.
