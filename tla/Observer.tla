----------------------------- MODULE Observer -----------------------------
(***************************************************************************)
(* Observer (observe.py): two threads keep the last observed state of each *)
(* device and sink the events between observations.  The tracker thread    *)
(* handles one frame of `adb track-devices` after the other and polls      *)
(* after each; the main loop polls on its timer.  _lock covers the         *)
(* comparison and the store of one state, _poll_lock a whole poll_once,    *)
(* and neither covers the time between reading a state and storing its     *)
(* successor, nor the sinking of the events.                               *)
(*                                                                         *)
(* The ADB server is external: `adb` is what it knows of each device and   *)
(* `frames` what it has sent and the tracker has not handled yet.  A poll  *)
(* of a device that answers returns any reading; a poll that fails gives   *)
(* no battery and no Wi-Fi.  Polls of battery and Wi-Fi are one step.      *)
(***************************************************************************)
EXTENDS DeviceDiff, FiniteSets

CONSTANTS
  Tracker, Main,  \* the two threads
  Devices,
  MaxChanges,     \* bound on the changes of the ADB server's list
  MaxPolls        \* bound on the timer polls of the main loop

Threads == {Tracker, Main}
Nobody == "nobody"

ASSUME ObserverAssumption ==
  Tracker # Main /\ Nobody \notin Threads /\ MaxChanges \in Nat /\ MaxPolls \in Nat

Absent == "absent"
AdbStates == {"device", "unauthorized", "offline", Absent}

VARIABLES
  adb,       \* adb[d]: what the ADB server knows of device d
  frames,    \* snapshots sent by the ADB server, oldest first
  changes,   \* number of changes so far
  polls,     \* number of timer polls so far
  states,    \* Observer.states, Unseen for a device that is not in it
  baseline,  \* the frame being handled is the tracker's first
  baselineSeen,  \* _baseline_seen
  frame,     \* the frame the tracker handles
  pollLock,  \* the thread that holds _poll_lock, or Nobody
  pc,        \* pc[t]: where thread t is
  plan,      \* plan[t]: the devices it has still to visit, with the states it read
  write,     \* write[t]: the state it is about to store, and what from
  outbox,    \* outbox[t]: the events it has compared but not sunk yet
  view,      \* what a subscriber makes of the events of each device
  openings,  \* history: opening battery observations since the last connection change
  frameDuringPoll  \* history: a frame was handled while the main loop polled

adbVars == <<adb, frames, changes>>
flowVars == <<baseline, baselineSeen, frame, polls, pollLock, frameDuringPoll>>
vars == <<adbVars, flowVars, states, pc, plan, write, outbox, view, openings>>

NoWrite == [device |-> Absent, new |-> Unseen, fresh |-> FALSE, from |-> "idle"]
NoPlan == [d \in {} |-> Unseen]
NoView == [online |-> FALSE, level |-> -1, low |-> FALSE, charging |-> FALSE, wifi |-> NoWifi]

Init ==
  /\ adb \in [Devices -> {"device", Absent}]
  /\ frames = <<adb>>
  /\ changes = 0 /\ polls = 0
  /\ states = [d \in Devices |-> Unseen]
  /\ baseline = FALSE /\ baselineSeen = FALSE
  /\ frame = adb
  /\ pollLock = Nobody
  /\ pc = [t \in Threads |-> "idle"]
  /\ plan = [t \in Threads |-> NoPlan]
  /\ write = [t \in Threads |-> NoWrite]
  /\ outbox = [t \in Threads |-> <<>>]
  /\ view = [d \in Devices |-> NoView]
  /\ openings = [d \in Devices |-> 0]
  /\ frameDuringPoll = FALSE

(***************************************************************************)
(* The ADB server                                                          *)
(***************************************************************************)
AdbChanges(d, s) ==
  /\ changes < MaxChanges
  /\ s # adb[d]
  /\ changes' = changes + 1
  /\ adb' = [adb EXCEPT ![d] = s]
  /\ frames' = Append(frames, adb')
  /\ UNCHANGED <<flowVars, states, pc, plan, write, outbox, view, openings>>

(***************************************************************************)
(* on_tracker_snapshot                                                     *)
(***************************************************************************)

ConnectionFromAdb(s) ==
  CASE s = "device" -> CONNECTED
    [] s = "unauthorized" -> UNAUTHORIZED
    [] s = "offline" -> OFFLINE
    [] OTHER -> DISCONNECTED

WithoutTelemetry(s) == [s EXCEPT !.battery = NoBattery, !.wifi = NoWifi]
Known(s) == IF s = Unseen THEN NewDevice ELSE s
Without(f, d) == [x \in DOMAIN f \ {d} |-> f[x]]

TakeFrame ==
  /\ pc[Tracker] = "idle" /\ frames # <<>>
  /\ frame' = Head(frames)
  /\ frames' = Tail(frames)
  /\ baseline' = ~baselineSeen
  /\ baselineSeen' = TRUE
  /\ pc' = [pc EXCEPT ![Tracker] = "present"]
  /\ plan' = [plan EXCEPT ![Tracker] = [d \in {x \in Devices : frame'[x] # Absent} |-> Unseen]]
  /\ frameDuringPoll' = (frameDuringPoll \/ pollLock = Main)
  /\ UNCHANGED <<adb, changes, polls, pollLock, states, write, outbox, view, openings>>

\* The successor of the state as the tracker reads it, without the lock.
FrameState(d) ==
  LET s == [Known(states[d]) EXCEPT !.connection = ConnectionFromAdb(frame[d])]
  IN IF Online(s) THEN s ELSE WithoutTelemetry(s)

ReadPresent == \E d \in DOMAIN plan[Tracker] :
  /\ pc[Tracker] = "present"
  /\ write' = [write EXCEPT ![Tracker] =
       [device |-> d, new |-> FrameState(d), fresh |-> FALSE, from |-> "present"]]
  /\ plan' = [plan EXCEPT ![Tracker] = Without(@, d)]
  /\ pc' = [pc EXCEPT ![Tracker] = "apply"]
  /\ UNCHANGED <<adbVars, flowVars, states, outbox, view, openings>>

ListAbsent_OnlyOnline ==  \* mutant: only a connected device can vanish
  /\ pc[Tracker] = "present" /\ plan[Tracker] = NoPlan
  /\ plan' = [plan EXCEPT ![Tracker] =
       [d \in {x \in Devices : frame[x] = Absent /\ Online(states[x])} |-> states[d]]]
  /\ pc' = [pc EXCEPT ![Tracker] = "absent"]
  /\ UNCHANGED <<adbVars, flowVars, states, write, outbox, view, openings>>

\* list(self.states.items()), filtered to the devices the frame does not name.
ListAbsent ==
  /\ pc[Tracker] = "present" /\ plan[Tracker] = NoPlan
  /\ plan' = [plan EXCEPT ![Tracker] =
       [d \in {x \in Devices : /\ states[x] # Unseen /\ frame[x] = Absent
                               /\ states[x].connection # DISCONNECTED} |-> states[d]]]
  /\ pc' = [pc EXCEPT ![Tracker] = "absent"]
  /\ UNCHANGED <<adbVars, flowVars, states, write, outbox, view, openings>>

WriteAbsent == \E d \in DOMAIN plan[Tracker] :
  /\ pc[Tracker] = "absent"
  /\ write' = [write EXCEPT ![Tracker] =
       [device |-> d, fresh |-> FALSE, from |-> "absent",
        new |-> WithoutTelemetry([plan[Tracker][d] EXCEPT !.connection = DISCONNECTED])]]
  /\ plan' = [plan EXCEPT ![Tracker] = Without(@, d)]
  /\ pc' = [pc EXCEPT ![Tracker] = "apply"]
  /\ UNCHANGED <<adbVars, flowVars, states, outbox, view, openings>>

FrameDone ==
  /\ pc[Tracker] = "absent" /\ plan[Tracker] = NoPlan
  /\ pc' = [pc EXCEPT ![Tracker] = "lock"]
  /\ UNCHANGED <<adbVars, flowVars, states, plan, write, outbox, view, openings>>

(***************************************************************************)
(* poll_once, by either thread                                             *)
(***************************************************************************)
TimerFires ==
  /\ pc[Main] = "idle" /\ polls < MaxPolls
  /\ polls' = polls + 1
  /\ pc' = [pc EXCEPT ![Main] = "lock"]
  /\ UNCHANGED <<adbVars, baseline, baselineSeen, frame, pollLock, frameDuringPoll, states, plan, write, outbox, view, openings>>

PollLockFree == pollLock = Nobody

StartPoll(t) ==
  /\ pc[t] = "lock" /\ PollLockFree
  /\ pollLock' = t
  /\ plan' = [plan EXCEPT ![t] = [d \in {x \in Devices : Online(states[x])} |-> states[d]]]
  /\ pc' = [pc EXCEPT ![t] = "polling"]
  /\ frameDuringPoll' = (frameDuringPoll \/ (t = Main /\ pc[Tracker] \notin {"idle", "lock"}))
  /\ UNCHANGED <<adbVars, polls, baseline, baselineSeen, frame, states, write, outbox, view, openings>>

\* battery_poller and wifi_poller.  A failed poll of either returns None.
BatteryReadings(d) == IF adb[d] = "device" THEN Batteries ELSE {NoBattery}
WifiReadings(d) == IF adb[d] = "device" THEN Ssids \union {NoWifi} ELSE {NoWifi}

\* A failed battery poll keeps the old reading, a failed Wi-Fi poll stores
\* "not connected".
Poll(t) == \E d \in DOMAIN plan[t] :
  \E battery \in BatteryReadings(d), wifi \in WifiReadings(d) :
    LET old == plan[t][d] IN
    /\ pc[t] = "polling"
    /\ write' = [write EXCEPT ![t] =
         [device |-> d, fresh |-> old.battery = NoBattery, from |-> "polling",
          new |-> [old EXCEPT !.battery = IF battery = NoBattery THEN old.battery ELSE battery,
                              !.wifi = wifi]]]
    /\ plan' = [plan EXCEPT ![t] = Without(@, d)]
    /\ pc' = [pc EXCEPT ![t] = "apply"]
    /\ UNCHANGED <<adbVars, flowVars, states, outbox, view, openings>>

EndPoll_KeepsLock(t) ==  \* mutant: the lock is not released
  /\ pc[t] = "polling" /\ plan[t] = NoPlan
  /\ pc' = [pc EXCEPT ![t] = "idle"]
  /\ UNCHANGED <<adbVars, polls, pollLock, baseline, baselineSeen, frame, frameDuringPoll, states, plan, write, outbox, view, openings>>

EndPoll(t) ==
  /\ pc[t] = "polling" /\ plan[t] = NoPlan
  /\ pollLock' = Nobody
  /\ pc' = [pc EXCEPT ![t] = "idle"]
  /\ UNCHANGED <<adbVars, polls, baseline, baselineSeen, frame, frameDuringPoll, states, plan, write, outbox, view, openings>>

(***************************************************************************)
(* _apply: compare and store under _lock, then sink event by event         *)
(***************************************************************************)
OpensBattery(events) == \E i \in 1 .. Len(events) :
  events[i].type = "battery.changed" /\ events[i].initial

Apply(t) ==
  LET w == write[t]
      d == w.device
      previous == IF states[d] = Unseen /\ ~(baseline /\ w.from = "present")
                    THEN NewDevice ELSE states[d]
      events == Diff(previous, w.new, w.fresh)
  IN /\ pc[t] = "apply"
     /\ states' = [states EXCEPT ![d] = w.new]
     /\ outbox' = [outbox EXCEPT ![t] = events]
     /\ openings' = [openings EXCEPT ![d] =
          (IF previous.connection = w.new.connection THEN @ ELSE 0)
          + (IF OpensBattery(events) THEN 1 ELSE 0)]
     /\ pc' = [pc EXCEPT ![t] = "sink"]
     /\ UNCHANGED <<adbVars, flowVars, plan, write, view>>

\* What a subscriber knows of a device once it has read one more event.
Seen(v, e) ==
  CASE e.type = "device.connected" -> [NoView EXCEPT !.online = TRUE]
    [] e.type \in {"device.disconnected", "device.unauthorized"} -> NoView
    [] e.type = "battery.changed" -> [v EXCEPT !.level = e.value]
    [] e.type = "battery.low" -> [v EXCEPT !.low = TRUE]
    [] e.type = "battery.ok" -> [v EXCEPT !.low = FALSE]
    [] e.type = "charging.started" -> [v EXCEPT !.charging = TRUE]
    [] e.type = "charging.stopped" -> [v EXCEPT !.charging = FALSE]
    [] e.type = "wifi.connected" -> [v EXCEPT !.wifi = e.value]
    [] e.type = "wifi.disconnected" -> [v EXCEPT !.wifi = NoWifi]
    [] OTHER -> v

Sink(t) ==
  /\ pc[t] = "sink" /\ outbox[t] # <<>>
  /\ view' = [view EXCEPT ![write[t].device] = Seen(@, Head(outbox[t]))]
  /\ outbox' = [outbox EXCEPT ![t] = Tail(@)]
  /\ UNCHANGED <<adbVars, flowVars, states, pc, plan, write, openings>>

Sunk(t) ==
  /\ pc[t] = "sink" /\ outbox[t] = <<>>
  /\ pc' = [pc EXCEPT ![t] = write[t].from]
  /\ write' = [write EXCEPT ![t] = NoWrite]
  /\ UNCHANGED <<adbVars, flowVars, states, plan, outbox, view, openings>>

TrackerStep == TakeFrame \/ ReadPresent \/ ListAbsent \/ WriteAbsent \/ FrameDone
PollStep(t) == StartPoll(t) \/ Poll(t) \/ EndPoll(t) \/ Apply(t) \/ Sink(t) \/ Sunk(t)

Next ==
  \/ \E d \in Devices, s \in AdbStates : AdbChanges(d, s)
  \/ TrackerStep
  \/ TimerFires
  \/ \E t \in Threads : PollStep(t)

Spec == Init /\ [][Next]_vars

\* Both threads run and every poll returns (the providers time out).
Fairness == WF_vars(TrackerStep) /\ \A t \in Threads : WF_vars(PollStep(t))
FairSpec == Spec /\ Fairness

(***************************************************************************)
(* Properties                                                              *)
(***************************************************************************)

TrackerCaughtUp == frames = <<>> /\ pc[Tracker] \in {"idle", "lock"}
Quiet == frames = <<>> /\ \A t \in Threads : pc[t] = "idle"

ConnectionAgrees(d) ==
  (IF states[d] = Unseen THEN DISCONNECTED ELSE states[d].connection) = ConnectionFromAdb(adb[d])

\* Once the tracker has handled every frame, the observed connection of each
\* device is what the ADB server says, unless a frame and a timer poll overlapped.
ConnectionFollowsTracker ==
  TrackerCaughtUp /\ ~frameDuringPoll => \A d \in Devices : ConnectionAgrees(d)

\* A subscriber that only reads events knows the observed state: whether the
\* device is online and, once it has a battery reading, its level, whether it
\* is low and whether it charges.  No event is missing, doubled in the wrong direction
\* or sunk in the wrong order; and the opening reading comes
\* once per connection ("without serializing them both can ... emit the opening
\* observations twice", the comment on _poll_lock).
ViewFollowsState ==
  Quiet /\ ~frameDuringPoll => \A d \in Devices :
    /\ openings[d] <= 1
    /\ view[d].online = Online(states[d])
    /\ states[d].battery # NoBattery =>
         /\ view[d].level = states[d].battery.level
         /\ view[d].low = IsLow(states[d].battery.level)
         /\ view[d].charging = states[d].battery.powered

\* Every change of the ADB server's list ends up in the observed states.
TrackerCatchesUp == []<>(frames = <<>> /\ pc[Tracker] = "idle")
=============================================================================
