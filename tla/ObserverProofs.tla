--------------------------- MODULE ObserverProofs ---------------------------
(***************************************************************************)
(* Proofs about Observer, for any devices, levels, threshold and networks, *)
(* and any number of changes and polls.                                    *)
(*                                                                         *)
(* The argument: while no frame overlaps a timer poll, one thread is at    *)
(* work, so what it read before it took the lock still stands when it      *)
(* stores the successor.  Then states follow the frames, and the events    *)
(* that are left to sink lead the subscriber's view to the stored state,   *)
(* which diff() is shown to do for any two observations.                   *)
(***************************************************************************)
EXTENDS Observer, SequenceTheorems, TLAPS

(***************************************************************************)
(* The invariants                                                          *)
(***************************************************************************)
Lists == [Devices -> AdbStates]
AllStates == DeviceStates \union {Unseen}

\* What a thread is doing, also while it applies what it found.
Phase(t) == IF pc[t] \in {"apply", "sink"} THEN write[t].from ELSE pc[t]
Active(t) == pc[t] \notin {"idle", "lock"}

TypesOf(t) ==
  /\ pc[t] \in {"idle", "lock", "present", "absent", "polling", "apply", "sink"}
  /\ DOMAIN plan[t] \subseteq Devices
  /\ Phase(t) = "absent" \/ Phase(t) = "polling" => \A d \in DOMAIN plan[t] : plan[t][d] \in DeviceStates
  /\ pc[t] \in {"apply", "sink"} =>
       /\ write[t].from \in {"present", "absent", "polling"}
       /\ write[t].device \in Devices /\ write[t].new \in DeviceStates

Types ==
  /\ adb \in Lists /\ frames \in Seq(Lists) /\ frame \in Lists
  /\ baselineSeen \in BOOLEAN /\ frameDuringPoll \in BOOLEAN
  /\ states \in [Devices -> AllStates]
  /\ DOMAIN pc = Threads /\ DOMAIN plan = Threads /\ DOMAIN write = Threads /\ DOMAIN outbox = Threads
  /\ DOMAIN view = Devices /\ DOMAIN openings = Devices
  /\ \A t \in Threads : TypesOf(t)

\* A poll holds its lock, and only the tracker handles frames.
Locking ==
  /\ \A t \in Threads : pollLock = t <=> Phase(t) = "polling"
  /\ pollLock \in Threads \union {Nobody}
  /\ Phase(Main) \in {"idle", "lock", "polling"}

\* Two threads are at work only if a frame and a timer poll overlap.
OneAtWork == ~(Active(Main) /\ Active(Tracker))

\* What thread t has read is still so.
Applying(t, d) == pc[t] = "apply" /\ write[t].device = d
Prepared(t) ==
  LET w == write[t]
      s == states[w.device]
  IN  \/ /\ w.from = "present" /\ frame[w.device] # Absent
         /\ w.new = FrameState(w.device) /\ ~w.fresh
      \/ /\ w.from = "absent" /\ frame[w.device] = Absent /\ s # Unseen
         /\ w.new = WithoutTelemetry([s EXCEPT !.connection = DISCONNECTED]) /\ ~w.fresh
      \/ /\ w.from = "polling" /\ Online(s) /\ Online(w.new)
         /\ s.battery # NoBattery => w.new.battery # NoBattery
         /\ w.fresh = (s.battery = NoBattery)

ReadStands(t) ==
  /\ Phase(t) = "present" => \A d \in DOMAIN plan[t] : frame[d] # Absent
  /\ Phase(t) = "absent" => \A d \in DOMAIN plan[t] : frame[d] = Absent /\ states[d] # Unseen /\ plan[t][d] = states[d]
  /\ Phase(t) = "polling" => \A d \in DOMAIN plan[t] : Online(states[d]) /\ plan[t][d] = states[d]
  /\ pc[t] \in {"apply", "sink"} => write[t].device \notin DOMAIN plan[t]
  /\ pc[t] = "apply" => Prepared(t)

\* Up to the frame that is being handled, states follow the ADB server.
Agrees(d) == (IF states[d] = Unseen THEN DISCONNECTED ELSE states[d].connection) = ConnectionFromAdb(frame[d])

Newest == IF frames = <<>> THEN frame ELSE frames[Len(frames)]
Followed ==
  /\ Newest = adb
  /\ ~baselineSeen => frames # <<>> /\ pc[Tracker] = "idle"
  /\ baselineSeen => \A d \in Devices :
       /\ d \notin DOMAIN plan[Tracker] /\ ~Applying(Tracker, d) /\ (Phase(Tracker) = "present" => frame[d] # Absent)
            => Agrees(d)
       /\ Phase(Tracker) \notin {"present", "absent"} => Agrees(d)

\* A view that shows a state; an offline device has none to show.
IsView(v) == DOMAIN v = {"online", "level", "low", "charging", "wifi"}
Shows(v, s) ==
  /\ IsView(v) /\ v.online = Online(s)
  /\ Online(s) =>
       /\ v.level = s.battery.level
       /\ v.low = (s.battery # NoBattery /\ IsLow(s.battery.level))
       /\ v.charging = s.battery.powered

\* The events that open a battery reading only if C.
Told(C) == {e \in [type : {"device.authorized", "device.connected", "device.unauthorized", "device.disconnected",
                           "battery.changed", "battery.low", "battery.ok", "charging.started", "charging.stopped",
                           "wifi.connected", "wifi.disconnected"},
                   initial : BOOLEAN, value : {0, -1} \union Levels \union Ssids \union {NoWifi}] :
              e.type = "battery.changed" /\ e.initial => C}

\* Reading the events turns one view into another.
Leads(v, events, u) == \E vs :
  /\ DOMAIN vs = 1 .. Len(events) + 1
  /\ vs[1] = v /\ vs[Len(events) + 1] = u
  /\ \A i \in 1 .. Len(events) : vs[i + 1] = Seen(vs[i], events[i])

Sinking(t, d) == pc[t] = "sink" /\ write[t].device = d
Shown ==
  /\ \A d \in Devices : (\A t \in Threads : ~Sinking(t, d)) => Shows(view[d], states[d])
  /\ \A t \in Threads : pc[t] = "sink" =>
       /\ outbox[t] \in Seq(Told(TRUE))
       /\ \E u : Leads(view[write[t].device], outbox[t], u) /\ Shows(u, states[write[t].device])

OpenedOnce == \A d \in Devices :
  /\ states[d].battery # NoBattery => Online(states[d])
  /\ openings[d] \in {0, 1}
  /\ openings[d] = 1 => states[d].battery # NoBattery

InOrder == ~frameDuringPoll => OneAtWork /\ (\A t \in Threads : ReadStands(t)) /\ Followed /\ Shown /\ OpenedOnce

(***************************************************************************)
(* Sequences of events                                                     *)
(***************************************************************************)
LEMMA NothingLeads == \A v : Leads(v, <<>>, v)
<1> SUFFICES ASSUME NEW v PROVE Leads(v, <<>>, v)
  OBVIOUS
<1> DEFINE vs == [i \in 1 .. 1 |-> v]
<1>1. DOMAIN vs = 1 .. Len(<<>>) + 1 /\ vs[1] = v /\ vs[Len(<<>>) + 1] = v
  OBVIOUS
<1>2. \A i \in 1 .. Len(<<>>) : FALSE
  OBVIOUS
<1> QED
  BY <1>1, <1>2 DEF Leads

LEMMA EndLeads == ASSUME NEW v, NEW u, Leads(v, <<>>, u) PROVE u = v
BY DEF Leads

LEMMA OneLeads == ASSUME NEW v, NEW e PROVE Leads(v, <<e>>, Seen(v, e))
<1> DEFINE u == Seen(v, e)
<1> HIDE DEF u
<1> DEFINE vs == [i \in 1 .. 2 |-> IF i = 1 THEN v ELSE u]
<1>1. Len(<<e>>) = 1 /\ <<e>>[1] = e
  OBVIOUS
<1>2. DOMAIN vs = 1 .. 2 /\ vs[1] = v /\ vs[2] = u
  OBVIOUS
<1> HIDE DEF vs
<1>3. \A i \in 1 .. 1 : vs[i + 1] = Seen(vs[i], <<e>>[i])
  BY <1>1, <1>2 DEF u
<1>4. Leads(v, <<e>>, u)
  BY <1>1, <1>2, <1>3 DEF Leads
<1> QED
  BY <1>4 DEF u

\* What Leads asks of the views in between.
Between(vs, v, events, u) ==
  /\ DOMAIN vs = 1 .. Len(events) + 1
  /\ vs[1] = v /\ vs[Len(events) + 1] = u
  /\ \A i \in 1 .. Len(events) : vs[i + 1] = Seen(vs[i], events[i])

LEMMA BothLead ==
  ASSUME NEW S, NEW a \in Seq(S), NEW b \in Seq(S), NEW v, NEW u, NEW w, Leads(v, a, u), Leads(u, b, w)
  PROVE  Leads(v, a \o b, w)
<1>1. PICK vs : Between(vs, v, a, u)
  BY DEF Leads, Between
<1>2. PICK us : Between(us, u, b, w)
  BY DEF Leads, Between
<1> DEFINE m == Len(a)
           n == Len(b)
           ab == a \o b
           ws == [i \in 1 .. m + n + 1 |-> IF i <= m + 1 THEN vs[i] ELSE us[i - m]]
<1>3. /\ m \in Nat /\ n \in Nat /\ Len(ab) = m + n
      /\ \A i \in 1 .. m : ab[i] = a[i]
      /\ \A i \in 1 .. n : ab[i + m] = b[i]
  OBVIOUS
<1> HIDE DEF ab
<1>4. vs[m + 1] = u /\ us[1] = u /\ us[n + 1] = w /\ vs[1] = v
  BY <1>1, <1>2 DEF Between
<1>5. /\ \A i \in 1 .. m : vs[i + 1] = Seen(vs[i], a[i])
      /\ \A i \in 1 .. n : us[i + 1] = Seen(us[i], b[i])
  BY <1>1, <1>2 DEF Between
<1> HIDE DEF m, n
<1>6. /\ DOMAIN ws = 1 .. m + n + 1
      /\ \A i \in 1 .. m + 1 : i \in 1 .. m + n + 1 /\ ws[i] = vs[i]
      /\ \A i \in 1 .. n + 1 : i + m \in 1 .. m + n + 1 /\ ws[i + m] = us[i]
  <2>1. \A i \in 1 .. m + 1 : i \in 1 .. m + n + 1 /\ ws[i] = vs[i]
    BY <1>3
  <2>2. ASSUME NEW i \in 1 .. n + 1 PROVE i + m \in 1 .. m + n + 1 /\ ws[i + m] = us[i]
    <3>1. i + m \in 1 .. m + n + 1 /\ (i + m) - m = i /\ (i + m <= m + 1 => i = 1 /\ i + m = m + 1)
      BY <1>3
    <3> QED
      BY <1>4, <3>1
  <2> QED
    BY <2>1, <2>2
<1> HIDE DEF ws
<1>7. ws[1] = v /\ ws[m + n + 1] = w
  <2>1. ws[1] = vs[1]
    BY <1>3, <1>6
  <2>2. ws[(n + 1) + m] = us[n + 1] /\ (n + 1) + m = m + n + 1
    BY <1>3, <1>6
  <2> QED
    BY <1>4, <2>1, <2>2
<1>8. ASSUME NEW i \in 1 .. m + n PROVE ws[i + 1] = Seen(ws[i], ab[i])
  <2>1. CASE i <= m
    BY <1>3, <1>5, <1>6, <2>1
  <2>2. CASE ~(i <= m)
    <3> DEFINE j == i - m
    <3>1. j \in 1 .. n /\ j + m = i /\ (j + 1) + m = i + 1 /\ j \in 1 .. n + 1 /\ j + 1 \in 1 .. n + 1
      BY <1>3, <2>2
    <3> HIDE DEF j
    <3>2. ws[i] = us[j] /\ ws[i + 1] = us[j + 1] /\ ab[i] = b[j]
      BY <1>3, <1>6, <3>1
    <3> QED
      BY <1>5, <3>1, <3>2
  <2> QED
    BY <2>1, <2>2
<1>9. Leads(v, ab, w)
  <2>1. /\ DOMAIN ws = 1 .. Len(ab) + 1 /\ ws[1] = v /\ ws[Len(ab) + 1] = w
        /\ \A i \in 1 .. Len(ab) : ws[i + 1] = Seen(ws[i], ab[i])
    BY <1>3, <1>6, <1>7, <1>8
  <2> QED
    BY <2>1, Zenon DEF Leads
<1> QED
  BY <1>9 DEF ab

LEMMA RestLeads ==
  ASSUME NEW S, NEW events \in Seq(S), events # <<>>, NEW v, NEW u, Leads(v, events, u)
  PROVE  Leads(Seen(v, Head(events)), Tail(events), u)
<1>1. PICK vs : Between(vs, v, events, u)
  BY DEF Leads, Between
<1> DEFINE n == Len(events)
           t == Tail(events)
           h == Head(events)
           ws == [i \in 1 .. n |-> vs[i + 1]]
<1>2. n \in Nat /\ n >= 1 /\ Len(t) = n - 1 /\ h = events[1] /\ \A i \in 1 .. n - 1 : t[i] = events[i + 1]
  OBVIOUS
<1>3. vs[1] = v /\ vs[n + 1] = u /\ \A i \in 1 .. n : vs[i + 1] = Seen(vs[i], events[i])
  BY <1>1 DEF Between
<1> HIDE DEF n, t, h
<1>4. DOMAIN ws = 1 .. n /\ \A i \in 1 .. n : ws[i] = vs[i + 1]
  OBVIOUS
<1> HIDE DEF ws
<1>5. ws[1] = Seen(v, h) /\ ws[n] = u
  BY <1>2, <1>3, <1>4
<1>6. ASSUME NEW i \in 1 .. n - 1 PROVE ws[i + 1] = Seen(ws[i], t[i])
  <2> DEFINE j == i + 1
  <2>1. j \in 1 .. n /\ i \in 1 .. n
    BY <1>2
  <2> HIDE DEF j
  <2>2. ws[j] = vs[j + 1] /\ vs[j + 1] = Seen(vs[j], events[j])
    BY <1>3, <1>4, <2>1
  <2>3. ws[i] = vs[j] /\ t[i] = events[j]
    BY <1>2, <1>4, <2>1 DEF j
  <2> QED
    BY <2>2, <2>3 DEF j
<1>7. Leads(Seen(v, h), t, u)
  BY <1>2, <1>4, <1>5, <1>6 DEF Leads
<1> QED
  BY <1>7 DEF t, h

LEMMA WhenIs ==
  ASSUME NEW S, NEW c, NEW e, c => e \in S, NEW v
  PROVE  When(c, e) \in Seq(S) /\ Leads(v, When(c, e), IF c THEN Seen(v, e) ELSE v)
<1>1. CASE c
  BY <1>1, OneLeads DEF When
<1>2. CASE ~c
  BY <1>2, NothingLeads DEF When
<1> QED
  BY <1>1, <1>2

(***************************************************************************)
(* The events of diff(), and what each tells                               *)
(***************************************************************************)

LEMMA SeenIs ==
  ASSUME NEW v, NEW i, NEW x
  PROVE  /\ Seen(v, Ev("device.authorized", i, x)) = v
         /\ Seen(v, Ev("device.connected", i, x)) = [NoView EXCEPT !.online = TRUE]
         /\ Seen(v, Ev("device.unauthorized", i, x)) = NoView
         /\ Seen(v, Ev("device.disconnected", i, x)) = NoView
         /\ Seen(v, Ev("battery.changed", i, x)) = [v EXCEPT !.level = x]
         /\ Seen(v, Ev("battery.low", i, x)) = [v EXCEPT !.low = TRUE]
         /\ Seen(v, Ev("battery.ok", i, x)) = [v EXCEPT !.low = FALSE]
         /\ Seen(v, Ev("charging.started", i, x)) = [v EXCEPT !.charging = TRUE]
         /\ Seen(v, Ev("charging.stopped", i, x)) = [v EXCEPT !.charging = FALSE]
         /\ Seen(v, Ev("wifi.connected", i, x)) = [v EXCEPT !.wifi = x]
         /\ Seen(v, Ev("wifi.disconnected", i, x)) = [v EXCEPT !.wifi = NoWifi]
BY DEF Seen, Ev

LEMMA ToldIs ==
  ASSUME NEW C \in BOOLEAN, NEW i \in BOOLEAN, NEW x \in {0, -1} \union Levels \union Ssids \union {NoWifi}
  PROVE  /\ Ev("device.authorized", i, x) \in Told(C)
         /\ Ev("device.connected", i, x) \in Told(C)
         /\ Ev("device.unauthorized", i, x) \in Told(C)
         /\ Ev("device.disconnected", i, x) \in Told(C)
         /\ (i => C) => Ev("battery.changed", i, x) \in Told(C)
         /\ Ev("battery.low", i, x) \in Told(C)
         /\ Ev("battery.ok", i, x) \in Told(C)
         /\ Ev("charging.started", i, x) \in Told(C)
         /\ Ev("charging.stopped", i, x) \in Told(C)
         /\ Ev("wifi.connected", i, x) \in Told(C)
         /\ Ev("wifi.disconnected", i, x) \in Told(C)
BY DEF Told, Ev

LEMMA ConnectionLeads ==
  ASSUME NEW C \in BOOLEAN, NEW old \in DeviceStates, NEW new \in DeviceStates, NEW initial \in BOOLEAN,
         NEW v, IsView(v), v.online = Online(old)
  PROVE  /\ ConnectionEvents(old, new, initial) \in Seq(Told(C))
         /\ \E u : /\ Leads(v, ConnectionEvents(old, new, initial), u)
                   /\ IsView(u) /\ u.online = Online(new)
                   /\ Online(old) /\ Online(new) => u = v
                   /\ ~Online(old) /\ Online(new) => u = [NoView EXCEPT !.online = TRUE]
<1> DEFINE S == Told(C)
           up == old.connection # new.connection /\ Online(new)
           e1 == Ev("device.authorized", initial, 0)
           e2 == Ev("device.connected", initial, 0)
           e3 == Ev("device.unauthorized", initial, 0)
           e4 == Ev("device.disconnected", initial, 0)
           c1 == up /\ old.connection = UNAUTHORIZED
           c3 == old.connection # new.connection /\ new.connection = UNAUTHORIZED
           c4 == Online(old) /\ new.connection \in {OFFLINE, DISCONNECTED}
           on == [NoView EXCEPT !.online = TRUE]
           v1 == IF c1 THEN Seen(v, e1) ELSE v
           v2 == IF up THEN Seen(v1, e2) ELSE v1
           v3 == IF c3 THEN Seen(v2, e3) ELSE v2
           v4 == IF c4 THEN Seen(v3, e4) ELSE v3
           a == When(c1, e1)
           b == When(up, e2)
           c == When(c3, e3)
           d == When(c4, e4)
<1>1. e1 \in S /\ e2 \in S /\ e3 \in S /\ e4 \in S
  BY ToldIs
<1>2. \A x : Seen(x, e1) = x /\ Seen(x, e2) = on /\ Seen(x, e3) = NoView /\ Seen(x, e4) = NoView
  BY SeenIs
<1>3. ConnectionEvents(old, new, initial) = a \o b \o c \o d
  BY DEF ConnectionEvents
<1>4. old.connection \in Connections /\ new.connection \in Connections
  BY DEF DeviceStates
<1>5. IsView(NoView) /\ IsView(on) /\ NoView.online = FALSE /\ on.online = TRUE
  BY DEF IsView, NoView
<1> HIDE DEF e1, e2, e3, e4, S, on
<1>6. /\ IsView(v4) /\ v4.online = Online(new)
      /\ Online(old) /\ Online(new) => v4 = v
      /\ ~Online(old) /\ Online(new) => v4 = on
  BY <1>2, <1>4, <1>5 DEF Online, Connections, CONNECTED, DISCONNECTED, OFFLINE, UNAUTHORIZED
<1> HIDE DEF c1, up, c3, c4
<1>7. /\ a \in Seq(S) /\ Leads(v, a, v1)
      /\ b \in Seq(S) /\ Leads(v1, b, v2)
      /\ c \in Seq(S) /\ Leads(v2, c, v3)
      /\ d \in Seq(S) /\ Leads(v3, d, v4)
  BY <1>1, WhenIs
<1> HIDE DEF a, b, c, d, v1, v2, v3, v4
<1> DEFINE ab == a \o b
           abc == ab \o c
           abcd == abc \o d
<1>8. ab \in Seq(S) /\ Leads(v, ab, v2)
  BY <1>7, BothLead
<1> HIDE DEF ab
<1>9. abc \in Seq(S) /\ Leads(v, abc, v3)
  BY <1>7, <1>8, BothLead
<1> HIDE DEF abc
<1>10. abcd \in Seq(S) /\ Leads(v, abcd, v4)
  BY <1>7, <1>9, BothLead
<1> QED
  BY <1>3, <1>6, <1>10 DEF S, on, ab, abc, abcd

LEMMA BatteryLeads ==
  ASSUME NEW C \in BOOLEAN, NEW old \in Batteries, NEW new \in Batteries, NEW initial \in BOOLEAN,
         NEW v, IsView(v), v.level = old.level, v.low = (old # NoBattery /\ IsLow(old.level)),
         initial => old = NoBattery, old # NoBattery => new # NoBattery,
         initial /\ new # NoBattery => C
  PROVE  /\ BatteryEvents(old, new, initial) \in Seq(Told(C))
         /\ \E u : /\ Leads(v, BatteryEvents(old, new, initial), u)
                   /\ IsView(u) /\ u.online = v.online /\ u.charging = v.charging
                   /\ u.level = new.level /\ u.low = (new # NoBattery /\ IsLow(new.level))
<1> DEFINE S == Told(C)
           changed == new # NoBattery /\ new.level # old.level
           wasLow == old # NoBattery /\ IsLow(old.level)
           l == new.level
           e1 == Ev("battery.changed", initial, l)
           e2 == Ev("battery.low", initial, l)
           e3 == Ev("battery.ok", initial, l)
           c2 == changed /\ IsLow(new.level) /\ (initial \/ ~wasLow)
           c3 == changed /\ wasLow /\ ~IsLow(new.level)
           v1 == IF changed THEN Seen(v, e1) ELSE v
           v2 == IF c2 THEN Seen(v1, e2) ELSE v1
           v3 == IF c3 THEN Seen(v2, e3) ELSE v2
           a == When(changed, e1)
           b == When(c2, e2)
           c == When(c3, e3)
<1>0. old.level \in Levels \union {-1} /\ new.level \in Levels \union {-1}
  BY DEF Batteries, NoBattery
<1>1. (changed => e1 \in S) /\ e2 \in S /\ e3 \in S
  BY <1>0, ToldIs
<1>2. \A x : /\ Seen(x, e1) = [x EXCEPT !.level = l]
             /\ Seen(x, e2) = [x EXCEPT !.low = TRUE]
             /\ Seen(x, e3) = [x EXCEPT !.low = FALSE]
  <2> HIDE DEF l
  <2> QED
    BY SeenIs
<1>3. BatteryEvents(old, new, initial) = a \o b \o c
  BY DEF BatteryEvents
<1>4. /\ new = NoBattery => old = NoBattery
      /\ ~changed /\ new # NoBattery => old # NoBattery /\ old.level = new.level
  BY DiffAssumption DEF Batteries, NoBattery
<1>5. ~changed => new.level = old.level /\ (new # NoBattery <=> old # NoBattery)
  BY <1>4
<1> HIDE DEF e1, e2, e3, S
<1>6. /\ IsView(v1) /\ v1.online = v.online /\ v1.charging = v.charging
      /\ v1.level = new.level /\ v1.low = v.low
  BY <1>2, <1>5 DEF IsView
<1> HIDE DEF v1
<1>7. /\ IsView(v2) /\ v2.online = v.online /\ v2.charging = v.charging
      /\ v2.level = new.level /\ v2.low = IF c2 THEN TRUE ELSE v.low
  BY <1>2, <1>6 DEF IsView
<1> HIDE DEF v2
<1>8. /\ IsView(v3) /\ v3.online = v.online /\ v3.charging = v.charging
      /\ v3.level = new.level /\ v3.low = IF c3 THEN FALSE ELSE IF c2 THEN TRUE ELSE v.low
  BY <1>2, <1>7 DEF IsView
<1>9. v3.low = (new # NoBattery /\ IsLow(new.level))
  <2>1. CASE changed
    BY <1>8, <2>1, Zenon
  <2>2. CASE ~changed
    BY <1>5, <1>8, <2>2, Zenon
  <2> QED
    BY <2>1, <2>2
<1> HIDE DEF changed, wasLow, c2, c3
<1>10. /\ a \in Seq(S) /\ Leads(v, a, v1)
       /\ b \in Seq(S) /\ Leads(v1, b, v2)
       /\ c \in Seq(S) /\ Leads(v2, c, v3)
  BY <1>1, WhenIs DEF v1, v2
<1> HIDE DEF a, b, c, v1, v2, v3
<1> DEFINE ab == a \o b
           abc == ab \o c
<1>11. ab \in Seq(S) /\ Leads(v, ab, v2)
  BY <1>10, BothLead
<1> HIDE DEF ab
<1>12. abc \in Seq(S) /\ Leads(v, abc, v3)
  BY <1>10, <1>11, BothLead
<1> QED
  BY <1>3, <1>8, <1>9, <1>12 DEF S, ab, abc

LEMMA PowerLeads ==
  ASSUME NEW C \in BOOLEAN, NEW old \in Batteries, NEW new \in Batteries, NEW initial \in BOOLEAN,
         NEW v, IsView(v), v.charging = old.powered,
         initial => old = NoBattery, old # NoBattery => new # NoBattery
  PROVE  /\ PowerEvents(old, new, initial) \in Seq(Told(C))
         /\ \E u : /\ Leads(v, PowerEvents(old, new, initial), u)
                   /\ IsView(u) /\ u.online = v.online /\ u.level = v.level /\ u.low = v.low
                   /\ u.charging = new.powered
<1> DEFINE S == Told(C)
           e1 == Ev("charging.started", initial, 0)
           e2 == Ev("charging.stopped", initial, 0)
           c1 == new # NoBattery /\ new.powered /\ (initial \/ ~old.powered)
           c2 == new # NoBattery /\ old.powered /\ ~new.powered /\ ~initial
           v1 == IF c1 THEN Seen(v, e1) ELSE v
           v2 == IF c2 THEN Seen(v1, e2) ELSE v1
           a == When(c1, e1)
           b == When(c2, e2)
<1>1. e1 \in S /\ e2 \in S
  BY ToldIs
<1>2. \A x : Seen(x, e1) = [x EXCEPT !.charging = TRUE] /\ Seen(x, e2) = [x EXCEPT !.charging = FALSE]
  BY SeenIs
<1>3. PowerEvents(old, new, initial) = a \o b
  BY DEF PowerEvents
<1>4. /\ old.powered \in BOOLEAN /\ new.powered \in BOOLEAN
      /\ (old = NoBattery => ~old.powered) /\ (new = NoBattery => ~new.powered)
  <2>1. NoBattery.powered = FALSE
    BY DEF NoBattery
  <2>2. \A reading \in [level : Levels, powered : BOOLEAN] : reading.powered \in BOOLEAN
    OBVIOUS
  <2> QED
    BY <2>1, <2>2 DEF Batteries
<1> HIDE DEF e1, e2, S
<1>5. /\ IsView(v1) /\ v1.online = v.online /\ v1.level = v.level /\ v1.low = v.low
      /\ v1.charging = IF c1 THEN TRUE ELSE old.powered
  BY <1>2 DEF IsView
<1>6. /\ IsView(v2) /\ v2.online = v.online /\ v2.level = v.level /\ v2.low = v.low
      /\ v2.charging = IF c2 THEN FALSE ELSE IF c1 THEN TRUE ELSE old.powered
  BY <1>2, <1>5 DEF IsView
<1>7. v2.charging = new.powered
  BY <1>4, <1>6
<1> HIDE DEF c1, c2
<1>8. /\ a \in Seq(S) /\ Leads(v, a, v1)
      /\ b \in Seq(S) /\ Leads(v1, b, v2)
  BY <1>1, WhenIs
<1> HIDE DEF a, b, v1, v2
<1>9. a \o b \in Seq(S) /\ Leads(v, a \o b, v2)
  BY <1>8, BothLead
<1> QED
  BY <1>3, <1>6, <1>7, <1>9 DEF S

Networks == Ssids \union {NoWifi}

LEMMA WifiLeads ==
  ASSUME NEW C \in BOOLEAN, NEW old \in Networks, NEW new \in Networks,
         NEW initial \in BOOLEAN, NEW v, IsView(v)
  PROVE  /\ WifiEvents(old, new, initial) \in Seq(Told(C))
         /\ \E u : /\ Leads(v, WifiEvents(old, new, initial), u)
                   /\ IsView(u) /\ u.online = v.online /\ u.level = v.level /\ u.low = v.low
                   /\ u.charging = v.charging
<1> DEFINE S == Told(C)
           e1 == Ev("wifi.connected", initial, new)
           e2 == Ev("wifi.disconnected", initial, old)
           c1 == old # new /\ new # NoWifi
           c2 == old # new /\ new = NoWifi /\ ~initial
           v1 == IF c1 THEN Seen(v, e1) ELSE v
           v2 == IF c2 THEN Seen(v1, e2) ELSE v1
           a == When(c1, e1)
           b == When(c2, e2)
<1>1. e1 \in S /\ e2 \in S
  BY ToldIs DEF Networks
<1>2. \A x : Seen(x, e1) = [x EXCEPT !.wifi = new] /\ Seen(x, e2) = [x EXCEPT !.wifi = NoWifi]
  BY SeenIs
<1>3. WifiEvents(old, new, initial) = a \o b
  BY DEF WifiEvents
<1> HIDE DEF e1, e2, S, c1, c2
<1>5. /\ IsView(v1) /\ v1.online = v.online /\ v1.level = v.level /\ v1.low = v.low /\ v1.charging = v.charging
  BY <1>2 DEF IsView
<1>6. /\ IsView(v2) /\ v2.online = v.online /\ v2.level = v.level /\ v2.low = v.low /\ v2.charging = v.charging
  BY <1>2, <1>5 DEF IsView
<1>8. /\ a \in Seq(S) /\ Leads(v, a, v1)
      /\ b \in Seq(S) /\ Leads(v1, b, v2)
  BY <1>1, WhenIs
<1> HIDE DEF a, b, v1, v2
<1>9. a \o b \in Seq(S) /\ Leads(v, a \o b, v2)
  BY <1>8, BothLead
<1> QED
  BY <1>3, <1>6, <1>9 DEF S

\* When diff() opens a battery reading: on the first observation of a device,
\* or when the poll asks for one, of a device that is online and has a reading.
Opens(previous, new, fresh) ==
  (previous = Unseen \/ fresh) /\ Online(new) /\ new.battery # NoBattery

\* A reading that may follow another: only a device that is online has a battery
\* reading, and keeps one while it stays online; a poll opens the readings of a
\* device only if it has none.
Follows(previous, new, fresh) ==
  /\ previous.battery # NoBattery => Online(previous)
  /\ fresh => previous.battery = NoBattery
  /\ previous.battery # NoBattery /\ Online(new) => new.battery # NoBattery

LEMMA DiffLeads ==
  ASSUME NEW previous \in AllStates, NEW new \in DeviceStates, NEW fresh \in BOOLEAN,
         NEW v, Shows(v, previous), Follows(previous, new, fresh)
  PROVE  /\ Diff(previous, new, fresh) \in Seq(Told(Opens(previous, new, fresh)))
         /\ \E u : Leads(v, Diff(previous, new, fresh), u) /\ Shows(u, new)
<1> DEFINE C == Opens(previous, new, fresh)
           S == Told(C)
           initial == previous = Unseen \/ fresh
           before == IF previous = Unseen THEN NewDevice ELSE previous
           old == before.battery
           cur == new.battery
           o == before.wifi
           n == new.wifi
           ce == ConnectionEvents(before, new, initial)
           be == BatteryEvents(old, cur, initial)
           pe == PowerEvents(old, cur, initial)
           we == WifiEvents(o, n, initial)
<1>1. Diff(previous, new, fresh) = ce \o (IF Online(new) THEN be \o pe \o we ELSE <<>>)
  BY DEF Diff
<1>2. C \in BOOLEAN /\ initial \in BOOLEAN
  BY DEF Opens
<1>3. NewDevice \in DeviceStates /\ ~Online(NewDevice) /\ NewDevice.battery = NoBattery /\ Unseen.battery = NoBattery
      /\ ~Online(Unseen)
  BY DEF NewDevice, DeviceStates, Connections, Batteries, Online, CONNECTED, DISCONNECTED, Unseen
<1>4. before \in DeviceStates /\ Online(before) = Online(previous) /\ old = previous.battery
  <2>1. CASE previous = Unseen
    <3>1. before = NewDevice
      BY <2>1
    <3> HIDE DEF before
    <3> QED
      BY <1>3, <2>1, <3>1 DEF Online
  <2>2. CASE previous # Unseen
    BY <2>2 DEF AllStates
  <2> QED
    BY <2>1, <2>2
<1>5. old \in Batteries /\ cur \in Batteries /\ o \in Networks /\ n \in Networks
  BY <1>4 DEF DeviceStates, Networks
<1>6. /\ old # NoBattery => Online(before)
      /\ initial => old = NoBattery
      /\ old # NoBattery /\ Online(new) => cur # NoBattery
      /\ initial /\ Online(new) /\ cur # NoBattery => C
  BY <1>3, <1>4 DEF Follows, Opens
<1>7. /\ IsView(v) /\ v.online = Online(before)
      /\ Online(before) => /\ v.level = old.level
                           /\ v.low = (old # NoBattery /\ IsLow(old.level))
                           /\ v.charging = old.powered
  <2>1. IsView(v) /\ v.online = Online(previous) /\ (Online(previous) => previous # Unseen)
    BY <1>3, Zenon DEF Shows
  <2>2. ASSUME Online(previous)
        PROVE  /\ v.level = previous.battery.level
               /\ v.low = (previous.battery # NoBattery /\ IsLow(previous.battery.level))
               /\ v.charging = previous.battery.powered
    BY <2>2, Zenon DEF Shows
  <2> HIDE DEF before
  <2> QED
    BY <1>4, <2>1, <2>2, Zenon
<1> HIDE DEF C, initial, before
<1>8. /\ ce \in Seq(S)
      /\ \E u : /\ Leads(v, ce, u)
                /\ IsView(u) /\ u.online = Online(new)
                /\ Online(before) /\ Online(new) => u = v
                /\ ~Online(before) /\ Online(new) => u = [NoView EXCEPT !.online = TRUE]
  BY <1>2, <1>4, <1>7, ConnectionLeads
<1> HIDE DEF ce
<1>9. PICK v1 : /\ Leads(v, ce, v1)
                /\ IsView(v1) /\ v1.online = Online(new)
                /\ Online(before) /\ Online(new) => v1 = v
                /\ ~Online(before) /\ Online(new) => v1 = [NoView EXCEPT !.online = TRUE]
  BY <1>8
<1>10. CASE ~Online(new)
  <2>1. Diff(previous, new, fresh) = ce
    BY <1>1, <1>8, <1>10
  <2>2. Shows(v1, new)
    BY <1>9, <1>10, Zenon DEF Shows
  <2> QED
    BY <1>8, <1>9, <2>1, <2>2 DEF C
<1>11. CASE Online(new)
  <2>1. /\ v1.level = old.level
        /\ v1.low = (old # NoBattery /\ IsLow(old.level))
        /\ v1.charging = old.powered
    <3>1. CASE Online(before)
      BY <1>7, <1>9, <1>11, <3>1, Zenon
    <3>2. CASE ~Online(before)
      <4>1. v1.level = -1 /\ v1.low = FALSE /\ v1.charging = FALSE
        BY <1>9, <1>11, <3>2 DEF NoView
      <4>2. old = NoBattery /\ old.level = -1 /\ old.powered = FALSE
        BY <1>6, <3>2 DEF NoBattery
      <4> QED
        BY <4>1, <4>2, Zenon
    <3> QED
      BY <3>1, <3>2
  <2> HIDE DEF old, cur, o, n
  <2>2. be \in Seq(S) /\ \E u : /\ Leads(v1, be, u)
                                /\ IsView(u) /\ u.online = v1.online /\ u.charging = v1.charging
                                /\ u.level = cur.level /\ u.low = (cur # NoBattery /\ IsLow(cur.level))
    <3>1. IsView(v1) /\ v1.level = old.level /\ v1.low = (old # NoBattery /\ IsLow(old.level))
      BY <1>9, <2>1
    <3>2. /\ initial => old = NoBattery
          /\ old # NoBattery => cur # NoBattery
          /\ initial /\ cur # NoBattery => C
      BY <1>6, <1>11, Zenon
    <3>3. old \in Batteries /\ cur \in Batteries
      BY <1>5
    <3> QED
      BY <1>2, <3>1, <3>2, <3>3, BatteryLeads
  <2> HIDE DEF be
  <2>3. PICK v2 : /\ Leads(v1, be, v2)
                  /\ IsView(v2) /\ v2.online = v1.online /\ v2.charging = v1.charging
                  /\ v2.level = cur.level /\ v2.low = (cur # NoBattery /\ IsLow(cur.level))
    BY <2>2
  <2>4. v2.charging = old.powered
    BY <2>1, <2>3
  <2>5. pe \in Seq(S) /\ \E u : /\ Leads(v2, pe, u)
                                /\ IsView(u) /\ u.online = v2.online /\ u.level = v2.level /\ u.low = v2.low
                                /\ u.charging = cur.powered
    BY <1>2, <1>5, <1>6, <1>11, <2>3, <2>4, PowerLeads
  <2> HIDE DEF pe
  <2>6. PICK v3 : /\ Leads(v2, pe, v3)
                  /\ IsView(v3) /\ v3.online = v2.online /\ v3.level = v2.level /\ v3.low = v2.low
                  /\ v3.charging = cur.powered
    BY <2>5
  <2>7. we \in Seq(S) /\ \E u : /\ Leads(v3, we, u)
                                /\ IsView(u) /\ u.online = v3.online /\ u.level = v3.level /\ u.low = v3.low
                                /\ u.charging = v3.charging
    <3>1. IsView(v3)
      BY <2>6
    <3>2. o \in Networks /\ n \in Networks
      BY <1>5
    <3> QED
      BY <1>2, <3>1, <3>2, WifiLeads
  <2> HIDE DEF we
  <2>8. PICK v4 : /\ Leads(v3, we, v4)
                  /\ IsView(v4) /\ v4.online = v3.online /\ v4.level = v3.level /\ v4.low = v3.low
                  /\ v4.charging = v3.charging
    BY <2>7
  <2> HIDE DEF S
  <2> DEFINE bp == be \o pe
             bpw == bp \o we
             all == ce \o bpw
  <2>9. bp \in Seq(S) /\ Leads(v1, bp, v3)
    BY <2>2, <2>3, <2>5, <2>6, BothLead
  <2> HIDE DEF bp
  <2>10. bpw \in Seq(S) /\ Leads(v1, bpw, v4)
    BY <2>7, <2>8, <2>9, BothLead
  <2> HIDE DEF bpw
  <2>11. all \in Seq(S) /\ Leads(v, all, v4)
    BY <1>8, <1>9, <2>10, BothLead
  <2>12. Diff(previous, new, fresh) = all
    BY <1>1, <1>11 DEF bpw, bp
  <2>13. /\ v4.online = Online(new) /\ v4.level = cur.level
         /\ v4.low = (cur # NoBattery /\ IsLow(cur.level)) /\ v4.charging = cur.powered
    BY <1>9, <2>3, <2>6, <2>8, Zenon
  <2>14. Shows(v4, new)
    BY <2>8, <2>13, Zenon DEF Shows, cur
  <2> HIDE DEF all
  <2> QED
    BY <2>11, <2>12, <2>14 DEF S, C
<1> QED
  BY <1>10, <1>11

LEMMA OpeningIs ==
  ASSUME NEW C \in BOOLEAN, NEW events \in Seq(Told(C)), OpensBattery(events)
  PROVE  C
<1>1. PICK i \in 1 .. Len(events) : events[i].type = "battery.changed" /\ events[i].initial
  BY DEF OpensBattery
<1>2. events[i] \in Told(C)
  OBVIOUS
<1> QED
  BY <1>1, <1>2 DEF Told

(***************************************************************************)
(* Types and locks                                                         *)
(***************************************************************************)
LEMMA SuccessorsAreStates ==
  /\ \A s \in AllStates : Known(s) \in DeviceStates
  /\ \A s \in DeviceStates : WithoutTelemetry(s) \in DeviceStates
  /\ \A s \in AllStates, c \in Connections : [s EXCEPT !.connection = c] \in DeviceStates
  /\ \A s : ConnectionFromAdb(s) \in Connections
  /\ DeviceStates \subseteq AllStates
  /\ \A s \in DeviceStates : s # Unseen
  /\ \A s \in AllStates : Online(s) => s # Unseen
<1> USE DEF Connections, CONNECTED, DISCONNECTED, OFFLINE, UNAUTHORIZED, NoBattery, Batteries
<1>1. \A s \in AllStates : Known(s) \in DeviceStates
  BY DEF AllStates, Known, NewDevice, DeviceStates
<1>2. \A s \in DeviceStates : WithoutTelemetry(s) \in DeviceStates
  BY DEF WithoutTelemetry, DeviceStates
<1>3. ASSUME NEW s \in AllStates, NEW c \in Connections PROVE [s EXCEPT !.connection = c] \in DeviceStates
  <2>1. CASE s \in DeviceStates
    BY <2>1 DEF DeviceStates
  <2>2. CASE s = Unseen
    BY <2>2 DEF DeviceStates, Unseen
  <2> QED
    BY <2>1, <2>2 DEF AllStates
<1>4. \A s : ConnectionFromAdb(s) \in Connections
  BY DEF ConnectionFromAdb
<1>5. DeviceStates \subseteq AllStates
  BY DEF AllStates
<1>6. \A s \in DeviceStates : s # Unseen
  BY DEF DeviceStates, Unseen
<1>7. \A s \in AllStates : Online(s) => s # Unseen
  BY DEF Online, Unseen
<1> QED
  BY <1>1, <1>2, <1>3, <1>4, <1>5, <1>6, <1>7

LEMMA FrameStateIs ==
  ASSUME Types, NEW d \in Devices
  PROVE  FrameState(d) \in DeviceStates
<1> DEFINE c == ConnectionFromAdb(frame[d])
           k == Known(states[d])
           s == [k EXCEPT !.connection = c]
<1>1. k \in DeviceStates /\ c \in Connections
  BY SuccessorsAreStates DEF Types
<1>2. FrameState(d) = IF Online(s) THEN s ELSE WithoutTelemetry(s)
  BY DEF FrameState
<1> HIDE DEF k, c
<1>3. s \in DeviceStates
  BY <1>1, SuccessorsAreStates
<1> HIDE DEF s
<1> QED
  BY <1>2, <1>3, SuccessorsAreStates

LEMMA InitTypes == Init => Types /\ Locking
<1> SUFFICES ASSUME Init PROVE Types /\ Locking
  OBVIOUS
<1>1. adb \in Lists /\ frames \in Seq(Lists) /\ frame \in Lists
  BY DEF Init, Lists, AdbStates, Absent
<1>2. states \in [Devices -> AllStates]
  BY DEF Init, AllStates
<1>3. \A t \in Threads : pc[t] = "idle" /\ Phase(t) = "idle" /\ TypesOf(t)
  BY DEF Init, Phase, TypesOf, NoPlan
<1>4. Types
  BY <1>1, <1>2, <1>3 DEF Init, Types
<1>5. Main \in Threads /\ Nobody \notin Threads
  BY ObserverAssumption DEF Threads
<1>6. Locking
  BY <1>3, <1>5 DEF Init, Locking
<1> QED
  BY <1>4, <1>6

\* What a step leaves to a thread that does not take it.
LEMMA Untouched ==
  ASSUME NEW t \in Threads, TypesOf(t), pc'[t] = pc[t], plan'[t] = plan[t], write'[t] = write[t]
  PROVE  TypesOf(t)' /\ Phase(t)' = Phase(t)
BY DEF TypesOf, Phase

LEMMA FrameMoves ==
  ASSUME Types, TrackerStep
  PROVE  /\ adb' = adb /\ pollLock' = pollLock /\ states' = states /\ outbox' = outbox /\ view' = view /\ openings' = openings
         /\ pc'[Main] = pc[Main] /\ plan'[Main] = plan[Main] /\ write'[Main] = write[Main]
         /\ DOMAIN pc' = Threads /\ DOMAIN plan' = Threads /\ DOMAIN write' = Threads
<1>0. Tracker \in Threads /\ Main \in Threads /\ Main # Tracker
  BY ObserverAssumption DEF Threads
<1>1. CASE TakeFrame
  BY <1>0, <1>1 DEF Types, TakeFrame
<1>2. CASE ReadPresent
  BY <1>0, <1>2 DEF Types, ReadPresent, adbVars, flowVars
<1>3. CASE ListAbsent
  BY <1>0, <1>3 DEF Types, ListAbsent, adbVars, flowVars
<1>4. CASE WriteAbsent
  BY <1>0, <1>4 DEF Types, WriteAbsent, adbVars, flowVars
<1>5. CASE FrameDone
  BY <1>0, <1>5 DEF Types, FrameDone, adbVars, flowVars
<1> QED
  BY <1>1, <1>2, <1>3, <1>4, <1>5 DEF TrackerStep

LEMMA FrameTypes == Types /\ Locking /\ TrackerStep => (Types /\ Locking)'
<1> SUFFICES ASSUME Types, Locking, TrackerStep PROVE (Types /\ Locking)'
  OBVIOUS
<1>0. Tracker \in Threads /\ Main \in Threads /\ Main # Tracker /\ Nobody \notin Threads
  BY ObserverAssumption DEF Threads
<1>1. /\ adb' = adb /\ pollLock' = pollLock /\ states' = states /\ outbox' = outbox /\ view' = view /\ openings' = openings
      /\ pc'[Main] = pc[Main] /\ plan'[Main] = plan[Main] /\ write'[Main] = write[Main]
      /\ DOMAIN pc' = Threads /\ DOMAIN plan' = Threads /\ DOMAIN write' = Threads
  BY FrameMoves
<1>2. TypesOf(Main)' /\ Phase(Main)' = Phase(Main)
  BY <1>0, <1>1, Untouched DEF Types
<1>3. /\ frames' \in Seq(Lists) /\ frame' \in Lists /\ baselineSeen' \in BOOLEAN /\ frameDuringPoll' \in BOOLEAN
      /\ TypesOf(Tracker)' /\ Phase(Tracker) # "polling" /\ Phase(Tracker)' # "polling"
  <2>1. CASE TakeFrame
    <3>1. frames' \in Seq(Lists) /\ frame' \in Lists
      BY <2>1, HeadTailProperties DEF Types, TakeFrame
    <3>2. pc[Tracker] = "idle" /\ pc'[Tracker] = "present" /\ DOMAIN plan'[Tracker] \subseteq Devices
      BY <1>0, <2>1 DEF Types, TakeFrame
    <3>3. baselineSeen' \in BOOLEAN /\ frameDuringPoll' \in BOOLEAN
      BY <2>1 DEF Types, TakeFrame
    <3> QED
      BY <3>1, <3>2, <3>3 DEF TypesOf, Phase
  <2>2. CASE ReadPresent
    <3>1. PICK d \in DOMAIN plan[Tracker] :
            /\ pc[Tracker] = "present" /\ pc'[Tracker] = "apply"
            /\ write'[Tracker] = [device |-> d, new |-> FrameState(d), fresh |-> FALSE, from |-> "present"]
            /\ plan'[Tracker] = Without(plan[Tracker], d)
            /\ UNCHANGED <<adbVars, flowVars>>
      BY <1>0, <2>2 DEF Types, ReadPresent
    <3>2. d \in Devices /\ DOMAIN plan[Tracker] \subseteq Devices
      BY <1>0 DEF Types, TypesOf
    <3>3. FrameState(d) \in DeviceStates /\ DOMAIN plan'[Tracker] \subseteq Devices
      BY <3>1, <3>2, FrameStateIs DEF Without
    <3>4. TypesOf(Tracker)' /\ Phase(Tracker) # "polling" /\ Phase(Tracker)' # "polling"
      BY <3>1, <3>2, <3>3 DEF TypesOf, Phase
    <3> QED
      BY <3>1, <3>4 DEF Types, adbVars, flowVars
  <2>3. CASE ListAbsent
    <3>1. /\ pc[Tracker] = "present" /\ pc'[Tracker] = "absent"
          /\ plan'[Tracker] = [d \in {x \in Devices : /\ states[x] # Unseen /\ frame[x] = Absent
                                                      /\ states[x].connection # DISCONNECTED} |-> states[d]]
          /\ UNCHANGED <<adbVars, flowVars>>
      BY <1>0, <2>3 DEF Types, ListAbsent
    <3>2. TypesOf(Tracker)' /\ Phase(Tracker) # "polling" /\ Phase(Tracker)' # "polling"
      BY <3>1 DEF TypesOf, Phase, Types, AllStates
    <3> QED
      BY <3>1, <3>2 DEF Types, adbVars, flowVars
  <2>4. CASE WriteAbsent
    <3>1. PICK d \in DOMAIN plan[Tracker] :
            /\ pc[Tracker] = "absent" /\ pc'[Tracker] = "apply"
            /\ write'[Tracker] = [device |-> d, fresh |-> FALSE, from |-> "absent",
                 new |-> WithoutTelemetry([plan[Tracker][d] EXCEPT !.connection = DISCONNECTED])]
            /\ plan'[Tracker] = Without(plan[Tracker], d)
            /\ UNCHANGED <<adbVars, flowVars>>
      BY <1>0, <2>4 DEF Types, WriteAbsent
    <3>2. d \in Devices /\ DOMAIN plan[Tracker] \subseteq Devices /\ \A x \in DOMAIN plan[Tracker] : plan[Tracker][x] \in DeviceStates
      BY <1>0, <3>1 DEF Types, TypesOf, Phase
    <3> DEFINE p == plan[Tracker][d]
               n == [p EXCEPT !.connection = DISCONNECTED]
               new == WithoutTelemetry(n)
    <3>3. p \in AllStates /\ DISCONNECTED \in Connections
      BY <3>2 DEF AllStates, Connections
    <3> HIDE DEF p
    <3>4. n \in DeviceStates
      BY <3>3, SuccessorsAreStates
    <3> HIDE DEF n
    <3>5. new \in DeviceStates
      BY <3>4, SuccessorsAreStates
    <3>6. write'[Tracker].device = d /\ write'[Tracker].from = "absent" /\ write'[Tracker].new = new
      BY <3>1 DEF p, n
    <3>7. \A x \in DOMAIN plan'[Tracker] : x \in Devices /\ plan'[Tracker][x] \in DeviceStates
      BY <3>1, <3>2 DEF Without
    <3>8. pc'[Tracker] = "apply" /\ pc[Tracker] = "absent"
      BY <3>1
    <3> HIDE DEF new
    <3>9. TypesOf(Tracker)' /\ Phase(Tracker) # "polling" /\ Phase(Tracker)' # "polling"
      BY <3>2, <3>5, <3>6, <3>7, <3>8 DEF TypesOf, Phase
    <3> QED
      BY <3>1, <3>9 DEF Types, adbVars, flowVars
  <2>5. CASE FrameDone
    <3>1. /\ pc[Tracker] = "absent" /\ pc'[Tracker] = "lock" /\ plan' = plan
          /\ UNCHANGED <<adbVars, flowVars>>
      BY <1>0, <2>5 DEF Types, FrameDone
    <3>2. TypesOf(Tracker)' /\ Phase(Tracker) # "polling" /\ Phase(Tracker)' # "polling"
      BY <1>0, <3>1 DEF TypesOf, Phase, Types
    <3> QED
      BY <3>1, <3>2 DEF Types, adbVars, flowVars
  <2> QED
    BY <2>1, <2>2, <2>3, <2>4, <2>5 DEF TrackerStep
<1>4. \A t \in Threads : TypesOf(t)'
  BY <1>2, <1>3 DEF Threads
<1>5. Types'
  BY <1>1, <1>3, <1>4 DEF Types
<1>6. Locking'
  <2>1. \A t \in Threads : t = Main \/ t = Tracker
    BY DEF Threads
  <2>2. pollLock' = Main <=> Phase(Main)' = "polling"
    BY <1>0, <1>1, <1>2 DEF Locking
  <2>3. pollLock' = Tracker <=> Phase(Tracker)' = "polling"
    BY <1>0, <1>1, <1>3 DEF Locking
  <2> QED
    BY <1>1, <1>2, <2>1, <2>2, <2>3 DEF Locking
<1> QED
  BY <1>5, <1>6

LEMMA ListTypes ==
  ASSUME Types, Locking, NEW d \in Devices, NEW s \in AdbStates, AdbChanges(d, s)
  PROVE  (Types /\ Locking)'
<1>1. adb' \in Lists
  BY DEF AdbChanges, Types, Lists
<1>2. frames' \in Seq(Lists)
  BY <1>1 DEF AdbChanges, Types
<1>3. UNCHANGED <<flowVars, states, pc, plan, write, outbox, view, openings>>
  BY DEF AdbChanges
<1>4. \A t \in Threads : TypesOf(t)' /\ Phase(t)' = Phase(t)
  BY <1>3, Untouched DEF Types
<1>5. Types'
  BY <1>1, <1>2, <1>3, <1>4 DEF Types, flowVars
<1>6. Locking'
  BY <1>3, <1>4, ObserverAssumption DEF Locking, flowVars, Threads
<1> QED
  BY <1>5, <1>6

\* Only the thread that takes the step moves.
Moves(t) == /\ \A o \in Threads \ {t} : pc'[o] = pc[o] /\ plan'[o] = plan[o] /\ write'[o] = write[o]
            /\ DOMAIN pc' = Threads /\ DOMAIN plan' = Threads /\ DOMAIN write' = Threads
            /\ adb' = adb /\ frames' = frames /\ frame' = frame /\ baselineSeen' = baselineSeen

LEMMA PollMoves ==
  ASSUME Types, NEW t \in Threads, PollStep(t)
  PROVE  Moves(t)
<1>1. CASE StartPoll(t)
  BY <1>1 DEF Types, Moves, StartPoll, adbVars
<1>2. CASE Poll(t)
  <2>1. \E w, p : pc' = [pc EXCEPT ![t] = "apply"] /\ write' = [write EXCEPT ![t] = w] /\ plan' = [plan EXCEPT ![t] = p]
    BY <1>2 DEF Poll
  <2>2. UNCHANGED <<adbVars, flowVars>>
    BY <1>2 DEF Poll
  <2> QED
    BY <2>1, <2>2 DEF Types, Moves, adbVars, flowVars
<1>3. CASE EndPoll(t)
  BY <1>3 DEF Types, Moves, EndPoll, adbVars
<1>4. CASE Apply(t)
  <2>1. pc' = [pc EXCEPT ![t] = "sink"] /\ UNCHANGED <<adbVars, flowVars, plan, write>>
    BY <1>4 DEF Apply
  <2> QED
    BY <2>1 DEF Types, Moves, adbVars, flowVars
<1>5. CASE Sink(t)
  BY <1>5 DEF Types, Moves, Sink, adbVars, flowVars
<1>6. CASE Sunk(t)
  <2>1. pc' = [pc EXCEPT ![t] = write[t].from] /\ write' = [write EXCEPT ![t] = NoWrite] /\ plan' = plan /\ UNCHANGED <<adbVars, flowVars>>
    BY <1>6 DEF Sunk
  <2> QED
    BY <2>1 DEF Types, Moves, adbVars, flowVars
<1> QED
  BY <1>1, <1>2, <1>3, <1>4, <1>5, <1>6 DEF PollStep

LEMMA PollIs ==
  ASSUME Types, NEW t \in Threads, Poll(t)
  PROVE  /\ pc[t] = "polling" /\ pc'[t] = "apply"
         /\ UNCHANGED <<adbVars, flowVars, states, outbox, view, openings>>
         /\ \E d \in DOMAIN plan[t] :
              LET old == plan[t][d]
                  w == write'[t]
              IN  /\ d \in Devices /\ old \in DeviceStates /\ plan'[t] = Without(plan[t], d)
                  /\ w.device = d /\ w.from = "polling" /\ w.fresh = (old.battery = NoBattery)
                  /\ w.new \in DeviceStates /\ w.new.connection = old.connection
                  /\ old.battery # NoBattery => w.new.battery # NoBattery
<1>1. PICK d \in DOMAIN plan[t] :
        \E battery \in BatteryReadings(d), wifi \in WifiReadings(d) :
          LET old == plan[t][d] IN
          /\ pc[t] = "polling"
          /\ write' = [write EXCEPT ![t] =
               [device |-> d, fresh |-> old.battery = NoBattery, from |-> "polling",
                new |-> [old EXCEPT !.battery = IF battery = NoBattery THEN old.battery ELSE battery,
                                    !.wifi = wifi]]]
          /\ plan' = [plan EXCEPT ![t] = Without(@, d)]
          /\ pc' = [pc EXCEPT ![t] = "apply"]
          /\ UNCHANGED <<adbVars, flowVars, states, outbox, view, openings>>
  BY Zenon DEF Poll
<1> DEFINE old == plan[t][d]
<1>2. PICK battery \in BatteryReadings(d), wifi \in WifiReadings(d) :
          /\ pc[t] = "polling"
          /\ write' = [write EXCEPT ![t] =
               [device |-> d, fresh |-> old.battery = NoBattery, from |-> "polling",
                new |-> [old EXCEPT !.battery = IF battery = NoBattery THEN old.battery ELSE battery,
                                    !.wifi = wifi]]]
          /\ plan' = [plan EXCEPT ![t] = Without(@, d)]
          /\ pc' = [pc EXCEPT ![t] = "apply"]
          /\ UNCHANGED <<adbVars, flowVars, states, outbox, view, openings>>
  BY <1>1
<1> DEFINE b == IF battery = NoBattery THEN old.battery ELSE battery
           new == [old EXCEPT !.battery = b, !.wifi = wifi]
<1>3. d \in Devices /\ old \in DeviceStates
  BY <1>2 DEF Types, TypesOf, Phase
<1> HIDE DEF old
<1>4. new \in DeviceStates /\ new.connection = old.connection /\ (old.battery # NoBattery => new.battery # NoBattery)
  <2>1. b \in Batteries /\ wifi \in Ssids \union {NoWifi} /\ (old.battery # NoBattery => b # NoBattery)
    BY <1>3 DEF BatteryReadings, WifiReadings, Batteries, DeviceStates
  <2> HIDE DEF b
  <2> QED
    BY <1>3, <2>1 DEF DeviceStates
<1> HIDE DEF new
<1>5. /\ write'[t].device = d /\ write'[t].from = "polling" /\ write'[t].fresh = (old.battery = NoBattery)
      /\ write'[t].new = new
      /\ pc'[t] = "apply" /\ plan'[t] = Without(plan[t], d)
  BY <1>2 DEF Types, new
<1> QED
  BY <1>2, <1>3, <1>4, <1>5 DEF old

LEMMA PollTypes ==
  ASSUME Types, Locking, NEW t \in Threads, PollStep(t)
  PROVE  (Types /\ Locking)'
<1>1. Moves(t)
  BY PollMoves
<1>2. \A o \in Threads \ {t} : TypesOf(o)' /\ Phase(o)' = Phase(o)
  BY <1>1, Untouched DEF Types, Moves
<1>3. TypesOf(t) /\ Nobody \notin Threads /\ Main \in Threads /\ Tracker \in Threads /\ Main # Tracker
  BY ObserverAssumption DEF Types, Threads
<1> DEFINE Kept == /\ states' \in [Devices -> AllStates] /\ frameDuringPoll' \in BOOLEAN
                   /\ DOMAIN outbox' = Threads /\ DOMAIN view' = Devices /\ DOMAIN openings' = Devices
<1>4. CASE StartPoll(t)
  <2>1. /\ pc[t] = "lock" /\ pc'[t] = "polling" /\ pollLock = Nobody /\ pollLock' = t
        /\ plan'[t] = [d \in {x \in Devices : Online(states[x])} |-> states[d]]
        /\ Kept
    BY <1>4 DEF StartPoll, PollLockFree, Types
  <2>2. \A d \in DOMAIN plan'[t] : plan'[t][d] \in DeviceStates
    BY <2>1, SuccessorsAreStates DEF Types, AllStates
  <2>3. TypesOf(t)' /\ Phase(t)' = "polling"
    BY <2>1, <2>2 DEF TypesOf, Phase
  <2>4. Types'
    BY <1>1, <1>2, <2>1, <2>3 DEF Types, Moves
  <2>5. \A o \in Threads : pollLock' = o <=> Phase(o)' = "polling"
    BY <1>2, <1>3, <2>1, <2>3 DEF Locking
  <2>6. Locking'
    BY <1>2, <1>3, <2>1, <2>3, <2>5 DEF Locking
  <2> QED
    BY <2>4, <2>6
<1>5. CASE EndPoll(t)
  <2>1. /\ pc[t] = "polling" /\ pc'[t] = "idle" /\ pollLock' = Nobody /\ plan' = plan /\ write' = write
        /\ Kept
    BY <1>5 DEF EndPoll, Types
  <2>2. TypesOf(t)' /\ Phase(t)' = "idle" /\ Phase(t) = "polling"
    BY <1>3, <2>1 DEF TypesOf, Phase
  <2>3. Types'
    BY <1>1, <1>2, <2>1, <2>2 DEF Types, Moves
  <2>4. \A o \in Threads : pollLock' = o <=> Phase(o)' = "polling"
    BY <1>2, <1>3, <2>1, <2>2 DEF Locking
  <2>5. Locking'
    BY <1>2, <1>3, <2>1, <2>2, <2>4 DEF Locking
  <2> QED
    BY <2>3, <2>5
<1>6. CASE Poll(t) \/ Apply(t) \/ Sink(t) \/ Sunk(t)
  <2>1. pollLock' = pollLock
    BY <1>6 DEF Poll, Apply, Sink, Sunk, flowVars
  <2>2. Kept /\ TypesOf(t)' /\ Phase(t)' = Phase(t)
    <3>1. CASE Poll(t)
      <4>1. /\ pc[t] = "polling" /\ pc'[t] = "apply"
            /\ UNCHANGED <<adbVars, flowVars, states, outbox, view, openings>>
        BY <3>1, PollIs
      <4>2. PICK d \in DOMAIN plan[t] :
              /\ d \in Devices /\ plan'[t] = Without(plan[t], d)
              /\ write'[t].device = d /\ write'[t].from = "polling" /\ write'[t].new \in DeviceStates
        BY <3>1, PollIs
      <4>3. DOMAIN plan[t] \subseteq Devices /\ \A x \in DOMAIN plan[t] : plan[t][x] \in DeviceStates
        BY <1>3, <4>1 DEF TypesOf, Phase
      <4>4. \A x \in DOMAIN plan'[t] : x \in Devices /\ plan'[t][x] \in DeviceStates
        BY <4>2, <4>3 DEF Without
      <4>5. Kept
        BY <4>1 DEF Types, flowVars
      <4> QED
        BY <4>1, <4>2, <4>4, <4>5 DEF TypesOf, Phase
    <3>2. CASE Apply(t)
      <4>1. /\ pc[t] = "apply" /\ pc'[t] = "sink" /\ plan' = plan /\ write' = write
            /\ states' = [states EXCEPT ![write[t].device] = write[t].new]
            /\ frameDuringPoll' = frameDuringPoll /\ view' = view
        BY <3>2 DEF Apply, Types, flowVars
      <4>2. DOMAIN outbox' = Threads /\ DOMAIN openings' = Devices
        BY <3>2 DEF Apply, Types
      <4>3. write[t].device \in Devices /\ write[t].new \in AllStates
        BY <1>3, <4>1, SuccessorsAreStates DEF TypesOf
      <4>4. states' \in [Devices -> AllStates]
        BY <4>1, <4>3 DEF Types
      <4>5. TypesOf(t)' /\ Phase(t)' = Phase(t)
        BY <1>3, <4>1 DEF TypesOf, Phase
      <4> QED
        BY <4>1, <4>2, <4>4, <4>5 DEF Types
    <3>3. CASE Sink(t)
      <4>1. pc' = pc /\ plan' = plan /\ write' = write /\ states' = states /\ openings' = openings /\ frameDuringPoll' = frameDuringPoll
        BY <3>3 DEF Sink, flowVars
      <4>2. DOMAIN outbox' = Threads /\ DOMAIN view' = Devices
        BY <3>3 DEF Sink, Types
      <4>3. Kept
        BY <4>1, <4>2 DEF Types
      <4>4. pc'[t] = pc[t] /\ plan'[t] = plan[t] /\ write'[t] = write[t]
        BY <4>1
      <4> QED
        BY <1>3, <4>3, <4>4, Untouched
    <3>4. CASE Sunk(t)
      <4>1. /\ pc[t] = "sink" /\ pc'[t] = write[t].from /\ plan' = plan
            /\ states' = states /\ openings' = openings /\ frameDuringPoll' = frameDuringPoll
            /\ outbox' = outbox /\ view' = view
        BY <3>4 DEF Sunk, Types, flowVars
      <4>2. write[t].from \in {"present", "absent", "polling"}
        BY <1>3, <4>1 DEF TypesOf
      <4>3. TypesOf(t)' /\ Phase(t)' = Phase(t)
        BY <1>3, <4>1, <4>2 DEF TypesOf, Phase
      <4> QED
        BY <4>1, <4>3 DEF Types
    <3> QED
      BY <1>6, <3>1, <3>2, <3>3, <3>4
  <2>3. Types'
    BY <1>1, <1>2, <2>2 DEF Types, Moves
  <2>4. \A o \in Threads : Phase(o)' = Phase(o)
    BY <1>2, <2>2
  <2>5. Locking'
    BY <1>3, <2>1, <2>4 DEF Locking
  <2> QED
    BY <2>3, <2>5
<1> QED
  BY <1>4, <1>5, <1>6 DEF PollStep

LEMMA TimerTypes == Types /\ Locking /\ TimerFires => (Types /\ Locking)'
<1> SUFFICES ASSUME Types, Locking, TimerFires PROVE (Types /\ Locking)'
  OBVIOUS
<1>1. Main \in Threads /\ Tracker \in Threads /\ Main # Tracker /\ \A t \in Threads : t = Main \/ t = Tracker
  BY ObserverAssumption DEF Threads
<1>2. /\ pc[Main] = "idle" /\ pc'[Main] = "lock" /\ pc'[Tracker] = pc[Tracker] /\ DOMAIN pc' = Threads
      /\ pollLock' = pollLock /\ UNCHANGED <<adbVars, baseline, baselineSeen, frame, frameDuringPoll, states, plan, write, outbox, view, openings>>
  BY <1>1 DEF TimerFires, Types
<1>3. TypesOf(Tracker)' /\ Phase(Tracker)' = Phase(Tracker)
  BY <1>1, <1>2, Untouched DEF Types
<1>4. TypesOf(Main)' /\ Phase(Main)' = "lock" /\ Phase(Main) = "idle"
  BY <1>1, <1>2 DEF Types, TypesOf, Phase
<1>5. Types'
  BY <1>1, <1>2, <1>3, <1>4 DEF Types, adbVars
<1>6. Locking'
  BY <1>1, <1>2, <1>3, <1>4 DEF Locking
<1> QED
  BY <1>5, <1>6

LEMMA StepTypes == Types /\ Locking /\ [Next]_vars => (Types /\ Locking)'
<1> SUFFICES ASSUME Types, Locking, [Next]_vars PROVE (Types /\ Locking)'
  OBVIOUS
<1>1. CASE UNCHANGED vars
  <2>1. UNCHANGED <<adbVars, flowVars, states, pc, plan, write, outbox, view, openings>>
    BY <1>1 DEF vars
  <2>2. \A t \in Threads : TypesOf(t)' /\ Phase(t)' = Phase(t)
    BY <2>1, Untouched DEF Types
  <2>3. Types'
    BY <2>1, <2>2 DEF Types, adbVars, flowVars
  <2>4. Locking'
    BY <2>1, <2>2, ObserverAssumption DEF Locking, flowVars, Threads
  <2> QED
    BY <2>3, <2>4
<1> QED
  BY <1>1, ListTypes, FrameTypes, TimerTypes, PollTypes DEF Next

(***************************************************************************)
(* One thread at a time, and what it has read                              *)
(***************************************************************************)
LEMMA MainRests ==
  ASSUME Types, Locking, pollLock # Main
  PROVE  ~Active(Main)
<1>1. Main \in Threads /\ TypesOf(Main)
  BY DEF Types, Threads
<1>2. Phase(Main) \in {"idle", "lock"}
  BY <1>1 DEF Locking
<1> QED
  BY <1>1, <1>2 DEF Phase, Active, TypesOf

\* While no frame overlaps a timer poll, a thread that takes a step is alone.
LEMMA Alone ==
  ASSUME Types, Locking, OneAtWork, ~frameDuringPoll',
         NEW t \in Threads, NEW o \in Threads \ {t}, PollStep(t) \/ (t = Tracker /\ TrackerStep)
  PROVE  ~Active(o) /\ pc'[o] = pc[o]
<1>0. Tracker \in Threads /\ Main \in Threads /\ Main # Tracker /\ {t, o} = {Main, Tracker}
  BY ObserverAssumption DEF Threads
<1>1. pc'[o] = pc[o]
  <2>1. CASE PollStep(t)
    BY <2>1, PollMoves DEF Moves
  <2>2. CASE t = Tracker /\ TrackerStep
    BY <1>0, <2>2, FrameMoves
  <2> QED
    BY <2>1, <2>2
<1>2. CASE Active(t)
  BY <1>0, <1>1, <1>2 DEF OneAtWork
<1>3. CASE StartPoll(t) /\ t = Main
  <2>1. pc[Tracker] \in {"idle", "lock"}
    BY <1>3 DEF StartPoll
  <2> QED
    BY <1>0, <1>1, <1>3, <2>1 DEF Active
<1>4. CASE StartPoll(t) /\ t # Main
  <2>1. pollLock # Main
    BY <1>0, <1>4, ObserverAssumption DEF StartPoll, PollLockFree, Threads
  <2> QED
    BY <1>0, <1>1, <1>4, <2>1, MainRests
<1>5. CASE TakeFrame /\ t = Tracker
  <2>1. pollLock # Main
    BY <1>5 DEF TakeFrame
  <2> QED
    BY <1>0, <1>1, <1>5, <2>1, MainRests
<1>6. Active(t) \/ StartPoll(t) \/ (TakeFrame /\ t = Tracker)
  <2>1. PollStep(t) => Active(t) \/ StartPoll(t)
    BY DEF PollStep, Poll, EndPoll, Apply, Sink, Sunk, Active
  <2>2. TrackerStep => Active(Tracker) \/ TakeFrame
    BY DEF TrackerStep, ReadPresent, ListAbsent, WriteAbsent, FrameDone, Active
  <2> QED
    BY <2>1, <2>2
<1> QED
  BY <1>2, <1>3, <1>4, <1>5, <1>6

LEMMA StillAlone ==
  ASSUME Types, Locking, OneAtWork, ~frameDuringPoll', Next
  PROVE  OneAtWork'
<1>0. Tracker \in Threads /\ Main \in Threads /\ Main # Tracker
  BY ObserverAssumption DEF Threads
<1>1. CASE \E d \in Devices, s \in AdbStates : AdbChanges(d, s)
  <2>1. pc' = pc
    BY <1>1 DEF AdbChanges
  <2> QED
    BY <2>1 DEF OneAtWork, Active
<1>2. CASE TimerFires
  BY <1>0, <1>2 DEF TimerFires, OneAtWork, Active, Types
<1>3. CASE TrackerStep
  BY <1>0, <1>3, Alone DEF OneAtWork, Active
<1>4. CASE \E t \in Threads : PollStep(t)
  <2>1. PICK t \in Threads : PollStep(t)
    BY <1>4
  <2>2. PICK o \in Threads : o # t /\ {o, t} = {Main, Tracker}
    BY <1>0 DEF Threads
  <2>3. ~Active(o) /\ pc'[o] = pc[o]
    BY <2>1, <2>2, Alone
  <2> QED
    BY <2>2, <2>3 DEF OneAtWork, Active
<1> QED
  BY <1>1, <1>2, <1>3, <1>4 DEF Next

LEMMA RestingStands ==
  ASSUME NEW t \in Threads, pc'[t] \in {"idle", "lock"}
  PROVE  ReadStands(t)'
BY DEF ReadStands, Phase

LEMMA FrameStands ==
  ASSUME Types, TrackerStep, ReadStands(Tracker)
  PROVE  ReadStands(Tracker)'
<1>0. Tracker \in Threads /\ TypesOf(Tracker) /\ states' = states
  BY FrameMoves DEF Threads, Types
<1>1. CASE TakeFrame
  <2>1. /\ pc'[Tracker] = "present"
        /\ plan'[Tracker] = [d \in {x \in Devices : frame'[x] # Absent} |-> Unseen]
    BY <1>0, <1>1 DEF Types, TakeFrame
  <2> QED
    BY <2>1 DEF ReadStands, Phase
<1>2. CASE ReadPresent
  <2>1. PICK d \in DOMAIN plan[Tracker] :
          /\ pc[Tracker] = "present" /\ pc'[Tracker] = "apply" /\ frame' = frame
          /\ write'[Tracker] = [device |-> d, new |-> FrameState(d), fresh |-> FALSE, from |-> "present"]
          /\ plan'[Tracker] = Without(plan[Tracker], d)
    BY <1>0, <1>2 DEF Types, ReadPresent, flowVars
  <2> DEFINE w == write'[Tracker]
  <2>2. /\ w.device = d /\ w.from = "present" /\ ~w.fresh /\ w.new = FrameState(d)
        /\ frame'[d] # Absent /\ FrameState(d)' = FrameState(d)
    BY <1>0, <2>1 DEF ReadStands, Phase, FrameState
  <2>3. Prepared(Tracker)'
    BY <2>2 DEF Prepared
  <2>4. /\ \A x \in DOMAIN plan'[Tracker] : x \in DOMAIN plan[Tracker]
        /\ d \notin DOMAIN plan'[Tracker]
    BY <2>1 DEF Without
  <2>5. \A x \in DOMAIN plan[Tracker] : frame[x] # Absent
    BY <2>1 DEF ReadStands, Phase
  <2>6. pc'[Tracker] = "apply" /\ Phase(Tracker)' = "present" /\ frame' = frame /\ write'[Tracker].device = d
    BY <2>1, <2>2 DEF Phase
  <2> QED
    BY <2>3, <2>4, <2>5, <2>6 DEF ReadStands
<1>3. CASE ListAbsent
  <2>1. /\ pc'[Tracker] = "absent" /\ frame' = frame
        /\ plan'[Tracker] = [d \in {x \in Devices : /\ states[x] # Unseen /\ frame[x] = Absent
                                                    /\ states[x].connection # DISCONNECTED} |-> states[d]]
    BY <1>0, <1>3 DEF Types, ListAbsent, flowVars
  <2> QED
    BY <1>0, <2>1 DEF ReadStands, Phase
<1>4. CASE WriteAbsent
  <2>1. PICK d \in DOMAIN plan[Tracker] :
          /\ pc[Tracker] = "absent" /\ pc'[Tracker] = "apply" /\ frame' = frame
          /\ write'[Tracker] = [device |-> d, fresh |-> FALSE, from |-> "absent",
               new |-> WithoutTelemetry([plan[Tracker][d] EXCEPT !.connection = DISCONNECTED])]
          /\ plan'[Tracker] = Without(plan[Tracker], d)
    BY <1>0, <1>4 DEF Types, WriteAbsent, flowVars
  <2>2. \A x \in DOMAIN plan[Tracker] : frame[x] = Absent /\ states[x] # Unseen /\ plan[Tracker][x] = states[x]
    BY <2>1 DEF ReadStands, Phase
  <2> DEFINE w == write'[Tracker]
  <2>3. /\ w.device = d /\ w.from = "absent" /\ ~w.fresh
        /\ w.new = WithoutTelemetry([states[d] EXCEPT !.connection = DISCONNECTED])
        /\ frame'[d] = Absent /\ states'[d] # Unseen /\ states'[d] = states[d]
    BY <1>0, <2>1, <2>2
  <2>4. Prepared(Tracker)'
    BY <2>3 DEF Prepared
  <2>5. /\ \A x \in DOMAIN plan'[Tracker] : x \in DOMAIN plan[Tracker] /\ plan'[Tracker][x] = plan[Tracker][x]
        /\ d \notin DOMAIN plan'[Tracker]
    BY <2>1 DEF Without
  <2>6. pc'[Tracker] = "apply" /\ Phase(Tracker)' = "absent" /\ frame' = frame /\ write'[Tracker].device = d
    BY <2>1, <2>3 DEF Phase
  <2> QED
    BY <1>0, <2>2, <2>4, <2>5, <2>6 DEF ReadStands
<1>5. CASE FrameDone
  <2>1. pc'[Tracker] = "lock"
    BY <1>0, <1>5 DEF Types, FrameDone
  <2> QED
    BY <1>0, <2>1, RestingStands
<1> QED
  BY <1>1, <1>2, <1>3, <1>4, <1>5 DEF TrackerStep

LEMMA PollStands ==
  ASSUME Types, NEW t \in Threads, PollStep(t), ReadStands(t)
  PROVE  ReadStands(t)'
<1>0. TypesOf(t) /\ Moves(t)
  BY PollMoves DEF Types
<1>1. CASE StartPoll(t)
  <2>1. /\ pc'[t] = "polling" /\ states' = states
        /\ plan'[t] = [d \in {x \in Devices : Online(states[x])} |-> states[d]]
    BY <1>1 DEF StartPoll, Types
  <2> QED
    BY <2>1 DEF ReadStands, Phase
<1>2. CASE Poll(t)
  <2>1. pc[t] = "polling" /\ pc'[t] = "apply" /\ states' = states
    BY <1>2, PollIs
  <2>2. \A d \in DOMAIN plan[t] : Online(states[d]) /\ plan[t][d] = states[d]
    BY <2>1 DEF ReadStands, Phase
  <2>3. PICK d \in DOMAIN plan[t] :
          /\ plan'[t] = Without(plan[t], d)
          /\ write'[t].device = d /\ write'[t].from = "polling"
          /\ write'[t].fresh = (plan[t][d].battery = NoBattery)
          /\ write'[t].new.connection = plan[t][d].connection
          /\ plan[t][d].battery # NoBattery => write'[t].new.battery # NoBattery
    BY <1>2, PollIs
  <2>4. plan[t][d] = states'[d] /\ Online(states'[d]) /\ Online(write'[t].new)
    BY <2>1, <2>2, <2>3 DEF Online
  <2>5. Prepared(t)'
    BY <2>3, <2>4, Zenon DEF Prepared
  <2>6. /\ \A x \in DOMAIN plan'[t] : x \in DOMAIN plan[t] /\ plan'[t][x] = plan[t][x]
        /\ d \notin DOMAIN plan'[t]
    BY <2>3 DEF Without
  <2>7. Phase(t)' = "polling"
    BY <2>1, <2>3 DEF Phase
  <2> QED
    BY <2>1, <2>2, <2>3, <2>5, <2>6, <2>7 DEF ReadStands
<1>3. CASE EndPoll(t)
  <2>1. pc'[t] = "idle"
    BY <1>3 DEF EndPoll, Types
  <2> QED
    BY <2>1, RestingStands
<1>4. CASE Apply(t)
  <2>1. /\ pc[t] = "apply" /\ pc'[t] = "sink" /\ plan' = plan /\ write' = write
        /\ states' = [states EXCEPT ![write[t].device] = write[t].new]
    BY <1>4 DEF Apply, Types
  <2>2. Phase(t)' = Phase(t) /\ write[t].device \notin DOMAIN plan[t] /\ frame' = frame
    BY <1>0, <2>1 DEF Phase, ReadStands, Moves
  <2>3. \A d \in DOMAIN plan[t] : d \in Devices /\ states'[d] = states[d]
    BY <1>0, <2>1, <2>2 DEF Types, TypesOf
  <2> QED
    BY <2>1, <2>2, <2>3 DEF ReadStands
<1>5. CASE Sink(t)
  <2>1. pc' = pc /\ plan' = plan /\ write' = write /\ states' = states /\ frame' = frame /\ pc[t] = "sink"
    BY <1>0, <1>5 DEF Sink, Moves
  <2> QED
    BY <2>1 DEF ReadStands, Phase
<1>6. CASE Sunk(t)
  <2>1. pc'[t] = write[t].from /\ plan' = plan /\ states' = states /\ frame' = frame /\ pc[t] = "sink"
    BY <1>0, <1>6 DEF Sunk, Moves, Types
  <2>2. Phase(t)' = Phase(t) /\ pc'[t] \notin {"apply", "sink"}
    BY <1>0, <2>1 DEF TypesOf, Phase
  <2> QED
    BY <2>1, <2>2 DEF ReadStands
<1> QED
  BY <1>1, <1>2, <1>3, <1>4, <1>5, <1>6 DEF PollStep

LEMMA StillStands ==
  ASSUME Types, Locking, OneAtWork, \A t \in Threads : ReadStands(t), ~frameDuringPoll', Next
  PROVE  \A t \in Threads : ReadStands(t)'
<1>0. Tracker \in Threads /\ Main \in Threads /\ Main # Tracker /\ \A t \in Threads : t = Main \/ t = Tracker
  BY ObserverAssumption DEF Threads
<1>1. CASE \E d \in Devices, s \in AdbStates : AdbChanges(d, s)
  <2>1. pc' = pc /\ plan' = plan /\ write' = write /\ states' = states /\ frame' = frame
    BY <1>1 DEF AdbChanges, flowVars
  <2>2. \A t \in Threads : Phase(t)' = Phase(t)
    BY <2>1 DEF Phase
  <2>3. \A t \in Threads : Prepared(t)' <=> Prepared(t)
    BY <2>1 DEF Prepared, FrameState
  <2> QED
    BY <2>1, <2>2, <2>3 DEF ReadStands
<1>2. CASE TimerFires
  <2>1. pc'[Main] = "lock" /\ pc'[Tracker] = pc[Tracker] /\ plan' = plan /\ write' = write /\ states' = states /\ frame' = frame
    BY <1>0, <1>2 DEF TimerFires, Types
  <2>2. ReadStands(Main)'
    BY <1>0, <2>1, RestingStands
  <2>3. Phase(Tracker)' = Phase(Tracker) /\ (Prepared(Tracker)' <=> Prepared(Tracker))
    BY <2>1 DEF Phase, Prepared, FrameState
  <2>4. ReadStands(Tracker)'
    BY <1>0, <2>1, <2>3 DEF ReadStands
  <2> QED
    BY <1>0, <2>2, <2>4
<1>3. CASE TrackerStep
  <2>1. pc'[Main] \in {"idle", "lock"}
    BY <1>0, <1>3, Alone DEF Active
  <2> QED
    BY <1>0, <1>3, <2>1, RestingStands, FrameStands
<1>4. ASSUME NEW t \in Threads, PollStep(t)
      PROVE  \A o \in Threads : ReadStands(o)'
  <2>1. ReadStands(t)'
    BY <1>4, PollStands
  <2>2. ASSUME NEW o \in Threads \ {t} PROVE ReadStands(o)'
    <3>1. pc'[o] \in {"idle", "lock"}
      BY <1>4, Alone DEF Active
    <3> QED
      BY <3>1, RestingStands
  <2> QED
    BY <2>1, <2>2
<1> QED
  BY <1>1, <1>2, <1>3, <1>4 DEF Next

(***************************************************************************)
(* The observed connections follow the frames                              *)
(***************************************************************************)

\* The last frame the ADB server has sent is what it knows.
LEMMA NewestStays ==
  ASSUME Types, Newest = adb, Next
  PROVE  Newest' = adb'
<1>1. CASE \E d \in Devices, s \in AdbStates : AdbChanges(d, s)
  <2>1. frames' = Append(frames, adb') /\ frames \in Seq(Lists)
    BY <1>1 DEF AdbChanges, Types
  <2>2. frames' # <<>> /\ frames'[Len(frames')] = adb'
    BY <2>1
  <2> QED
    BY <2>2 DEF Newest
<1>2. CASE TakeFrame
  <2>1. /\ frames # <<>> /\ frame' = Head(frames) /\ frames' = Tail(frames) /\ adb' = adb
        /\ frames \in Seq(Lists)
    BY <1>2 DEF TakeFrame, Types
  <2>2. frames[Len(frames)] = adb
    BY <2>1 DEF Newest
  <2>3. CASE Len(frames) = 1
    <3>1. frames' = <<>> /\ frame' = frames[1]
      BY <2>1, <2>3
    <3> QED
      BY <2>1, <2>2, <2>3, <3>1 DEF Newest
  <2>4. CASE Len(frames) # 1
    <3> DEFINE n == Len(frames)
               m == n - 1
    <3>0. n \in Nat /\ n # 0 /\ n # 1 /\ Len(frames') = m
      BY <2>1, <2>4, HeadTailProperties, EmptySeq
    <3>1. n \in Nat /\ n >= 2 /\ Len(frames') = m /\ m >= 1 /\ m + 1 = n /\ m \in 1 .. n - 1
      BY <3>0
    <3>2. \A i \in 1 .. n - 1 : frames'[i] = frames[i + 1]
      BY <2>1
    <3> HIDE DEF m, n
    <3>3. frames'[m] = frames[n] /\ frames' # <<>>
      BY <3>1, <3>2
    <3>4. frames' # <<>> /\ frames'[Len(frames')] = frames[Len(frames)]
      BY <3>1, <3>3 DEF n
    <3> QED
      BY <2>1, <2>2, <3>4 DEF Newest
  <2> QED
    BY <2>3, <2>4
<1>3. CASE ReadPresent \/ ListAbsent \/ WriteAbsent \/ FrameDone
  <2>1. UNCHANGED <<adbVars, flowVars>>
    BY <1>3 DEF ReadPresent, ListAbsent, WriteAbsent, FrameDone
  <2> QED
    BY <2>1 DEF Newest, adbVars, flowVars
<1>4. CASE TimerFires
  BY <1>4 DEF TimerFires, Newest, adbVars
<1>5. CASE \E t \in Threads : PollStep(t)
  BY <1>5, PollMoves DEF Moves, Newest
<1> QED
  BY <1>1, <1>2, <1>3, <1>4, <1>5 DEF Next, TrackerStep

\* The two conditions under which the state of a device follows the frame.
Settled(d) == d \notin DOMAIN plan[Tracker] /\ ~Applying(Tracker, d) /\ (Phase(Tracker) = "present" => frame[d] # Absent)
AllSettled == Phase(Tracker) \notin {"present", "absent"}

LEMMA FrameFollowed ==
  ASSUME Types, TrackerStep, Followed, ReadStands(Tracker), NEW d \in Devices
  PROVE  baselineSeen' /\ (Settled(d)' \/ AllSettled' => Agrees(d)')
<1>0. /\ Tracker \in Threads /\ TypesOf(Tracker) /\ states' = states
      /\ (baselineSeen => (Settled(d) => Agrees(d)) /\ (AllSettled => Agrees(d)))
  BY FrameMoves DEF Threads, Types, Followed, Settled, AllSettled
<1>1. CASE TakeFrame
  <2>1. /\ pc'[Tracker] = "present" /\ baselineSeen'
        /\ DOMAIN plan'[Tracker] = {x \in Devices : frame'[x] # Absent}
    BY <1>0, <1>1 DEF Types, TakeFrame
  <2>2. ~Settled(d)' /\ ~AllSettled'
    BY <2>1 DEF Settled, AllSettled, Phase
  <2> QED
    BY <2>1, <2>2
<1>2. CASE ReadPresent \/ ListAbsent \/ WriteAbsent \/ FrameDone
  <2>1. frame' = frame /\ baselineSeen' = baselineSeen /\ pc[Tracker] # "idle"
    BY <1>2 DEF ReadPresent, ListAbsent, WriteAbsent, FrameDone, flowVars
  <2>2. baselineSeen /\ baselineSeen' /\ (Agrees(d)' <=> Agrees(d))
    BY <1>0, <2>1 DEF Followed, Agrees, Types
  <2>3. CASE ReadPresent
    <3>1. PICK x \in DOMAIN plan[Tracker] :
            /\ pc[Tracker] = "present" /\ pc'[Tracker] = "apply"
            /\ write'[Tracker].device = x /\ write'[Tracker].from = "present"
            /\ plan'[Tracker] = Without(plan[Tracker], x)
      BY <1>0, <2>3 DEF Types, ReadPresent
    <3>2. ~AllSettled' /\ (Settled(d)' => Settled(d))
      BY <2>1, <3>1 DEF AllSettled, Settled, Phase, Applying, Without
    <3> QED
      BY <1>0, <2>2, <3>2
  <2>4. CASE WriteAbsent
    <3>1. PICK x \in DOMAIN plan[Tracker] :
            /\ pc[Tracker] = "absent" /\ pc'[Tracker] = "apply"
            /\ write'[Tracker].device = x /\ write'[Tracker].from = "absent"
            /\ plan'[Tracker] = Without(plan[Tracker], x)
      BY <1>0, <2>4 DEF Types, WriteAbsent
    <3>2. ~AllSettled' /\ (Settled(d)' => Settled(d))
      BY <2>1, <3>1 DEF AllSettled, Settled, Phase, Applying, Without
    <3> QED
      BY <1>0, <2>2, <3>2
  <2>5. CASE ListAbsent
    <3>1. /\ pc[Tracker] = "present" /\ pc'[Tracker] = "absent" /\ DOMAIN plan[Tracker] = {}
          /\ DOMAIN plan'[Tracker] = {x \in Devices : /\ states[x] # Unseen /\ frame[x] = Absent
                                                      /\ states[x].connection # DISCONNECTED}
      BY <1>0, <2>5 DEF Types, ListAbsent, NoPlan
    <3>2. ~AllSettled'
      BY <3>1 DEF AllSettled, Phase
    <3>3. CASE frame[d] # Absent
      BY <1>0, <2>2, <3>1, <3>2, <3>3 DEF Settled, Applying
    <3>4. CASE frame[d] = Absent
      <4>1. Settled(d)' => states[d] = Unseen \/ states[d].connection = DISCONNECTED
        BY <3>1, <3>4 DEF Settled
      <4>2. ConnectionFromAdb(frame[d]) = DISCONNECTED
        BY <3>4 DEF ConnectionFromAdb, Absent
      <4> QED
        BY <2>2, <3>2, <4>1, <4>2 DEF Agrees
    <3> QED
      BY <3>3, <3>4
  <2>6. CASE FrameDone
    <3>1. pc[Tracker] = "absent" /\ DOMAIN plan[Tracker] = {}
      BY <2>6 DEF FrameDone, NoPlan
    <3>2. Settled(d)
      BY <3>1 DEF Settled, Applying, Phase
    <3> QED
      BY <1>0, <2>2, <3>2
  <2> QED
    BY <1>2, <2>3, <2>4, <2>5, <2>6
<1> QED
  BY <1>1, <1>2 DEF TrackerStep

LEMMA PollFollowed ==
  ASSUME Types, Locking, OneAtWork, ~frameDuringPoll', NEW t \in Threads, PollStep(t), Followed, ReadStands(t),
         baselineSeen, NEW d \in Devices, Settled(d)' \/ AllSettled'
  PROVE  Agrees(d)'
<1>0. /\ Tracker \in Threads /\ TypesOf(t) /\ TypesOf(Tracker) /\ Moves(t) /\ frame' = frame
      /\ (Settled(d) => Agrees(d)) /\ (AllSettled => Agrees(d))
  BY PollMoves DEF Threads, Types, Followed, Settled, AllSettled, Moves
<1>1. CASE StartPoll(t) \/ Poll(t) \/ EndPoll(t)
  <2>1. states' = states /\ pc[t] \in {"lock", "polling"}
    BY <1>1 DEF StartPoll, Poll, EndPoll
  <2>2. CASE t = Tracker
    <3>1. AllSettled
      BY <2>1, <2>2 DEF AllSettled, Phase
    <3> QED
      BY <1>0, <2>1, <3>1 DEF Agrees
  <2>3. CASE t # Tracker
    <3>1. (Settled(d)' <=> Settled(d)) /\ (AllSettled' <=> AllSettled)
      BY <1>0, <2>3 DEF Settled, AllSettled, Phase, Applying, Moves
    <3> QED
      BY <1>0, <2>1, <3>1 DEF Agrees
  <2> QED
    BY <2>2, <2>3
<1>2. CASE Sink(t) \/ Sunk(t)
  <2>1. states' = states /\ plan' = plan /\ pc[t] = "sink"
    BY <1>2 DEF Sink, Sunk
  <2>2. Phase(Tracker)' = Phase(Tracker) /\ (Applying(Tracker, d)' <=> Applying(Tracker, d))
    <3>1. CASE Sink(t)
      BY <3>1 DEF Sink, Phase, Applying
    <3>2. CASE Sunk(t)
      <4>1. pc'[t] = write[t].from
        BY <3>2 DEF Sunk, Types
      <4>2. pc'[t] \in {"present", "absent", "polling"}
        BY <1>0, <2>1, <4>1 DEF TypesOf
      <4>3. CASE t = Tracker
        BY <2>1, <4>1, <4>2, <4>3 DEF Phase, Applying
      <4>4. CASE t # Tracker
        BY <1>0, <4>4 DEF Phase, Applying, Moves
      <4> QED
        BY <4>3, <4>4
    <3> QED
      BY <1>2, <3>1, <3>2
  <2>3. (Settled(d)' <=> Settled(d)) /\ (AllSettled' <=> AllSettled)
    BY <1>0, <2>1, <2>2 DEF Settled, AllSettled
  <2> QED
    BY <1>0, <2>1, <2>3 DEF Agrees
<1>3. CASE Apply(t)
  <2>1. /\ pc[t] = "apply" /\ pc'[t] = "sink" /\ plan' = plan /\ write' = write
        /\ states' = [states EXCEPT ![write[t].device] = write[t].new]
    BY <1>3 DEF Apply, Types
  <2>2. Phase(Tracker)' = Phase(Tracker) /\ (t # Tracker => ~Active(Tracker)) /\ (~Active(Tracker) => AllSettled)
    <3>1. Phase(Tracker)' = Phase(Tracker)
      BY <1>0, <2>1 DEF Phase, Moves
    <3>2. t # Tracker => ~Active(Tracker)
      BY <1>0, Alone
    <3> QED
      BY <3>1, <3>2 DEF Active, AllSettled, Phase
  <2>3. write[t].device \in Devices /\ write[t].new \in DeviceStates /\ write[t].from \in {"present", "absent", "polling"}
    BY <1>0, <2>1 DEF TypesOf
  <2>4. CASE write[t].device # d
    <3>1. states'[d] = states[d]
      BY <2>1, <2>3, <2>4 DEF Types
    <3>2. CASE t = Tracker
      <4>1. ~Applying(Tracker, d)
        BY <2>4, <3>2 DEF Applying
      <4>2. (Settled(d)' => Settled(d)) /\ (AllSettled' <=> AllSettled)
        BY <1>0, <2>1, <2>2, <4>1 DEF Settled, AllSettled
      <4> QED
        BY <1>0, <3>1, <4>2 DEF Agrees
    <3>3. CASE t # Tracker
      BY <1>0, <2>2, <3>1, <3>3 DEF Agrees
    <3> QED
      BY <3>2, <3>3
  <2>5. CASE write[t].device = d
    <3> DEFINE new == write[t].new
               s == states[d]
    <3>1. states'[d] = new /\ new # Unseen /\ s \in AllStates
      BY <2>1, <2>3, <2>5, SuccessorsAreStates DEF Types
    <3>2. Prepared(t)
      BY <2>1 DEF ReadStands
    <3>3. new.connection = ConnectionFromAdb(frame[d])
      <4>1. CASE write[t].from = "present"
        <5> DEFINE k == Known(s)
                   n == [k EXCEPT !.connection = ConnectionFromAdb(frame[d])]
        <5>1. new = IF Online(n) THEN n ELSE WithoutTelemetry(n)
          BY <2>5, <3>2, <4>1 DEF Prepared, FrameState
        <5>2. k \in DeviceStates
          BY <3>1, SuccessorsAreStates
        <5> HIDE DEF k
        <5>3. n.connection = ConnectionFromAdb(frame[d]) /\ WithoutTelemetry(n).connection = n.connection
          BY <5>2 DEF DeviceStates, WithoutTelemetry
        <5> HIDE DEF n
        <5> QED
          BY <5>1, <5>3
      <4>2. CASE write[t].from = "absent"
        <5>1. frame[d] = Absent /\ new = WithoutTelemetry([s EXCEPT !.connection = DISCONNECTED]) /\ s # Unseen
          BY <2>5, <3>2, <4>2 DEF Prepared
        <5>2. s \in DeviceStates
          BY <3>1, <5>1 DEF AllStates
        <5>3. new.connection = DISCONNECTED
          BY <5>1, <5>2 DEF DeviceStates, WithoutTelemetry
        <5> QED
          BY <5>1, <5>3 DEF ConnectionFromAdb, Absent
      <4>3. CASE write[t].from = "polling"
        <5>1. Online(s) /\ Online(new)
          BY <2>5, <3>2, <4>3 DEF Prepared
        <5>2. AllSettled
          BY <2>1, <2>2, <4>3 DEF AllSettled, Phase
        <5> QED
          BY <1>0, <3>1, <5>1, <5>2, SuccessorsAreStates DEF Agrees, Online
      <4> QED
        BY <2>3, <4>1, <4>2, <4>3
    <3> QED
      BY <1>0, <3>1, <3>3 DEF Agrees
  <2> QED
    BY <2>4, <2>5
<1> QED
  BY <1>1, <1>2, <1>3 DEF PollStep

LEMMA StillFollowed ==
  ASSUME Types, Locking, OneAtWork, ~frameDuringPoll', Next, \A t \in Threads : ReadStands(t), Followed
  PROVE  Followed'
<1>0. Tracker \in Threads /\ Main \in Threads /\ Main # Tracker
  BY ObserverAssumption DEF Threads
<1>1. Newest' = adb'
  BY NewestStays DEF Followed
<1>2. CASE \E d \in Devices, s \in AdbStates : AdbChanges(d, s)
  <2>1. pc' = pc /\ plan' = plan /\ write' = write /\ states' = states /\ frame' = frame /\ baselineSeen' = baselineSeen
        /\ frames' # <<>>
    BY <1>2 DEF AdbChanges, flowVars, Types
  <2>2. Phase(Tracker)' = Phase(Tracker)
    BY <2>1 DEF Phase
  <2>3. \A d \in Devices : (Agrees(d)' <=> Agrees(d)) /\ (Applying(Tracker, d)' <=> Applying(Tracker, d))
    BY <2>1 DEF Agrees, Applying
  <2> QED
    BY <1>1, <2>1, <2>2, <2>3 DEF Followed
<1>3. CASE TimerFires
  <2>1. pc'[Tracker] = pc[Tracker] /\ plan' = plan /\ write' = write /\ states' = states /\ frame' = frame
        /\ baselineSeen' = baselineSeen /\ frames' = frames
    BY <1>0, <1>3 DEF TimerFires, Types, adbVars
  <2>2. Phase(Tracker)' = Phase(Tracker)
    BY <2>1 DEF Phase
  <2>3. \A d \in Devices : (Agrees(d)' <=> Agrees(d)) /\ (Applying(Tracker, d)' <=> Applying(Tracker, d))
    BY <2>1 DEF Agrees, Applying
  <2> QED
    BY <1>1, <2>1, <2>2, <2>3 DEF Followed
<1>4. CASE TrackerStep
  <2>1. \A d \in Devices : baselineSeen' /\ (Settled(d)' \/ AllSettled' => Agrees(d)')
    BY <1>0, <1>4, FrameFollowed
  <2>2. baselineSeen'
    <3>1. CASE TakeFrame
      BY <3>1 DEF TakeFrame
    <3>2. CASE ReadPresent \/ ListAbsent \/ WriteAbsent \/ FrameDone
      BY <3>2 DEF ReadPresent, ListAbsent, WriteAbsent, FrameDone, flowVars, Followed, Types
    <3> QED
      BY <1>4, <3>1, <3>2 DEF TrackerStep
  <2> QED
    BY <1>1, <2>1, <2>2 DEF Followed, Settled, AllSettled
<1>5. ASSUME NEW t \in Threads, PollStep(t)
      PROVE  Followed'
  <2>1. Moves(t)
    BY <1>5, PollMoves
  <2>2. CASE ~baselineSeen
    <3>1. frames # <<>> /\ pc[Tracker] = "idle"
      BY <2>2 DEF Followed
    <3>2. t # Tracker
      <4>1. TypesOf(t)
        BY DEF Types
      <4> QED
        BY <1>5, <3>1 DEF PollStep, StartPoll, Poll, EndPoll, Apply, Sink, Sunk
    <3> QED
      BY <1>0, <1>1, <2>1, <2>2, <3>1, <3>2 DEF Followed, Moves
  <2>3. CASE baselineSeen
    <3>1. \A d \in Devices : Settled(d)' \/ AllSettled' => Agrees(d)'
      BY <1>5, <2>3, PollFollowed
    <3>2. baselineSeen'
      BY <2>1, <2>3 DEF Moves
    <3> QED
      BY <1>1, <3>1, <3>2 DEF Followed, Settled, AllSettled
  <2> QED
    BY <2>2, <2>3
<1> QED
  BY <1>2, <1>3, <1>4, <1>5 DEF Next

(***************************************************************************)
(* The events that are left lead the view to the stored state              *)
(***************************************************************************)
LEMMA ShownStays ==
  ASSUME Types, Shown, states' = states, view' = view, outbox' = outbox,
         \A t \in Threads : (pc'[t] = "sink" <=> pc[t] = "sink") /\ (pc[t] = "sink" => write'[t] = write[t])
  PROVE  Shown'
<1>1. \A t \in Threads, d \in Devices : Sinking(t, d)' <=> Sinking(t, d)
  BY DEF Sinking
<1>2. \A d \in Devices : (\A t \in Threads : ~Sinking(t, d)') => Shows(view[d], states[d])'
  BY <1>1 DEF Shown
<1>3. ASSUME NEW t \in Threads, pc'[t] = "sink"
      PROVE  /\ outbox'[t] \in Seq(Told(TRUE))
             /\ \E u : Leads(view'[write'[t].device], outbox'[t], u) /\ Shows(u, states'[write'[t].device])
  BY <1>3 DEF Shown
<1> QED
  BY <1>2, <1>3 DEF Shown

\* What Apply compares, and what from.
Before(t) == LET d == write[t].device
             IN  IF states[d] = Unseen /\ ~(baseline /\ write[t].from = "present") THEN NewDevice ELSE states[d]

LEMMA ApplyFollows ==
  ASSUME Types, NEW t \in Threads, pc[t] = "apply", ReadStands(t), OpenedOnce
  PROVE  LET s == states[write[t].device]
             new == write[t].new
         IN  /\ write[t].device \in Devices /\ new \in DeviceStates /\ write[t].fresh \in BOOLEAN
             /\ Before(t) \in AllStates /\ (s # Unseen => Before(t) = s) /\ (s = Unseen => Before(t).battery = NoBattery)
             /\ Follows(Before(t), new, write[t].fresh)
             /\ new.battery # NoBattery => Online(new)
<1> DEFINE d == write[t].device
           s == states[d]
           new == write[t].new
           before == Before(t)
<1>1. d \in Devices /\ new \in DeviceStates /\ write[t].from \in {"present", "absent", "polling"} /\ Prepared(t)
      /\ s \in AllStates /\ (s.battery # NoBattery => Online(s))
  BY DEF Types, TypesOf, ReadStands, OpenedOnce
<1>2. /\ before \in AllStates /\ (s # Unseen => before = s) /\ (s = Unseen => before.battery = NoBattery)
      /\ before.battery = s.battery
  <2>1. Unseen.battery = NoBattery /\ NewDevice.battery = NoBattery /\ NewDevice \in AllStates
    BY DEF Unseen, NewDevice, AllStates, DeviceStates, Connections, Batteries
  <2> QED
    BY <1>1, <2>1 DEF Before
<1>3. /\ write[t].fresh \in BOOLEAN
      /\ write[t].fresh => s.battery = NoBattery
      /\ s.battery # NoBattery /\ Online(new) => new.battery # NoBattery
      /\ new.battery # NoBattery => Online(new)
  <2>1. CASE write[t].from = "present"
    <3> DEFINE k == Known(s)
               n == [k EXCEPT !.connection = ConnectionFromAdb(frame[d])]
    <3>1. new = (IF Online(n) THEN n ELSE WithoutTelemetry(n)) /\ ~write[t].fresh /\ write[t].fresh = FALSE
      BY <1>1, <2>1 DEF Prepared, FrameState
    <3>2. k \in DeviceStates /\ (s.battery # NoBattery => k.battery = s.battery)
      BY <1>1, SuccessorsAreStates DEF Known, Unseen
    <3> HIDE DEF k
    <3>3. n.battery = k.battery /\ WithoutTelemetry(n).battery = NoBattery
          /\ WithoutTelemetry(n).connection = n.connection
      BY <3>2 DEF DeviceStates, WithoutTelemetry
    <3> HIDE DEF n
    <3> QED
      BY <3>1, <3>2, <3>3 DEF Online
  <2>2. CASE write[t].from = "absent"
    <3>1. new = WithoutTelemetry([s EXCEPT !.connection = DISCONNECTED]) /\ s \in DeviceStates /\ write[t].fresh = FALSE
      BY <1>1, <2>2 DEF Prepared, AllStates
    <3>2. new.battery = NoBattery /\ ~Online(new)
      BY <3>1 DEF WithoutTelemetry, DeviceStates, Online, CONNECTED, DISCONNECTED
    <3> QED
      BY <3>1, <3>2
  <2>3. CASE write[t].from = "polling"
    BY <1>1, <2>3 DEF Prepared
  <2> QED
    BY <1>1, <2>1, <2>2, <2>3
<1>4. before.battery # NoBattery => Online(before)
  BY <1>1, <1>2
<1>5. Follows(before, new, write[t].fresh)
  BY <1>2, <1>3, <1>4, Zenon DEF Follows
<1> QED
  BY <1>1, <1>2, <1>3, <1>5

LEMMA MoreToTell == ASSUME NEW A, NEW B, A \subseteq B, NEW a \in Seq(A) PROVE a \in Seq(B)
<1>1. Len(a) \in Nat /\ a = [i \in 1 .. Len(a) |-> a[i]] /\ \A i \in 1 .. Len(a) : a[i] \in B
  OBVIOUS
<1>2. a \in [1 .. Len(a) -> B]
  BY <1>1
<1> QED
  BY <1>1, <1>2, SeqDef

LEMMA ApplyShown ==
  ASSUME Types, NEW t \in Threads, Apply(t), Shown, OpenedOnce, ReadStands(t),
         \A o \in Threads \ {t} : ~Active(o) /\ pc'[o] = pc[o]
  PROVE  Shown'
<1> DEFINE d == write[t].device
           new == write[t].new
           before == Before(t)
           events == Diff(before, new, write[t].fresh)
           C == Opens(before, new, write[t].fresh)
<1>1. /\ pc[t] = "apply" /\ pc'[t] = "sink" /\ write' = write /\ view' = view
      /\ states' = [states EXCEPT ![d] = new] /\ outbox'[t] = events
  BY DEF Apply, Types, Before
<1>2. /\ d \in Devices /\ new \in DeviceStates /\ write[t].fresh \in BOOLEAN
      /\ before \in AllStates /\ Follows(before, new, write[t].fresh)
  BY <1>1, ApplyFollows
<1>3. \A o \in Threads : pc[o] # "sink" /\ (pc'[o] = "sink" <=> o = t)
  BY <1>1 DEF Active
<1>4. Shows(view[d], states[d])
  BY <1>2, <1>3 DEF Shown, Sinking
<1>5. Shows(view[d], before)
  <2>1. Online(Unseen) = FALSE /\ Online(NewDevice) = FALSE
    BY DEF Online, Unseen, NewDevice, CONNECTED, DISCONNECTED
  <2>2. before = states[d] \/ (states[d] = Unseen /\ before = NewDevice)
    BY DEF Before
  <2>3. Shows(view[d], Unseen) => Shows(view[d], NewDevice)
    BY <2>1, Zenon DEF Shows
  <2> HIDE DEF before
  <2> QED
    BY <1>4, <2>2, <2>3
<1>6. events \in Seq(Told(C)) /\ \E u : Leads(view[d], events, u) /\ Shows(u, new)
  <2> DEFINE v == view[d]
             fresh == write[t].fresh
  <2>1. Shows(v, before)
    BY <1>5
  <2> HIDE DEF before, new, v, fresh
  <2>2. Diff(before, new, fresh) \in Seq(Told(Opens(before, new, fresh)))
        /\ \E u : Leads(v, Diff(before, new, fresh), u) /\ Shows(u, new)
    BY <1>2, <2>1, DiffLeads DEF fresh
  <2> QED
    BY <2>2 DEF v, fresh
<1>7. events \in Seq(Told(TRUE))
  <2>1. Told(C) \subseteq Told(TRUE)
    BY DEF Told
  <2> HIDE DEF events, C
  <2> QED
    BY <1>6, <2>1, MoreToTell
<1>8. states'[d] = new /\ \A x \in Devices : x # d => states'[x] = states[x]
  BY <1>1, <1>2 DEF Types
<1> HIDE DEF d, new, before, events
<1>9. ASSUME NEW x \in Devices, \A o \in Threads : ~Sinking(o, x)'
      PROVE  Shows(view[x], states[x])'
  <2>1. x # d
    BY <1>1, <1>3, <1>9 DEF Sinking, d
  <2>2. Shows(view[x], states[x])
    BY <1>3 DEF Shown, Sinking
  <2> QED
    BY <1>1, <1>8, <2>1, <2>2
<1>10. ASSUME NEW o \in Threads, pc'[o] = "sink"
       PROVE  /\ outbox'[o] \in Seq(Told(TRUE))
              /\ \E u : Leads(view'[write'[o].device], outbox'[o], u) /\ Shows(u, states'[write'[o].device])
  <2>1. o = t /\ write'[o].device = d /\ outbox'[o] = events /\ view' = view
    BY <1>1, <1>3, <1>10 DEF d
  <2> QED
    BY <1>6, <1>7, <1>8, <2>1
<1> QED
  BY <1>9, <1>10 DEF Shown

LEMMA SinkShown ==
  ASSUME Types, NEW t \in Threads, Sink(t), Shown,
         \A o \in Threads \ {t} : ~Active(o) /\ pc'[o] = pc[o]
  PROVE  Shown'
<1> DEFINE d == write[t].device
           v == view[d]
           events == outbox[t]
<1>1. /\ pc[t] = "sink" /\ pc' = pc /\ write' = write /\ states' = states /\ events # <<>>
      /\ view' = [view EXCEPT ![d] = Seen(v, Head(events))]
      /\ outbox' = [outbox EXCEPT ![t] = Tail(events)]
  BY DEF Sink
<1>2. d \in Devices
  BY <1>1 DEF Types, TypesOf
<1>3. \A o \in Threads : pc'[o] = "sink" <=> o = t
  BY <1>1 DEF Active
<1>4. PICK u : Leads(v, events, u) /\ Shows(u, states[d])
  BY <1>1 DEF Shown
<1>5. events \in Seq(Told(TRUE))
  BY <1>1 DEF Shown
<1> HIDE DEF v, events
<1>6. Leads(Seen(v, Head(events)), Tail(events), u) /\ Tail(events) \in Seq(Told(TRUE))
  <2> DEFINE S == Told(TRUE)
  <2>1. events \in Seq(S) /\ events # <<>>
    BY <1>1, <1>5
  <2> HIDE DEF S
  <2>2. Tail(events) \in Seq(S)
    BY <2>1, HeadTailProperties
  <2>3. Leads(Seen(v, Head(events)), Tail(events), u)
    BY <1>4, <2>1, RestLeads
  <2> QED
    BY <2>2, <2>3 DEF S
<1>7. view'[d] = Seen(v, Head(events)) /\ outbox'[t] = Tail(events) /\ \A x \in Devices : x # d => view'[x] = view[x]
  BY <1>1, <1>2 DEF Types
<1> HIDE DEF d
<1>8. ASSUME NEW x \in Devices, \A o \in Threads : ~Sinking(o, x)'
      PROVE  Shows(view[x], states[x])'
  <2>1. x # d
    BY <1>1, <1>3, <1>8 DEF Sinking, d
  <2>2. \A o \in Threads : ~Sinking(o, x)
    BY <1>1, <1>8 DEF Sinking
  <2>3. Shows(view[x], states[x])
    BY <2>2 DEF Shown
  <2> QED
    BY <1>1, <1>7, <2>1, <2>3
<1>9. ASSUME NEW o \in Threads, pc'[o] = "sink"
      PROVE  /\ outbox'[o] \in Seq(Told(TRUE))
             /\ \E y : Leads(view'[write'[o].device], outbox'[o], y) /\ Shows(y, states'[write'[o].device])
  <2>1. o = t /\ write'[o].device = d
    BY <1>1, <1>3, <1>9 DEF d
  <2> QED
    BY <1>1, <1>4, <1>6, <1>7, <2>1
<1> QED
  BY <1>8, <1>9 DEF Shown

LEMMA SunkShown ==
  ASSUME Types, NEW t \in Threads, Sunk(t), Shown,
         \A o \in Threads \ {t} : ~Active(o) /\ pc'[o] = pc[o]
  PROVE  Shown'
<1> DEFINE d == write[t].device
<1>1. /\ pc[t] = "sink" /\ pc'[t] = write[t].from /\ states' = states /\ view' = view /\ outbox[t] = <<>>
  BY DEF Sunk, Types
<1>2. d \in Devices /\ pc'[t] # "sink"
  BY <1>1 DEF Types, TypesOf
<1>3. \A o \in Threads : pc'[o] # "sink" /\ (pc[o] = "sink" <=> o = t)
  BY <1>1, <1>2 DEF Active
<1>4. Shows(view[d], states[d])
  <2>1. PICK u : Leads(view[d], <<>>, u) /\ Shows(u, states[d])
    BY <1>1 DEF Shown
  <2> QED
    BY <2>1, EndLeads
<1>5. \A x \in Devices : Shows(view[x], states[x])
  BY <1>3, <1>4 DEF Shown, Sinking
<1> QED
  BY <1>1, <1>3, <1>5 DEF Shown

LEMMA StillShown ==
  ASSUME Types, Locking, OneAtWork, ~frameDuringPoll', Next, \A t \in Threads : ReadStands(t), OpenedOnce, Shown
  PROVE  Shown'
<1>0. Tracker \in Threads /\ Main \in Threads /\ Main # Tracker /\ \A t \in Threads : t = Main \/ t = Tracker
  BY ObserverAssumption DEF Threads
<1>1. CASE \E d \in Devices, s \in AdbStates : AdbChanges(d, s)
  <2>1. pc' = pc /\ write' = write /\ states' = states /\ view' = view /\ outbox' = outbox
    BY <1>1 DEF AdbChanges
  <2> QED
    BY <2>1, ShownStays
<1>2. CASE TimerFires
  <2>1. pc[Main] = "idle" /\ pc'[Main] = "lock" /\ pc'[Tracker] = pc[Tracker]
        /\ write' = write /\ states' = states /\ view' = view /\ outbox' = outbox
    BY <1>0, <1>2 DEF TimerFires, Types
  <2>2. \A t \in Threads : pc'[t] = "sink" <=> pc[t] = "sink"
    BY <1>0, <2>1
  <2> QED
    BY <2>1, <2>2, ShownStays
<1>3. CASE TrackerStep
  <2>1. states' = states /\ view' = view /\ outbox' = outbox /\ pc'[Main] = pc[Main] /\ write'[Main] = write[Main]
    BY <1>3, FrameMoves
  <2>2. pc[Tracker] # "sink" /\ pc'[Tracker] # "sink"
    <3>1. \E p \in {"present", "absent", "apply", "lock"} : pc' = [pc EXCEPT ![Tracker] = p]
      BY <1>3 DEF TrackerStep, TakeFrame, ReadPresent, ListAbsent, WriteAbsent, FrameDone
    <3>2. pc[Tracker] # "sink"
      BY <1>3 DEF TrackerStep, TakeFrame, ReadPresent, ListAbsent, WriteAbsent, FrameDone
    <3> QED
      BY <1>0, <3>1, <3>2 DEF Types
  <2>3. \A t \in Threads : (pc'[t] = "sink" <=> pc[t] = "sink") /\ (pc[t] = "sink" => write'[t] = write[t])
    BY <1>0, <2>1, <2>2
  <2> QED
    BY <2>1, <2>3, ShownStays
<1>4. ASSUME NEW t \in Threads, PollStep(t)
      PROVE  Shown'
  <2>1. \A o \in Threads \ {t} : ~Active(o) /\ pc'[o] = pc[o] /\ write'[o] = write[o]
    BY <1>4, Alone, PollMoves DEF Moves
  <2>2. CASE StartPoll(t) \/ EndPoll(t)
    <3>1. pc[t] # "sink" /\ pc'[t] # "sink" /\ states' = states /\ view' = view /\ outbox' = outbox
      BY <2>2 DEF StartPoll, EndPoll, Types
    <3>2. \A o \in Threads : (pc'[o] = "sink" <=> pc[o] = "sink") /\ (pc[o] = "sink" => write'[o] = write[o])
      BY <2>1, <3>1
    <3> QED
      BY <3>1, <3>2, ShownStays
  <2>3. CASE Poll(t)
    <3>1. pc[t] # "sink" /\ pc'[t] # "sink" /\ states' = states /\ view' = view /\ outbox' = outbox
      BY <2>3, PollIs
    <3>2. \A o \in Threads : (pc'[o] = "sink" <=> pc[o] = "sink") /\ (pc[o] = "sink" => write'[o] = write[o])
      BY <2>1, <3>1
    <3> QED
      BY <3>1, <3>2, ShownStays
  <2>4. CASE Apply(t)
    BY <2>1, <2>4, ApplyShown
  <2>5. CASE Sink(t)
    BY <2>1, <2>5, SinkShown
  <2>6. CASE Sunk(t)
    BY <2>1, <2>6, SunkShown
  <2> QED
    BY <1>4, <2>2, <2>3, <2>4, <2>5, <2>6 DEF PollStep
<1> QED
  BY <1>1, <1>2, <1>3, <1>4 DEF Next

(***************************************************************************)
(* The opening reading comes once per connection                           *)
(***************************************************************************)
LEMMA ApplyOpens ==
  ASSUME Types, NEW t \in Threads, Apply(t), OpenedOnce, ReadStands(t)
  PROVE  OpenedOnce'
<1> DEFINE d == write[t].device
           new == write[t].new
           s == states[d]
           before == Before(t)
           fresh == write[t].fresh
           events == Diff(before, new, fresh)
<1>1. /\ pc[t] = "apply" /\ states' = [states EXCEPT ![d] = new]
      /\ openings' = [openings EXCEPT ![d] =
           (IF before.connection = new.connection THEN openings[d] ELSE 0) + (IF OpensBattery(events) THEN 1 ELSE 0)]
  BY DEF Apply, Types, Before
<1>2. /\ d \in Devices /\ new \in DeviceStates /\ fresh \in BOOLEAN
      /\ before \in AllStates /\ (s # Unseen => before = s) /\ (s = Unseen => before.battery = NoBattery)
      /\ Follows(before, new, fresh)
      /\ new.battery # NoBattery => Online(new)
  BY <1>1, ApplyFollows
<1>3. Unseen.battery = NoBattery
  BY DEF Unseen
<1>4. /\ s.battery # NoBattery => Online(s)
      /\ openings[d] \in {0, 1}
      /\ openings[d] = 1 => s.battery # NoBattery
  BY <1>2 DEF OpenedOnce
<1>5. /\ states'[d] = new /\ \A x \in Devices : x # d => states'[x] = states[x] /\ openings'[x] = openings[x]
      /\ openings'[d] = (IF before.connection = new.connection THEN openings[d] ELSE 0) + (IF OpensBattery(events) THEN 1 ELSE 0)
  BY <1>1, <1>2 DEF Types
<1>6. OpensBattery(events) => Opens(before, new, fresh)
  <2>1. Shows([online |-> Online(before), level |-> before.battery.level,
               low |-> before.battery # NoBattery /\ IsLow(before.battery.level),
               charging |-> before.battery.powered, wifi |-> NoWifi], before)
    BY DEF Shows, IsView
  <2>2. \E v : Shows(v, before)
    BY <2>1
  <2> HIDE DEF before, new, fresh
  <2>3. Diff(before, new, fresh) \in Seq(Told(Opens(before, new, fresh)))
    BY <1>2, <2>2, DiffLeads
  <2>4. Opens(before, new, fresh) \in BOOLEAN
    BY DEF Opens
  <2> DEFINE C == Opens(before, new, fresh)
  <2> HIDE DEF C, events
  <2>5. events \in Seq(Told(C)) /\ C \in BOOLEAN
    BY <2>3, <2>4 DEF C, events
  <2>6. OpensBattery(events) => C
    BY <2>5, OpeningIs
  <2> QED
    BY <2>6 DEF C
<1> HIDE DEF d, new, s, before, fresh, events
<1>7. CASE OpensBattery(events)
  <2>1. (before = Unseen \/ fresh) /\ new.battery # NoBattery
    BY <1>6, <1>7 DEF Opens
  <2>2. before.battery = NoBattery
    BY <1>2, <1>3, <2>1 DEF Follows
  <2>3. s.battery = NoBattery
    BY <1>2, <1>3, <2>2
  <2>4. openings[d] = 0 /\ openings'[d] = 1
    BY <1>4, <1>5, <1>7, <2>3
  <2>5. \A x \in Devices : \/ x = d /\ states'[x] = new /\ openings'[x] = 1
                           \/ states'[x] = states[x] /\ openings'[x] = openings[x]
    BY <1>5, <2>4
  <2> QED
    BY <1>2, <2>1, <2>5 DEF OpenedOnce
<1>8. CASE ~OpensBattery(events)
  <2>1. openings'[d] = IF before.connection = new.connection THEN openings[d] ELSE 0
    BY <1>4, <1>5, <1>8
  <2>2. openings'[d] = 1 => new.battery # NoBattery
    <3> SUFFICES ASSUME openings'[d] = 1 PROVE new.battery # NoBattery
      OBVIOUS
    <3>1. before.connection = new.connection /\ openings[d] = 1
      BY <1>4, <2>1
    <3>2. s.battery # NoBattery /\ s # Unseen
      BY <1>3, <1>4, <3>1
    <3>3. before = s /\ Online(before) /\ Online(new)
      BY <1>2, <1>4, <3>1, <3>2 DEF Online
    <3> QED
      BY <1>2, <3>2, <3>3 DEF Follows
  <2>3. openings'[d] \in {0, 1}
    BY <1>4, <2>1
  <2>4. \A x \in Devices : \/ x = d /\ states'[x] = new
                           \/ states'[x] = states[x] /\ openings'[x] = openings[x]
    BY <1>5
  <2> QED
    BY <1>2, <2>2, <2>3, <2>4 DEF OpenedOnce
<1> QED
  BY <1>7, <1>8

LEMMA StillOpenedOnce ==
  ASSUME Types, Next, \A t \in Threads : ReadStands(t), OpenedOnce
  PROVE  OpenedOnce'
<1>1. CASE \E t \in Threads : Apply(t)
  BY <1>1, ApplyOpens
<1>2. CASE states' = states /\ openings' = openings
  BY <1>2 DEF OpenedOnce
<1>3. CASE \E d \in Devices, s \in AdbStates : AdbChanges(d, s)
  BY <1>2, <1>3 DEF AdbChanges
<1>4. CASE TimerFires
  BY <1>2, <1>4 DEF TimerFires
<1>5. CASE TrackerStep
  BY <1>2, <1>5, FrameMoves
<1>6. CASE \E t \in Threads : StartPoll(t) \/ Poll(t) \/ EndPoll(t) \/ Sink(t) \/ Sunk(t)
  BY <1>2, <1>6 DEF StartPoll, Poll, EndPoll, Sink, Sunk
<1> QED
  BY <1>1, <1>3, <1>4, <1>5, <1>6 DEF Next, PollStep

(***************************************************************************)
(* The theorems                                                            *)
(***************************************************************************)
Invariant == Types /\ Locking /\ InOrder

LEMMA InitInvariant == Init => Invariant
<1> SUFFICES ASSUME Init PROVE Invariant
  OBVIOUS
<1>1. Types /\ Locking
  BY InitTypes
<1>2. Tracker \in Threads /\ \A t \in Threads : pc[t] = "idle" /\ Phase(t) = "idle"
  BY DEF Init, Phase, Threads
<1>3. OneAtWork /\ \A t \in Threads : ReadStands(t)
  <2>1. \A t \in Threads : ReadStands(t)
    BY <1>2 DEF ReadStands
  <2>2. OneAtWork
    BY <1>2 DEF OneAtWork, Active
  <2> QED
    BY <2>1, <2>2
<1>4. Followed
  <2>1. frames = <<adb>> /\ ~baselineSeen
    BY DEF Init
  <2>2. frames # <<>> /\ Newest = adb
    BY <2>1 DEF Newest
  <2> QED
    BY <1>2, <2>1, <2>2 DEF Followed
<1>5. Shown
  <2>1. Shows(NoView, Unseen)
    BY DEF Shows, IsView, NoView, Online, Unseen, CONNECTED
  <2>2. \A d \in Devices : view[d] = NoView /\ states[d] = Unseen
    BY DEF Init
  <2>3. \A d \in Devices : Shows(view[d], states[d])
    BY <2>1, <2>2
  <2> QED
    BY <1>2, <2>3 DEF Shown
<1>6. OpenedOnce
  BY DEF Init, OpenedOnce, Unseen
<1> QED
  BY <1>1, <1>3, <1>4, <1>5, <1>6 DEF Invariant, InOrder

LEMMA StepInvariant == Invariant /\ [Next]_vars => Invariant'
<1> SUFFICES ASSUME Invariant, [Next]_vars PROVE Invariant'
  OBVIOUS
<1>1. Types /\ Locking /\ Types' /\ Locking'
  BY StepTypes DEF Invariant
<1>2. CASE UNCHANGED vars
  <2>1. InOrder' <=> InOrder
    BY <1>2 DEF vars, adbVars, flowVars, InOrder, OneAtWork, Active, ReadStands, Phase, Prepared, FrameState,
                Followed, Newest, Applying, Agrees, Shown, Sinking, OpenedOnce
  <2> QED
    BY <1>1, <2>1 DEF Invariant
<1>3. CASE Next
  <2>1. frameDuringPoll => frameDuringPoll'
    BY <1>3 DEF Next, AdbChanges, TrackerStep, TakeFrame, ReadPresent, ListAbsent, WriteAbsent, FrameDone, TimerFires,
                PollStep, StartPoll, Poll, EndPoll, Apply, Sink, Sunk, flowVars
  <2>2. ASSUME ~frameDuringPoll'
        PROVE  OneAtWork' /\ (\A t \in Threads : ReadStands(t)') /\ Followed' /\ Shown' /\ OpenedOnce'
    <3>1. OneAtWork /\ (\A t \in Threads : ReadStands(t)) /\ Followed /\ Shown /\ OpenedOnce
      BY <2>1, <2>2 DEF Invariant, InOrder
    <3>2. OneAtWork'
      BY <1>1, <1>3, <2>2, <3>1, StillAlone
    <3>3. \A t \in Threads : ReadStands(t)'
      BY <1>1, <1>3, <2>2, <3>1, StillStands
    <3>4. Followed'
      BY <1>1, <1>3, <2>2, <3>1, StillFollowed
    <3>5. Shown'
      BY <1>1, <1>3, <2>2, <3>1, StillShown
    <3>6. OpenedOnce'
      BY <1>1, <1>3, <3>1, StillOpenedOnce
    <3> QED
      BY <3>2, <3>3, <3>4, <3>5, <3>6
  <2> QED
    BY <1>1, <2>2 DEF Invariant, InOrder
<1> QED
  BY <1>2, <1>3

\* Once the tracker has handled every frame, the observed connection of each
\* device is the ADB server's, if no frame and timer poll overlapped
\* (on_tracker_snapshot and poll_once, which share no lock over reading and
\* storing a state).
THEOREM ConnectionFollows == Spec => []ConnectionFollowsTracker
<1>1. Invariant => ConnectionFollowsTracker
  <2> SUFFICES ASSUME Invariant, TrackerCaughtUp, ~frameDuringPoll, NEW d \in Devices PROVE ConnectionAgrees(d)
    BY DEF ConnectionFollowsTracker
  <2>1. frames = <<>> /\ Phase(Tracker) \in {"idle", "lock"} /\ Followed
    BY DEF TrackerCaughtUp, Phase, Invariant, InOrder
  <2>2. frame = adb /\ Agrees(d)
    BY <2>1 DEF Followed, Newest, Invariant, Types
  <2> QED
    BY <2>2 DEF Agrees, ConnectionAgrees
<1> QED
  BY <1>1, InitInvariant, StepInvariant, PTL DEF Spec

\* A subscriber that only reads the events knows the observed state of each
\* device when both threads rest, and has read the opening battery reading at
\* most once per connection, if no frame and timer poll overlapped (diff, _apply
\* and the sinking of the events after the lock is released).
THEOREM ViewFollows == Spec => []ViewFollowsState
<1>1. Invariant => ViewFollowsState
  <2> SUFFICES ASSUME Invariant, Quiet, ~frameDuringPoll, NEW d \in Devices
               PROVE  /\ openings[d] <= 1
                      /\ view[d].online = Online(states[d])
                      /\ states[d].battery # NoBattery =>
                           /\ view[d].level = states[d].battery.level
                           /\ view[d].low = IsLow(states[d].battery.level)
                           /\ view[d].charging = states[d].battery.powered
    BY Zenon DEF ViewFollowsState
  <2>1. Shown /\ OpenedOnce
    BY DEF Invariant, InOrder
  <2>2. \A t \in Threads : ~Sinking(t, d)
    BY DEF Quiet, Sinking
  <2>3. Shows(view[d], states[d])
    BY <2>1, <2>2 DEF Shown
  <2>4. openings[d] \in {0, 1} /\ (states[d].battery # NoBattery => Online(states[d]))
    BY <2>1 DEF OpenedOnce
  <2>5. openings[d] <= 1
    BY <2>4
  <2>6. view[d].online = Online(states[d])
    BY <2>3 DEF Shows
  <2>7. ASSUME states[d].battery # NoBattery
        PROVE  /\ view[d].level = states[d].battery.level
               /\ view[d].low = IsLow(states[d].battery.level)
               /\ view[d].charging = states[d].battery.powered
    <3>1. /\ view[d].level = states[d].battery.level
          /\ view[d].low = (states[d].battery # NoBattery /\ IsLow(states[d].battery.level))
          /\ view[d].charging = states[d].battery.powered
      BY <2>3, <2>4, <2>7, Zenon DEF Shows
    <3>2. (states[d].battery # NoBattery /\ IsLow(states[d].battery.level)) = IsLow(states[d].battery.level)
      BY <2>7 DEF IsLow
    <3> QED
      BY <3>1, <3>2, Zenon
  <2> QED
    BY <2>5, <2>6, <2>7
<1> QED
  BY <1>1, InitInvariant, StepInvariant, PTL DEF Spec
=============================================================================
