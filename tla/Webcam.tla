------------------------------- MODULE Webcam -------------------------------
(***************************************************************************)
(* start_webcam and stop_webcam of src/linkplane/webcam.py.  A start runs  *)
(* scrcpy as a process that outlives it and saves its pid; a stop kills    *)
(* the process the file names and removes the file.  A process is named by *)
(* the command that started it; memo[c] is the pid a stop has read, and of *)
(* a start the plans it was prepared with.                                 *)
(* desk.cams are the processes that run, desk.state what webcam.json says: *)
(* a pid, "none" (no file), "unreadable" (no JSON object) or "malformed"   *)
(* (an object without a pid or a device).                                  *)
(***************************************************************************)
EXTENDS Sessions

WebcamRequests ==
  [op : {"webcam_start"}, refused : BOOLEAN, device : BOOLEAN, install : BOOLEAN,
   handler : {"ask", "require"}, answer : {"yes", "no", "none"}, dry : BOOLEAN]
  \union [op : {"webcam_stop"}, dry : BOOLEAN]

IsWebcam(c) == req[c].op \in {"webcam_start", "webcam_stop"}
Pids == Commands

\* Another webcam command is between its look at the file and its last step:
\* desk.raced notes that two of them overlapped.
Midway(c) == IsWebcam(c) /\ at[c] \in {"require", "loopback", "probe", "launch", "save", "kill", "clear"}
Looks(c) == desk' = [desk EXCEPT !.raced = @ \/ \E d \in Commands \ {c} : Midway(d)]

StartSelect(c) ==
  /\ \/ req[c].refused /\ Answer(c, "start", "invalid_request")
     \/ ~req[c].refused /\ SelectDevice(c, "start", "device")
  /\ UNCHANGED <<memo, phone, desk>>

\* resolve_webcam_device: --device, or the first loopback device v4l2-ctl lists.
StartDevice(c) ==
  /\ \/ Goto(c, "device", "prepared")
     \/ ~req[c].device /\ Answer(c, "device", "dependency_missing")
  /\ UNCHANGED <<memo, phone, desk>>

StartPrepared(c) ==
  /\ \/ req[c].dry /\ Answer(c, "prepared", "success")
     \/ ~req[c].dry /\ Goto(c, "prepared", "look")
  /\ memo' = [memo EXCEPT ![c] = <<Plan(desk.host, "scrcpy"), Plan(desk.host, "v4l2loopback")>>]
  /\ UNCHANGED <<phone, desk>>

Alive_Always(pid) == FALSE  \* mutant: the process named by the file is not asked
Alive(pid) == pid \in desk.cams

\* load_webcam_state raises when the file holds no JSON object.
Unreadable(c, from) == desk.state = "unreadable" /\ Answer(c, from, "operation_failed")

StartLook(c) ==
  /\ \/ Unreadable(c, "look")
     \/ desk.state # "unreadable" /\ Alive(desk.state) /\ Answer(c, "look", "already_running")
     \/ desk.state # "unreadable" /\ ~Alive(desk.state) /\ Goto(c, "look", "require")
  /\ Looks(c)
  /\ UNCHANGED <<memo, phone>>

StartRequire(c) ==
  /\ at[c] = "require"
  /\ \/ req[c].handler = "ask" /\ Ensure(c, "scrcpy", "require", "loopback", "operation_failed")
     \/ req[c].handler = "require" /\ Require(c, memo[c][1], "require", "loopback", "end")
  /\ UNCHANGED <<memo, phone>>

\* The module's package may be installed, but the start ends there: nothing loads it.
StartLoopback(c) ==
  /\ at[c] = "loopback"
  /\ \/ /\ req[c].handler = "ask"
        /\ Ensure(c, "v4l2loopback", "loopback", "probe",
                  IF req[c].answer = "no" THEN "operation_failed" ELSE "dependency_missing")
     \/ req[c].handler = "require" /\ Require(c, memo[c][2], "loopback", "probe", "end")
  /\ UNCHANGED <<memo, phone>>

StartProbe(c) == Probe(c, "probe", "launch") /\ UNCHANGED <<memo, phone, desk>>

StartLaunch(c) ==
  /\ \/ Goto(c, "launch", "save") /\ desk' = [desk EXCEPT !.cams = @ \union {c}]
     \/ \E code \in {"dependency_missing", "operation_failed"} : Answer(c, "launch", code) /\ UNCHANGED desk
  /\ UNCHANGED <<memo, phone>>

\* A state that cannot be saved leaves the process running without one.
StartSave(c) ==
  /\ \/ Answer(c, "save", "success") /\ desk' = [desk EXCEPT !.state = c]
     \/ Answer(c, "save", "operation_failed") /\ desk' = [desk EXCEPT !.unsaved = @ \union {c}]
  /\ UNCHANGED <<memo, phone>>

StopLook(c) ==
  /\ \/ desk.state = "none" /\ Answer(c, "start", "not_found") /\ Looks(c) /\ UNCHANGED memo
     \/ Unreadable(c, "start") /\ Looks(c) /\ UNCHANGED memo
     \/ /\ desk.state = "malformed" /\ Answer(c, "start", "operation_failed")
        /\ desk' = [desk EXCEPT !.state = "none"] /\ UNCHANGED memo
     \/ desk.state = "malformed" /\ Answer(c, "start", "raised") /\ UNCHANGED <<desk, memo>>
     \/ /\ desk.state \in Pids /\ Looks(c)
        /\ memo' = [memo EXCEPT ![c] = <<desk.state>>]
        /\ \/ req[c].dry /\ Answer(c, "start", "success")
           \/ ~req[c].dry /\ Goto(c, "start", "kill")
  /\ UNCHANGED phone

StopKill(c) ==
  /\ at[c] = "kill"
  /\ \/ ~Alive(Head(memo[c])) /\ Goto(c, "kill", "clear") /\ UNCHANGED desk
     \/ /\ Alive(Head(memo[c])) /\ Goto(c, "kill", "clear")
        /\ desk' = [desk EXCEPT !.cams = @ \ {Head(memo[c])}]
     \/ Alive(Head(memo[c])) /\ Answer(c, "kill", "operation_failed") /\ UNCHANGED desk
  /\ UNCHANGED <<memo, phone>>

StopClear(c) ==
  /\ \/ Answer(c, "clear", "success") /\ desk' = [desk EXCEPT !.state = "none"]
     \/ Answer(c, "clear", "operation_failed") /\ UNCHANGED desk
  /\ UNCHANGED <<memo, phone>>

WebcamStep(c) ==
  \/ /\ req[c].op = "webcam_start"
     /\ \/ StartSelect(c) \/ StartDevice(c) \/ StartPrepared(c) \/ StartLook(c) \/ StartRequire(c)
        \/ StartLoopback(c) \/ StartProbe(c) \/ StartLaunch(c) \/ StartSave(c)
  \/ /\ req[c].op = "webcam_stop"
     /\ StopLook(c) \/ StopKill(c) \/ StopClear(c)

\* A webcam process ends by itself: the phone was unplugged.
CameraEnds == \E p \in desk.cams :
  /\ desk' = [desk EXCEPT !.cams = @ \ {p}]
  /\ UNCHANGED <<req, at, reply, memo, phone>>
=============================================================================
