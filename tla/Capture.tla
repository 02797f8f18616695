------------------------------ MODULE Capture ------------------------------
(***************************************************************************)
(* capture_camera_photo and save_photo of src/linkplane/camera.py: the     *)
(* photo is taken into a file on the phone, fetched, written beside its    *)
(* destination and moved onto it.  Every capture here has one destination; *)
(* a photo is named by the command that took it.  The photo's file on the  *)
(* phone has a random name, the file beside the destination has not.       *)
(* Removing a file of the computer is taken to work.                       *)
(***************************************************************************)
EXTENDS Commands

CaptureRequests ==
  [op : {"capture"}, force : BOOLEAN, foreground : BOOLEAN, serial : BOOLEAN, ssh : BOOLEAN, dry : BOOLEAN]

Taken(c) == desk.out # "none" /\ ~req[c].force

Unusable(c) == Taken(c) \/ desk.out = "dir"
CaptureResolve(c) ==
  /\ \/ Unusable(c) /\ Answer(c, "start", "invalid_request")
     \/ ~Unusable(c) /\ ~req[c].ssh /\ Answer(c, "start", "transport_unavailable")
     \/ ~Unusable(c) /\ req[c].ssh /\ Goto(c, "start", "prepared")
  /\ UNCHANGED <<memo, phone, desk>>

NoPhone(c) == req[c].foreground /\ ~req[c].serial
CapturePrepared(c) ==
  /\ \/ req[c].dry /\ Answer(c, "prepared", "success")
     \/ ~req[c].dry /\ NoPhone(c) /\ Answer(c, "prepared", "invalid_request")
     \/ ~req[c].dry /\ ~NoPhone(c) /\ Goto(c, "prepared", "foreground")
  /\ UNCHANGED <<memo, phone, desk>>

CaptureForeground(c) ==
  /\ \/ ~req[c].foreground /\ Goto(c, "foreground", "shoot")
     \/ req[c].foreground /\ \E o \in Outcomes : Remote(c, "foreground", o, "shoot", "end")
  /\ UNCHANGED <<memo, phone, desk>>

ShootFails_Ends == "end"  \* mutant: the removal is not in a finally clause
ShootFails == "tidy"
CaptureShoot(c) == \E o \in Outcomes :
  /\ Remote(c, "shoot", o, "fetch", ShootFails)
  /\ phone' = [phone EXCEPT !.photos = IF Happened(o) THEN @ \union {c} ELSE @]
  /\ UNCHANGED <<memo, desk>>

\* base64 and decode_photo: what is not a complete JPEG is an error too.
CaptureFetch(c) ==
  /\ \E o \in Outcomes : Remote(c, "fetch", o, "write", "tidy")
  /\ UNCHANGED <<memo, phone, desk>>

\* A capture is in save_photo; desk.crossed notes that another one, or the user,
\* came between its writing the file and its moving it.
Saving(c) == req[c].op = "capture" /\ at[c] \in {"check", "publish"}
Crossing(c) == desk.crossed \/ \E d \in Commands \ {c} : Saving(d)

\* save_photo: write the file beside the destination ...
CaptureWrite(c) ==
  /\ \/ /\ Goto(c, "write", "check")
        /\ desk' = [desk EXCEPT !.part = c, !.crossed = Crossing(c)]
     \/ Fail(c, "write", "tidy", "operation_failed") /\ desk' = [desk EXCEPT !.part = "none"]
  /\ UNCHANGED <<memo, phone>>

\* ... look at the destination once more ...
CaptureCheck_First(c) ==  \* mutant: the destination is not looked at again
  /\ Goto(c, "check", "publish")
  /\ UNCHANGED <<memo, phone, desk>>
CaptureCheck(c) ==
  /\ \/ ~Taken(c) /\ Goto(c, "check", "publish") /\ UNCHANGED desk
     \/ /\ Taken(c)
        /\ Fail(c, "check", "tidy", "operation_failed")
        /\ desk' = [desk EXCEPT !.part = "none"]
  /\ UNCHANGED <<memo, phone>>

\* ... and move it there; a file that another capture has moved away is an error.
CapturePublish(c) ==
  /\ \/ /\ desk.part # "none"
        /\ Goto(c, "publish", "tidy")
        /\ desk' = [desk EXCEPT !.out = desk.part, !.part = "none", !.crossed = Crossing(c)]
     \/ /\ Fail(c, "publish", "tidy", "operation_failed")
        /\ desk' = [desk EXCEPT !.part = "none"]
  /\ UNCHANGED <<memo, phone>>

\* finally: rm -f on the phone, whose failure changes no answer.
CaptureTidy(c) ==
  /\ Answer(c, "tidy", IF reply[c] = Unset THEN "success" ELSE reply[c])
  /\ \E o \in Outcomes :
       phone' = [phone EXCEPT !.photos = IF Happened(o) THEN @ \ {c} ELSE @,
                              !.unremoved = IF Happened(o) THEN @ ELSE @ \union {c}]
  /\ UNCHANGED <<memo, desk>>

CaptureStep(c) ==
  /\ req[c].op = "capture"
  /\ \/ CaptureResolve(c) \/ CapturePrepared(c) \/ CaptureForeground(c) \/ CaptureShoot(c)
     \/ CaptureFetch(c) \/ CaptureWrite(c) \/ CaptureCheck(c) \/ CapturePublish(c)
     \/ CaptureTidy(c)

\* The user saves a file of their own under the destination's name.
UserSaves ==
  /\ desk.out = "none"
  /\ \E c \in Commands : req[c].op = "capture"
  /\ desk' = [desk EXCEPT !.out = "user", !.crossed = @ \/ \E c \in Commands : at[c] = "publish"]
  /\ UNCHANGED <<req, at, reply, memo, phone>>
=============================================================================
