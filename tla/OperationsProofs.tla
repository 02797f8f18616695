-------------------------- MODULE OperationsProofs --------------------------
(***************************************************************************)
(* Proofs about Operations, for any commands, requests and hosts, any      *)
(* ringer levels and any number of items.                                  *)
(*                                                                         *)
(* Each family of commands touches a part of the phone and the computer of *)
(* its own; the frame lemmas say which.  What a property needs to know of  *)
(* the family it is about is an invariant of its own, and a step of any    *)
(* other family keeps it.                                                  *)
(***************************************************************************)
EXTENDS Operations, TLAPS

(***************************************************************************)
(* Frames                                                                  *)
(***************************************************************************)
Shape ==
  /\ DOMAIN at = Commands /\ DOMAIN reply = Commands /\ DOMAIN memo = Commands
  /\ DOMAIN phone = {"ring", "adrift", "posts", "photos", "unremoved", "clip", "sent"}
  /\ DOMAIN phone.posts = Commands /\ DOMAIN phone.sent = Commands
  /\ DOMAIN desk = {"host", "out", "part", "crossed", "cams", "state", "raced", "unsaved", "clip", "copied", "copies",
                    "interrupted", "ran"}

\* A step of command c leaves what the others are at.
Own(c) ==
  /\ req' = req /\ DOMAIN at' = Commands /\ DOMAIN reply' = Commands /\ DOMAIN memo' = Commands
  /\ \A d \in Commands \ {c} : at'[d] = at[d] /\ reply'[d] = reply[d] /\ memo'[d] = memo[d]

\* What a family keeps of the phone and of the computer.
Keeps(r, s, fields) == DOMAIN s = DOMAIN r /\ \A f \in fields : s[f] = r[f]
PhoneKeeps(fields) == Keeps(phone, phone', fields)
DeskKeeps(fields) == Keeps(desk, desk', fields)

\* What looking for a program, and installing it, does: the command goes on, or leaves
\* with an error; nothing but the host changes, and the list of those that installed.
Settled == {"out", "part", "crossed", "cams", "state", "raced", "unsaved", "clip", "copied", "copies", "interrupted"}
Obtains(c, from, to, away, codes) ==
  /\ req' = req /\ at[c] = from
  /\ \/ at' = [at EXCEPT ![c] = to] /\ reply' = reply
     \/ at' = [at EXCEPT ![c] = away] /\ \E code \in codes : reply' = [reply EXCEPT ![c] = code]
  /\ DeskKeeps(Settled)
  /\ \A d \in Commands \ {c} : d \in desk'.ran <=> d \in desk.ran

LEMMA Installs ==
  ASSUME Shape, NEW c \in Commands, NEW plan, NEW from, NEW to, NEW away, Install(c, plan, from, to, away)
  PROVE  Obtains(c, from, to, away, {"dependency_missing"})
<1> USE DEF Obtains, DeskKeeps, Keeps, Settled, Shape, Goto, Fail
<1>1. CASE Fail(c, from, away, "dependency_missing") /\ Tries(c, plan)
  <2>1. desk' = desk \/ desk' = [desk EXCEPT !.ran = @ \union {c}]
    BY <1>1 DEF Tries
  <2> QED
    BY <1>1, <2>1
<1>2. CASE Goto(c, from, to) /\ \E h : desk' = [[desk EXCEPT !.host = h] EXCEPT !.ran = @ \union {c}]
  BY <1>2
<1>3. \A h : [desk EXCEPT !.host.found = h, !.ran = desk.ran \union {c}]
              = [[desk EXCEPT !.host = [desk.host EXCEPT !.found = h]] EXCEPT !.ran = @ \union {c}]
  OBVIOUS
<1> QED
  BY <1>1, <1>2, <1>3 DEF Install

LEMMA Requires ==
  ASSUME Shape, NEW c \in Commands, NEW plan, NEW from, NEW to, NEW away, Require(c, plan, from, to, away)
  PROVE  Obtains(c, from, to, away, {"dependency_missing"})
<1>1. CASE Install(c, plan, from, to, away)
  BY <1>1, Installs
<1>2. CASE UNCHANGED desk /\ (Goto(c, from, to) \/ Fail(c, from, away, "dependency_missing"))
  BY <1>2 DEF Obtains, DeskKeeps, Keeps, Settled, Goto, Fail
<1> QED
  BY <1>1, <1>2 DEF Require

LEMMA Ensures ==
  ASSUME Shape, NEW c \in Commands, NEW program, NEW from, NEW to, NEW declined,
         Ensure(c, program, from, to, declined)
  PROVE  Obtains(c, from, to, "end", {"dependency_missing", declined})
<1>1. CASE Install(c, Plan(desk.host, program), from, to, "end")
  BY <1>1, Installs DEF Obtains
<1>2. CASE UNCHANGED desk /\ (Goto(c, from, to) \/ Answer(c, from, declined))
  BY <1>2 DEF Obtains, DeskKeeps, Keeps, Settled, Goto, Fail, Answer
<1> QED
  BY <1>1, <1>2 DEF Ensure

LEMMA FindFrame ==
  ASSUME Shape, NEW c \in Commands, FindStep(c)
  PROVE  /\ Own(c)
         /\ DeskKeeps({"out", "part", "crossed", "cams", "state", "raced", "unsaved", "clip", "copied", "copies",
                       "interrupted"})
         /\ PhoneKeeps({"photos", "unremoved", "clip", "sent"})
         /\ DOMAIN phone'.posts = Commands /\ \A d \in Commands \ {c} : phone'.posts[d] = phone.posts[d]
         /\ \A d \in Commands \ {c} : d \in desk'.ran <=> d \in desk.ran
<1> USE DEF Own, PhoneKeeps, DeskKeeps, Settled, Keeps, Shape, Goto, Fail, Answer, Remote, SelectDevice
<1>1. CASE FindSelect(c)
  BY <1>1 DEF FindSelect
<1>2. CASE FindVolume(c)
  BY <1>2 DEF FindVolume
<1>3. CASE FindPrepared(c)
  BY <1>3 DEF FindPrepared
<1>4. CASE FindNotify(c)
  BY <1>4 DEF FindNotify
<1>5. CASE FindRing(c)
  <2>1. UNCHANGED <<memo, desk>>
    BY <1>5 DEF FindRing
  <2>2. phone' = phone \/ \E r, a : phone' = [[phone EXCEPT !.ring = r] EXCEPT !.adrift = a]
    BY <1>5 DEF FindRing
  <2>3. req' = req /\ \E to : at' = [at EXCEPT ![c] = to]
    BY <1>5 DEF FindRing
  <2>4. reply' = reply \/ \E code : reply' = [reply EXCEPT ![c] = code]
    BY <1>5 DEF FindRing
  <2> QED
    BY <2>1, <2>2, <2>3, <2>4
<1>6. CASE FindVibrate(c)
  BY <1>6 DEF FindVibrate
<1>7. CASE FindTorch(c)
  <2>1. UNCHANGED <<memo, phone>>
    BY <1>7 DEF FindTorch
  <2>2. CASE Require(c, Plan(desk.host, "scrcpy"), "torch", "torching", AfterError)
    BY <2>1, <2>2, Requires DEF Obtains
  <2> QED
    BY <1>7, <2>1, <2>2 DEF FindTorch
<1>8. CASE FindLights(c)
  BY <1>8 DEF FindLights
<1>9. CASE FindRestore(c)
  BY <1>9 DEF FindRestore
<1> QED
  BY <1>1, <1>2, <1>3, <1>4, <1>5, <1>6, <1>7, <1>8, <1>9 DEF FindStep

LEMMA CaptureFrame ==
  ASSUME Shape, NEW c \in Commands, CaptureStep(c)
  PROVE  /\ Own(c)
         /\ PhoneKeeps({"ring", "adrift", "posts", "clip", "sent"})
         /\ \A d \in Commands \ {c} : /\ d \in phone'.photos <=> d \in phone.photos
                                      /\ d \in phone'.unremoved <=> d \in phone.unremoved
         /\ DeskKeeps({"host", "ran", "cams", "state", "raced", "unsaved", "clip", "copied", "copies", "interrupted"})
<1> USE DEF Own, PhoneKeeps, DeskKeeps, Keeps, Shape, Goto, Fail, Answer, Remote
<1>1. CASE CaptureResolve(c)
  BY <1>1 DEF CaptureResolve
<1>2. CASE CapturePrepared(c)
  BY <1>2 DEF CapturePrepared
<1>3. CASE CaptureForeground(c)
  BY <1>3 DEF CaptureForeground
<1>4. CASE CaptureShoot(c)
  BY <1>4 DEF CaptureShoot
<1>5. CASE CaptureFetch(c)
  BY <1>5 DEF CaptureFetch
<1>6. CASE CaptureWrite(c)
  <2>1. desk' = [[desk EXCEPT !.part = c] EXCEPT !.crossed = Crossing(c)] \/ desk' = [desk EXCEPT !.part = "none"]
    BY <1>6 DEF CaptureWrite
  <2>2. Own(c) /\ UNCHANGED phone
    BY <1>6 DEF CaptureWrite
  <2> QED
    BY <2>1, <2>2
<1>7. CASE CaptureCheck(c)
  BY <1>7 DEF CaptureCheck
<1>8. CASE CapturePublish(c)
  <2>1. \/ desk' = [[[desk EXCEPT !.out = desk.part] EXCEPT !.part = "none"] EXCEPT !.crossed = Crossing(c)]
        \/ desk' = [desk EXCEPT !.part = "none"]
    BY <1>8 DEF CapturePublish
  <2>2. Own(c) /\ UNCHANGED phone
    BY <1>8 DEF CapturePublish
  <2> QED
    BY <2>1, <2>2
<1>9. CASE CaptureTidy(c)
  BY <1>9 DEF CaptureTidy
<1> QED
  BY <1>1, <1>2, <1>3, <1>4, <1>5, <1>6, <1>7, <1>8, <1>9 DEF CaptureStep

LEMMA NotifyFrame ==
  ASSUME Shape, NEW c \in Commands, NotifyStep(c)
  PROVE  /\ Own(c) /\ desk' = desk /\ PhoneKeeps({"ring", "adrift", "photos", "unremoved", "clip", "sent"})
         /\ DOMAIN phone'.posts = Commands /\ \A d \in Commands \ {c} : phone'.posts[d] = phone.posts[d]
<1> USE DEF Own, PhoneKeeps, Keeps, Shape, Goto, Fail, Answer, Posted
<1>1. CASE NotifyStart(c)
  BY <1>1 DEF NotifyStart
<1>2. CASE NotifySelect(c)
  BY <1>2 DEF NotifySelect
<1>3. CASE NotifyPost(c)
  BY <1>3 DEF NotifyPost, PostFails
<1>4. CASE NotifySsh(c)
  BY <1>4 DEF NotifySsh
<1> QED
  BY <1>1, <1>2, <1>3, <1>4 DEF NotifyStep

LEMMA SessionFrame ==
  ASSUME Shape, NEW c \in Commands, SessionStep(c)
  PROVE  /\ Own(c) /\ phone' = phone
         /\ DeskKeeps({"out", "part", "crossed", "cams", "state", "raced", "unsaved", "clip", "copied", "copies", "interrupted"})
         /\ \A d \in Commands \ {c} : d \in desk'.ran <=> d \in desk.ran
<1> USE DEF Own, DeskKeeps, Settled, Keeps, Shape, Goto, Fail, Answer, SelectDevice
<1>0. PICK x, y : Session(c, x, y)
  BY DEF SessionStep, ScreenStep, AudioStep, PreviewStep
<1>1. CASE SessionSelect(c, x)
  BY <1>1 DEF SessionSelect
<1>2. CASE SessionPrepared(c, y)
  BY <1>2 DEF SessionPrepared
<1>3. CASE SessionRequire(c)
  <2>1. UNCHANGED <<memo, phone>>
    BY <1>3 DEF SessionRequire
  <2>2. CASE Ensure(c, "scrcpy", "require", "probe", "operation_failed")
    BY <2>1, <2>2, Ensures DEF Obtains
  <2>3. CASE Require(c, memo[c][1], "require", "probe", "end")
    BY <2>1, <2>3, Requires DEF Obtains
  <2> QED
    BY <1>3, <2>2, <2>3 DEF SessionRequire
<1>4. CASE SessionProbe(c)
  BY <1>4 DEF SessionProbe, Probe
<1>5. CASE SessionLaunch(c)
  BY <1>5 DEF SessionLaunch
<1>6. CASE SessionEnds(c)
  BY <1>6 DEF SessionEnds
<1> QED
  BY <1>0, <1>1, <1>2, <1>3, <1>4, <1>5, <1>6 DEF Session

LEMMA WebcamFrame ==
  ASSUME Shape, NEW c \in Commands, WebcamStep(c)
  PROVE  /\ Own(c) /\ phone' = phone
         /\ DeskKeeps({"out", "part", "crossed", "clip", "copied", "copies", "interrupted"})
         /\ \A d \in Commands \ {c} : d \in desk'.ran <=> d \in desk.ran
         /\ \A d \in Commands \ {c} : d \in desk'.cams => d \in desk.cams
<1> USE DEF Own, DeskKeeps, Keeps, Settled, Shape, Goto, Fail, Answer, SelectDevice
<1>1. CASE StartSelect(c)
  BY <1>1 DEF StartSelect
<1>2. CASE StartDevice(c)
  BY <1>2 DEF StartDevice
<1>3. CASE StartPrepared(c)
  BY <1>3 DEF StartPrepared
<1>4. CASE StartLook(c)
  BY <1>4 DEF StartLook, Looks, Unreadable
<1>5. CASE StartRequire(c)
  <2>1. UNCHANGED <<memo, phone>>
    BY <1>5 DEF StartRequire
  <2>2. CASE Ensure(c, "scrcpy", "require", "loopback", "operation_failed")
    BY <2>1, <2>2, Ensures DEF Obtains
  <2>3. CASE Require(c, memo[c][1], "require", "loopback", "end")
    BY <2>1, <2>3, Requires DEF Obtains
  <2> QED
    BY <1>5, <2>2, <2>3 DEF StartRequire
<1>6. CASE StartLoopback(c)
  <2>1. UNCHANGED <<memo, phone>>
    BY <1>6 DEF StartLoopback
  <2>2. ASSUME NEW declined, Ensure(c, "v4l2loopback", "loopback", "probe", declined)
        PROVE  Obtains(c, "loopback", "probe", "end", {"dependency_missing", declined})
    BY <2>1, <2>2, Ensures DEF Obtains
  <2>3. CASE Require(c, memo[c][2], "loopback", "probe", "end")
    BY <2>1, <2>3, Requires DEF Obtains
  <2> QED
    BY <1>6, <2>1, <2>2, <2>3 DEF StartLoopback, Obtains
<1>7. CASE StartProbe(c)
  BY <1>7 DEF StartProbe, Probe
<1>8. CASE StartLaunch(c)
  BY <1>8 DEF StartLaunch
<1>9. CASE StartSave(c)
  BY <1>9 DEF StartSave
<1>10. CASE StopLook(c)
  BY <1>10 DEF StopLook, Looks, Unreadable
<1>11. CASE StopKill(c)
  BY <1>11 DEF StopKill
<1>12. CASE StopClear(c)
  BY <1>12 DEF StopClear
<1> QED
  BY <1>1, <1>2, <1>3, <1>4, <1>5, <1>6, <1>7, <1>8, <1>9, <1>10, <1>11, <1>12 DEF WebcamStep

LEMMA ClipboardFrame ==
  ASSUME Shape, NEW c \in Commands, ClipboardStep(c)
  PROVE  /\ Own(c)
         /\ PhoneKeeps({"ring", "adrift", "posts", "photos", "unremoved", "sent"})
         /\ DeskKeeps({"host", "ran", "out", "part", "crossed", "cams", "state", "raced", "unsaved", "copies", "interrupted"})
<1> USE DEF Own, PhoneKeeps, DeskKeeps, Keeps, Shape, Goto, Fail, Answer
<1>1. CASE ClipStart(c)
  BY <1>1 DEF ClipStart
<1>2. CASE ClipForeground(c)
  BY <1>2 DEF ClipForeground
<1>3. CASE ClipBackend(c)
  BY <1>3 DEF ClipBackend
<1>4. CASE ClipRead(c)
  BY <1>4 DEF ClipRead
<1>5. CASE ClipWrite(c)
  <2>1. Own(c)
    BY <1>5 DEF ClipWrite
  <2>2. UNCHANGED <<phone, desk>> \/ \E side, text : PutOn(side, text)
    BY <1>5 DEF ClipWrite
  <2>3. ASSUME NEW side, NEW text, PutOn(side, text)
        PROVE  /\ PhoneKeeps({"ring", "adrift", "posts", "photos", "unremoved", "sent"})
               /\ DeskKeeps({"host", "ran", "out", "part", "crossed", "cams", "state", "raced", "unsaved", "copies",
                             "interrupted"})
    <3>1. phone' = phone \/ (phone' = [phone EXCEPT !.clip = text])
      BY <2>3 DEF PutOn, Copied
    <3>2. DeskKeeps({"host", "ran", "out", "part", "crossed", "cams", "state", "raced", "unsaved", "copies", "interrupted"})
      BY <2>3 DEF PutOn, Copied
    <3> QED
      BY <3>1, <3>2
  <2> QED
    BY <2>1, <2>2, <2>3
<1>6. CASE ClipDone(c)
  BY <1>6 DEF ClipDone
<1>7. CASE SyncOpens(c)
  BY <1>7 DEF SyncOpens, Reads
<1>8. CASE SyncOpened(c)
  BY <1>8 DEF SyncOpened, Reads
<1>9. CASE SyncPolls(c)
  BY <1>9 DEF SyncPolls, Reads
<1>10. CASE SyncPolled(c)
  BY <1>10 DEF SyncPolled, Reads
<1>11. CASE SyncCarries(c)
  <2>1. /\ Own(c)
        /\ UNCHANGED <<phone, desk>> \/ \E m, side : Carry(m, side)
    BY <1>11 DEF SyncCarries
  <2> QED
    BY <2>1 DEF Carry
<1> QED
  BY <1>1, <1>2, <1>3, <1>4, <1>5, <1>6, <1>7, <1>8, <1>9, <1>10, <1>11 DEF ClipboardStep

LEMMA TransferFrame ==
  ASSUME Shape, NEW c \in Commands, TransferStep(c)
  PROVE  /\ Own(c) /\ desk' = desk /\ PhoneKeeps({"ring", "adrift", "posts", "photos", "unremoved", "clip"})
         /\ DOMAIN phone'.sent = Commands /\ \A d \in Commands \ {c} : phone'.sent[d] = phone.sent[d]
<1> USE DEF Own, PhoneKeeps, Keeps, Shape, Goto, Fail, Answer
<1>1. CASE SendStart(c)
  BY <1>1 DEF SendStart
<1>2. CASE SendSelect(c)
  BY <1>2 DEF SendSelect
<1>3. CASE SendPrepared(c)
  BY <1>3 DEF SendPrepared
<1>4. CASE SendBegins(c)
  BY <1>4 DEF SendBegins
<1>5. CASE SendPush(c)
  BY <1>5 DEF SendPush
<1>6. CASE SendLocal(c)
  BY <1>6 DEF SendLocal
<1> QED
  BY <1>1, <1>2, <1>3, <1>4, <1>5, <1>6 DEF TransferStep

\* The users and the webcam processes.
Outside == UserSaves \/ UserRemoves \/ CameraEnds \/ UserCopies \/ UserInterrupts

LEMMA OutsideFrame ==
  ASSUME Shape, Outside
  PROVE  /\ UNCHANGED <<req, at, reply, memo>>
         /\ PhoneKeeps({"ring", "adrift", "posts", "photos", "unremoved", "sent"})
         /\ DeskKeeps({"part", "state", "raced", "unsaved", "ran"})
         /\ \/ UserSaves /\ DeskKeeps({"cams", "clip", "copied", "copies", "interrupted", "host"}) /\ phone' = phone
            \/ UserRemoves /\ DeskKeeps({"out", "crossed", "cams", "clip", "copied", "copies", "interrupted"}) /\ phone' = phone
            \/ CameraEnds /\ DeskKeeps({"out", "crossed", "clip", "copied", "copies", "interrupted", "host"}) /\ phone' = phone
            \/ UserCopies /\ DeskKeeps({"out", "crossed", "cams", "interrupted", "host"})
            \/ UserInterrupts /\ DeskKeeps({"out", "crossed", "cams", "clip", "copied", "copies", "host"}) /\ phone' = phone
<1> USE DEF PhoneKeeps, DeskKeeps, Keeps, Shape
<1>1. CASE UserSaves
  BY <1>1 DEF UserSaves
<1>2. CASE UserRemoves
  <2>1. \E h : desk' = [desk EXCEPT !.host = h]
    BY <1>2 DEF UserRemoves
  <2>2. UNCHANGED <<req, at, reply, memo, phone>>
    BY <1>2 DEF UserRemoves
  <2> QED
    BY <1>2, <2>1, <2>2
<1>3. CASE CameraEnds
  BY <1>3 DEF CameraEnds
<1>4. CASE UserCopies
  BY <1>4 DEF UserCopies
<1>5. CASE UserInterrupts
  BY <1>5 DEF UserInterrupts
<1> QED
  BY <1>1, <1>2, <1>3, <1>4, <1>5 DEF Outside

\* The step of Next that a command takes.
CommandStep(c) ==
  FindStep(c) \/ CaptureStep(c) \/ NotifyStep(c) \/ SessionStep(c) \/ WebcamStep(c) \/ ClipboardStep(c) \/ TransferStep(c)

LEMMA Steps == Next <=> (\E c \in Commands : CommandStep(c)) \/ Outside
BY DEF Next, CommandStep, Outside

(***************************************************************************)
(* The shape of the phone and the computer                                 *)
(***************************************************************************)
LEMMA InitShape == Init => Shape
BY DEF Init, Shape

LEMMA NextShape == Shape /\ [Next]_vars => Shape'
<1> SUFFICES ASSUME Shape, [Next]_vars PROVE Shape'
  OBVIOUS
<1> USE DEF Own, PhoneKeeps, DeskKeeps, Keeps
<1>1. CASE UNCHANGED vars
  BY <1>1 DEF vars, Shape
<1>2. CASE Outside
  BY <1>2, OutsideFrame DEF Shape
<1>3. ASSUME NEW c \in Commands, CommandStep(c) PROVE Shape'
  <2>1. CASE FindStep(c)
    BY <2>1, FindFrame DEF Shape
  <2>2. CASE CaptureStep(c)
    BY <2>2, CaptureFrame DEF Shape
  <2>3. CASE NotifyStep(c)
    BY <2>3, NotifyFrame DEF Shape
  <2>4. CASE SessionStep(c)
    BY <2>4, SessionFrame DEF Shape
  <2>5. CASE WebcamStep(c)
    BY <2>5, WebcamFrame DEF Shape
  <2>6. CASE ClipboardStep(c)
    BY <2>6, ClipboardFrame DEF Shape
  <2>7. CASE TransferStep(c)
    BY <2>7, TransferFrame DEF Shape
  <2> QED
    BY <1>3, <2>1, <2>2, <2>3, <2>4, <2>5, <2>6, <2>7 DEF CommandStep
<1> QED
  BY <1>1, <1>2, <1>3, Steps

\* Which command a family's step is of.
LEMMA Families ==
  ASSUME NEW c \in Commands
  PROVE  /\ FindStep(c) => req[c].op = "find"
         /\ CaptureStep(c) => req[c].op = "capture"
         /\ NotifyStep(c) => req[c].op = "notify"
         /\ SessionStep(c) => req[c].op \in SessionOps
         /\ WebcamStep(c) => IsWebcam(c)
         /\ ClipboardStep(c) => req[c].op = "clipboard"
         /\ TransferStep(c) => req[c].op = "send"
BY DEF FindStep, CaptureStep, NotifyStep, SessionStep, ScreenStep, AudioStep, PreviewStep, SessionOps,
       WebcamStep, IsWebcam, ClipboardStep, TransferStep

(***************************************************************************)
(* Transfer                                                                *)
(***************************************************************************)
\* What a send knows of itself, wherever it is.
SendOf(c) ==
  /\ phone.sent[c] \in 0..Items
  /\ at[c] # "end" => reply[c] = Unset
  /\ at[c] \in {"start", "select", "prepared", "localsend"} => phone.sent[c] = 0
  /\ at[c] = "pushing" => phone.sent[c] < Items
  /\ at[c] = "localsend" => ForLocalSend(c) /\ req[c].transport \in {"auto", "localsend"}
  /\ reply[c] = "success" /\ ~req[c].dry => phone.sent[c] = Items
  /\ reply[c] = "cancelled" => Interrupted(c) /\ BeforeLast(c)
  /\ reply[c] = "operation_failed" /\ phone.sent[c] > 0 => ~Interrupted(c) \/ req[c].transport = "localsend"

Sends == \A c \in Commands : req[c].op = "send" => SendOf(c)

LEMMA InitSends == Init => Sends
BY OperationsAssumption DEF Init, Sends, SendOf, Interrupted, Unset

\* A send of which nothing changed that it knows.
LEMMA SendStays ==
  ASSUME NEW c \in Commands, SendOf(c), req'[c] = req[c], at'[c] = at[c], reply'[c] = reply[c],
         phone'.sent[c] = phone.sent[c], c \in desk'.interrupted <=> c \in desk.interrupted
  PROVE  SendOf(c)'
BY DEF SendOf, Interrupted, ForLocalSend, BeforeLast

LEMMA SendSteps ==
  ASSUME Shape, NEW c \in Commands, SendOf(c), TransferStep(c)
  PROVE  SendOf(c)'
<1> USE OperationsAssumption DEF SendOf, Shape, Goto, Fail, Answer, Interrupted, ForLocalSend, BeforeLast, Unset
<1>1. CASE SendStart(c)
  BY <1>1 DEF SendStart
<1>2. CASE SendSelect(c)
  BY <1>2 DEF SendSelect, FallsBack
<1>3. CASE SendPrepared(c)
  BY <1>3 DEF SendPrepared
<1>4. CASE SendBegins(c)
  BY <1>4 DEF SendBegins
<1>5. CASE SendPush(c)
  BY <1>5 DEF SendPush, PushFailed
<1>6. CASE SendLocal(c)
  <2>1. /\ req[c].transport \in {"auto", "localsend"} /\ ForLocalSend(c)
        /\ at[c] = "localsend" /\ at' = [at EXCEPT ![c] = "end"]
        /\ req' = req /\ desk' = desk
    BY <1>6 DEF SendLocal
  <2>2. CASE reply' = [reply EXCEPT ![c] = "success"] /\ phone' = [phone EXCEPT !.sent[c] = IF req[c].dry THEN @ ELSE Items]
    BY <2>1, <2>2
  <2>3. CASE /\ reply' = [reply EXCEPT ![c] = LocalFailed(c)]
             /\ phone' = phone \/ \E n \in 1 .. Items : phone' = [phone EXCEPT !.sent[c] = n]
    <3>1. phone'.sent[c] \in 0 .. Items
      BY <2>3
    <3>2. reply'[c] = "transport_unavailable" \/ (reply'[c] = "operation_failed" /\ (req[c].transport = "localsend" \/ phone' = phone))
      BY <2>1, <2>3 DEF LocalFailed
    <3> QED
      BY <2>1, <3>1, <3>2
  <2>4. CASE reply' = [reply EXCEPT ![c] = "dependency_missing"] /\ phone' = phone
    BY <2>1, <2>4
  <2> QED
    BY <1>6, <2>2, <2>3, <2>4 DEF SendLocal
<1> QED
  BY <1>1, <1>2, <1>3, <1>4, <1>5, <1>6 DEF TransferStep

LEMMA NextSends == Shape /\ Sends /\ [Next]_vars => Sends'
<1> SUFFICES ASSUME Shape, Sends, [Next]_vars, NEW d \in Commands, (req[d].op = "send")'
             PROVE  SendOf(d)'
  BY DEF Sends
<1>1. CASE UNCHANGED vars
  BY <1>1, SendStays DEF vars, Sends
<1>2. CASE Outside
  <2>1. req' = req /\ SendOf(d) /\ UNCHANGED <<at, reply>> /\ phone'.sent = phone.sent
    BY <1>2, OutsideFrame DEF Sends, PhoneKeeps, Keeps
  <2>2. CASE desk'.interrupted = desk.interrupted
    BY <2>1, <2>2, SendStays
  <2>3. CASE UserInterrupts
    <3>1. PICK e \in Commands : at[e] \notin {"start", "end"} /\ desk'.interrupted = desk.interrupted \union {e}
      BY <2>3 DEF UserInterrupts, Shape
    <3>2. CASE e = d
      BY <2>1, <3>1, <3>2 DEF SendOf, Interrupted, ForLocalSend, BeforeLast, Unset
    <3>3. CASE e # d
      BY <2>1, <3>1, <3>3, SendStays
    <3> QED
      BY <3>2, <3>3
  <2> QED
    BY <1>2, <2>2, <2>3, OutsideFrame DEF DeskKeeps, Keeps
<1>3. ASSUME NEW c \in Commands, CommandStep(c) PROVE SendOf(d)'
  <2> USE DEF Own, PhoneKeeps, DeskKeeps, Keeps
  <2>1. req' = req /\ desk'.interrupted = desk.interrupted /\ (c # d => at'[d] = at[d] /\ reply'[d] = reply[d])
    BY <1>3, FindFrame, CaptureFrame, NotifyFrame, SessionFrame, WebcamFrame, ClipboardFrame, TransferFrame
       DEF CommandStep
  <2>2. SendOf(d)
    BY <2>1 DEF Sends
  <2>3. CASE c = d
    BY <1>3, <2>1, <2>2, <2>3, Families, SendSteps DEF CommandStep, IsWebcam, SessionOps
  <2>4. CASE c # d
    <3>1. phone'.sent[d] = phone.sent[d]
      BY <1>3, <2>4, FindFrame, CaptureFrame, NotifyFrame, SessionFrame, WebcamFrame, ClipboardFrame, TransferFrame
         DEF CommandStep
    <3> QED
      BY <2>1, <2>2, <2>4, <3>1, SendStays
  <2> QED
    BY <2>3, <2>4
<1> QED
  BY <1>1, <1>2, <1>3, Steps

\* What a send answers is how far it got: success is every item, cancelled an
\* interruption before the last, and an interruption after the first item is not
\* reported as a failed transfer (send_files).
THEOREM SendsTell == Spec => []SendTells
<1>1. Init => Shape /\ Sends
  BY InitShape, InitSends
<1>2. Shape /\ Sends /\ [Next]_vars => Shape' /\ Sends'
  BY NextShape, NextSends
<1>3. Sends => SendTells
  BY DEF Sends, SendOf, SendTells
<1> QED
  BY <1>1, <1>2, <1>3, PTL DEF Spec

(***************************************************************************)
(* Notifications                                                           *)
(***************************************************************************)
\* What a command knows of the notifications it has posted.
PostsOf(c) ==
  /\ phone.posts[c] \in {0, 1}
  /\ req[c].op = "notify" /\ at[c] \in {"start", "select", "post", "ssh"} =>
       phone.posts[c] = 0 /\ reply[c] \in {Unset, "transport_unavailable"}
  /\ req[c].op = "find" /\ at[c] \in {"start", "volume", "prepared", "notify"} => phone.posts[c] = 0
  /\ req[c].op = "notify" /\ reply[c] = "success" /\ ~req[c].dry => phone.posts[c] = 1

Posts == \A c \in Commands : PostsOf(c)

LEMMA InitPosts == Init => Posts
BY DEF Init, Posts, PostsOf, Unset

\* A command of which nothing changed that it knows, and one that is of neither kind.
LEMMA PostsStay ==
  ASSUME NEW c \in Commands, PostsOf(c), req'[c] = req[c], phone'.posts[c] = phone.posts[c],
         \/ at'[c] = at[c] /\ reply'[c] = reply[c]
         \/ req[c].op \notin {"notify", "find"}
  PROVE  PostsOf(c)'
BY DEF PostsOf

LEMMA NotifySteps ==
  ASSUME Shape, NEW c \in Commands, PostsOf(c), NotifyStep(c)
  PROVE  PostsOf(c)'
<1> USE DEF PostsOf, Shape, Goto, Fail, Answer, Unset
<1>0. req[c].op = "notify"
  BY DEF NotifyStep
<1>1. CASE NotifyStart(c)
  BY <1>0, <1>1 DEF NotifyStart
<1>2. CASE NotifySelect(c)
  BY <1>0, <1>2 DEF NotifySelect
<1>3. CASE NotifyPost(c)
  BY <1>0, <1>3 DEF NotifyPost, PostFails, Posted, Ok, Happened
<1>4. CASE NotifySsh(c)
  BY <1>0, <1>4 DEF NotifySsh, SshError, Posted, Ok, Happened
<1> QED
  BY <1>1, <1>2, <1>3, <1>4 DEF NotifyStep

LEMMA FindPosts ==
  ASSUME Shape, NEW c \in Commands, PostsOf(c), FindStep(c)
  PROVE  PostsOf(c)'
<1> USE DEF PostsOf, Shape, Goto, Fail, Answer, Remote, Happened
<1>0. req[c].op = "find"
  BY DEF FindStep
<1>1. CASE FindSelect(c)
  BY <1>0, <1>1 DEF FindSelect, SelectDevice
<1>2. CASE FindVolume(c)
  BY <1>0, <1>2 DEF FindVolume
<1>3. CASE FindPrepared(c)
  BY <1>0, <1>3 DEF FindPrepared
<1>4. CASE FindNotify(c)
  BY <1>0, <1>4 DEF FindNotify
<1>5. CASE FindRing(c)
  BY <1>0, <1>5 DEF FindRing
<1>6. CASE FindVibrate(c)
  BY <1>0, <1>6 DEF FindVibrate
<1>7. CASE FindTorch(c)
  <2>1. UNCHANGED <<memo, phone>> /\ at[c] = "torch"
    BY <1>7 DEF FindTorch, Require, Install
  <2>2. CASE Require(c, Plan(desk.host, "scrcpy"), "torch", "torching", AfterError)
    BY <1>0, <2>1, <2>2, Requires DEF Obtains, AfterError
  <2> QED
    BY <1>0, <1>7, <2>1, <2>2 DEF FindTorch
<1>8. CASE FindLights(c)
  BY <1>0, <1>8 DEF FindLights, AfterError
<1>9. CASE FindRestore(c)
  BY <1>0, <1>9 DEF FindRestore
<1> QED
  BY <1>1, <1>2, <1>3, <1>4, <1>5, <1>6, <1>7, <1>8, <1>9 DEF FindStep

LEMMA NextPosts == Shape /\ Posts /\ [Next]_vars => Posts'
<1> SUFFICES ASSUME Shape, Posts, [Next]_vars, NEW d \in Commands
             PROVE  PostsOf(d)'
  BY DEF Posts
<1>0. PostsOf(d)
  BY DEF Posts
<1>1. CASE UNCHANGED vars
  BY <1>0, <1>1, PostsStay DEF vars
<1>2. CASE Outside
  <2>1. req' = req /\ UNCHANGED <<at, reply>> /\ phone'.posts = phone.posts
    BY <1>2, OutsideFrame DEF PhoneKeeps, Keeps
  <2> QED
    BY <1>0, <2>1, PostsStay
<1>3. ASSUME NEW c \in Commands, CommandStep(c) PROVE PostsOf(d)'
  <2> USE DEF Own, PhoneKeeps, Keeps
  <2>1. req' = req /\ (c # d => at'[d] = at[d] /\ reply'[d] = reply[d])
    BY <1>3, FindFrame, CaptureFrame, NotifyFrame, SessionFrame, WebcamFrame, ClipboardFrame, TransferFrame
       DEF CommandStep
  <2>2. CASE c = d /\ FindStep(c)
    BY <1>0, <2>2, FindPosts
  <2>3. CASE c = d /\ NotifyStep(c)
    BY <1>0, <2>3, NotifySteps
  <2>4. CASE c # d
    <3>1. phone'.posts[d] = phone.posts[d]
      BY <1>3, <2>4, FindFrame, CaptureFrame, NotifyFrame, SessionFrame, WebcamFrame, ClipboardFrame, TransferFrame
         DEF CommandStep
    <3> QED
      BY <1>0, <2>1, <2>4, <3>1, PostsStay
  <2>5. CASE c = d /\ (CaptureStep(c) \/ SessionStep(c) \/ WebcamStep(c) \/ ClipboardStep(c) \/ TransferStep(c))
    <3>1. phone'.posts[d] = phone.posts[d]
      BY <2>5, CaptureFrame, SessionFrame, WebcamFrame, ClipboardFrame, TransferFrame
    <3>2. req[d].op \notin {"notify", "find"}
      BY <2>5, Families DEF IsWebcam, SessionOps
    <3> QED
      BY <1>0, <2>1, <3>1, <3>2, PostsStay
  <2> QED
    BY <1>3, <2>2, <2>3, <2>4, <2>5 DEF CommandStep
<1> QED
  BY <1>1, <1>2, <1>3, Steps

\* A request posts at most one notification, over whichever way it went, and a
\* success that was no dry run has posted it (notify_phone, locate_phone).
THEOREM PostsAtMostOnce == Spec => []NotifiedOnce
<1>1. Init => Shape /\ Posts
  BY InitShape, InitPosts
<1>2. Shape /\ Posts /\ [Next]_vars => Shape' /\ Posts'
  BY NextShape, NextPosts
<1>3. Posts => NotifiedOnce
  BY DEF Posts, PostsOf, NotifiedOnce
<1> QED
  BY <1>1, <1>2, <1>3, PTL DEF Spec

(***************************************************************************)
(* Photos                                                                  *)
(***************************************************************************)
\* A photo on the phone has a capture that is still to remove it, or could not; a
\* file beside the destination has a capture that is saving.
Photos ==
  /\ \A c \in Commands : c \in phone.photos =>
       \/ req[c].op = "capture" /\ at[c] \in {"fetch", "write", "check", "publish", "tidy"}
       \/ c \in phone.unremoved
  /\ desk.part # "none" => \E c \in Commands : Saving(c)

LEMMA InitPhotos == Init => Photos
BY DEF Init, Photos

LEMMA CapturePhotos ==
  ASSUME Shape, Photos, NEW c \in Commands, CaptureStep(c)
  PROVE  Photos'
<1> USE DEF Shape, Photos, Saving, Goto, Fail, Answer, Remote, Happened, Ok
<1>0. req[c].op = "capture" /\ Own(c)
  BY CaptureFrame DEF CaptureStep
<1>1. CASE CaptureResolve(c)
  BY <1>0, <1>1 DEF CaptureResolve
<1>2. CASE CapturePrepared(c)
  BY <1>0, <1>2 DEF CapturePrepared
<1>3. CASE CaptureForeground(c)
  BY <1>0, <1>3 DEF CaptureForeground
<1>4. CASE CaptureShoot(c)
  BY <1>0, <1>4 DEF CaptureShoot, ShootFails
<1>5. CASE CaptureFetch(c)
  BY <1>0, <1>5 DEF CaptureFetch
<1>6. CASE CaptureWrite(c)
  BY <1>0, <1>6 DEF CaptureWrite
<1>7. CASE CaptureCheck(c)
  BY <1>0, <1>7 DEF CaptureCheck
<1>8. CASE CapturePublish(c)
  BY <1>0, <1>8 DEF CapturePublish
<1>9. CASE CaptureTidy(c)
  BY <1>0, <1>9 DEF CaptureTidy
<1> QED
  BY <1>1, <1>2, <1>3, <1>4, <1>5, <1>6, <1>7, <1>8, <1>9 DEF CaptureStep

LEMMA NextPhotos == Shape /\ Photos /\ [Next]_vars => Photos'
<1> SUFFICES ASSUME Shape, Photos, [Next]_vars PROVE Photos'
  OBVIOUS
<1>1. CASE UNCHANGED vars
  BY <1>1 DEF vars, Photos, Saving
<1>2. CASE Outside
  BY <1>2, OutsideFrame DEF Photos, Saving, PhoneKeeps, DeskKeeps, Keeps
<1>3. ASSUME NEW c \in Commands, CommandStep(c) PROVE Photos'
  <2>1. CASE CaptureStep(c)
    BY <2>1, CapturePhotos
  <2>2. CASE ~CaptureStep(c)
    <3>1. req[c].op # "capture"
      BY <1>3, <2>2, Families DEF CommandStep, IsWebcam, SessionOps
    <3>2. Own(c) /\ phone'.photos = phone.photos /\ phone'.unremoved = phone.unremoved /\ desk'.part = desk.part
      BY <1>3, <2>2, FindFrame, NotifyFrame, SessionFrame, WebcamFrame, ClipboardFrame, TransferFrame
         DEF CommandStep, PhoneKeeps, DeskKeeps, Keeps
    <3>3. \A d \in Commands : req[d].op = "capture" => req'[d] = req[d] /\ at'[d] = at[d]
      BY <3>1, <3>2 DEF Own
    <3> QED
      BY <3>2, <3>3 DEF Photos, Saving, Own
  <2> QED
    BY <2>1, <2>2
<1> QED
  BY <1>1, <1>2, <1>3, Steps

\* A capture that is over has left no photo on the phone that a removal could
\* remove, nor a file beside the destination, however it ended (the finally clauses
\* of capture_camera_photo and save_photo).
THEOREM LeavesNothingBehind == Spec => []NothingLeftBehind
<1>1. Init => Shape /\ Photos
  BY InitShape, InitPhotos
<1>2. Shape /\ Photos /\ [Next]_vars => Shape' /\ Photos'
  BY NextShape, NextPhotos
<1>3. Photos => NothingLeftBehind
  BY DEF Photos, Saving, NothingLeftBehind
<1> QED
  BY <1>1, <1>2, <1>3, PTL DEF Spec

\* Unless two captures crossed, or the user came between: one is saving at most, the
\* file beside the destination is its own, and what it has looked for is not there.
Publishing ==
  ~desk.crossed =>
    /\ \A c, d \in Commands : Saving(c) /\ Saving(d) => c = d
    /\ \A c \in Commands : Saving(c) => desk.part \in {c, "none"}
    /\ \A c \in Commands : req[c].op = "capture" /\ at[c] = "publish" => ~Taken(c)

LEMMA InitPublishing == Init => Publishing
BY DEF Init, Publishing, Saving

LEMMA CapturePublishing ==
  ASSUME Shape, Publishing, NEW c \in Commands, CaptureStep(c)
  PROVE  Publishing'
<1> USE DEF Shape, Publishing, Saving, Taken, Own, Goto, Fail, Answer, Remote
<1>0. req[c].op = "capture" /\ Own(c)
  BY CaptureFrame DEF CaptureStep
<1>1. CASE CaptureResolve(c)
  BY <1>0, <1>1 DEF CaptureResolve
<1>2. CASE CapturePrepared(c)
  BY <1>0, <1>2 DEF CapturePrepared
<1>3. CASE CaptureForeground(c)
  BY <1>0, <1>3 DEF CaptureForeground
<1>4. CASE CaptureShoot(c)
  BY <1>0, <1>4 DEF CaptureShoot, ShootFails
<1>5. CASE CaptureFetch(c)
  BY <1>0, <1>5 DEF CaptureFetch
<1>6. CASE CaptureWrite(c)
  <2>1. CASE Goto(c, "write", "check") /\ desk' = [[desk EXCEPT !.part = c] EXCEPT !.crossed = Crossing(c)]
    <3>1. desk'.crossed = Crossing(c) /\ desk'.part = c /\ desk'.out = desk.out
      BY <2>1
    <3>2. ~desk'.crossed => ~desk.crossed /\ \A d \in Commands \ {c} : ~Saving(d)
      BY <3>1, Zenon DEF Crossing
    <3> QED
      BY <1>0, <2>1, <3>1, <3>2
  <2>2. CASE Fail(c, "write", "tidy", "operation_failed") /\ desk' = [desk EXCEPT !.part = "none"]
    BY <1>0, <2>2
  <2> QED
    BY <1>6, <2>1, <2>2 DEF CaptureWrite
<1>7. CASE CaptureCheck(c)
  BY <1>0, <1>7 DEF CaptureCheck
<1>8. CASE CapturePublish(c)
  <2>1. CASE /\ Goto(c, "publish", "tidy")
             /\ desk' = [[[desk EXCEPT !.out = desk.part] EXCEPT !.part = "none"] EXCEPT !.crossed = Crossing(c)]
    <3>1. desk'.crossed = Crossing(c) /\ desk'.part = "none"
      BY <2>1
    <3>2. ~desk'.crossed => ~desk.crossed /\ \A d \in Commands \ {c} : ~Saving(d)
      BY <3>1, Zenon DEF Crossing
    <3> QED
      BY <1>0, <2>1, <3>1, <3>2
  <2>2. CASE Fail(c, "publish", "tidy", "operation_failed") /\ desk' = [desk EXCEPT !.part = "none"]
    BY <1>0, <2>2
  <2> QED
    BY <1>8, <2>1, <2>2 DEF CapturePublish
<1>9. CASE CaptureTidy(c)
  BY <1>0, <1>9 DEF CaptureTidy
<1> QED
  BY <1>1, <1>2, <1>3, <1>4, <1>5, <1>6, <1>7, <1>8, <1>9 DEF CaptureStep

LEMMA NextPublishing == Shape /\ Publishing /\ [Next]_vars => Publishing'
<1> SUFFICES ASSUME Shape, Publishing, [Next]_vars PROVE Publishing'
  OBVIOUS
<1>1. CASE UNCHANGED vars
  BY <1>1 DEF vars, Publishing, Saving, Taken
<1>2. CASE Outside
  <2>1. UNCHANGED <<req, at>> /\ desk'.part = desk.part
    BY <1>2, OutsideFrame DEF DeskKeeps, Keeps
  <2>2. CASE desk'.out = desk.out /\ desk'.crossed = desk.crossed
    BY <2>1, <2>2 DEF Publishing, Saving, Taken
  <2>3. CASE UserSaves
    <3>1. ~desk'.crossed => ~desk.crossed /\ \A c \in Commands : at[c] # "publish"
      <4>1. desk' = [[desk EXCEPT !.out = "user"] EXCEPT
                       !.crossed = desk.crossed \/ \E c \in Commands : at[c] = "publish"]
        BY <2>3 DEF UserSaves
      <4>2. desk'.crossed = (desk.crossed \/ \E c \in Commands : at[c] = "publish")
        BY <4>1 DEF Shape
      <4> QED
        BY <4>2, Zenon
    <3> QED
      BY <2>1, <3>1 DEF Publishing, Saving, Taken
  <2> QED
    BY <1>2, <2>2, <2>3, OutsideFrame DEF DeskKeeps, Keeps
<1>3. ASSUME NEW c \in Commands, CommandStep(c) PROVE Publishing'
  <2>1. CASE CaptureStep(c)
    BY <2>1, CapturePublishing
  <2>2. CASE ~CaptureStep(c)
    <3>1. req[c].op # "capture"
      BY <1>3, <2>2, Families DEF CommandStep, IsWebcam, SessionOps
    <3>2. Own(c) /\ desk'.part = desk.part /\ desk'.out = desk.out /\ desk'.crossed = desk.crossed
      BY <1>3, <2>2, FindFrame, NotifyFrame, SessionFrame, WebcamFrame, ClipboardFrame, TransferFrame
         DEF CommandStep, DeskKeeps, Keeps
    <3>3. req' = req /\ \A d \in Commands : req[d].op = "capture" => at'[d] = at[d]
      BY <3>1, <3>2 DEF Own
    <3> QED
      BY <3>2, <3>3 DEF Publishing, Saving, Taken
  <2> QED
    BY <2>1, <2>2
<1> QED
  BY <1>1, <1>2, <1>3, Steps

\* What one step does to the destination.
Faithful == \A c \in Commands :
  at[c] = "publish" /\ at'[c] # at[c] /\ desk'.out # desk.out => desk'.crossed \/ (desk'.out = c /\ ~Taken(c))

LEMMA StepFaithful == Shape /\ Publishing /\ [Next]_vars => Faithful
<1> SUFFICES ASSUME Shape, Publishing, [Next]_vars, NEW c \in Commands,
                    at[c] = "publish", at'[c] # at[c], desk'.out # desk.out
             PROVE  desk'.crossed \/ (desk'.out = c /\ ~Taken(c))
  BY DEF Faithful
<1>1. ~UNCHANGED vars /\ ~Outside
  BY OutsideFrame DEF vars
<1>2. PICK d \in Commands : CommandStep(d)
  BY <1>1, Steps
<1>3. CaptureStep(d)
  BY <1>2, FindFrame, NotifyFrame, SessionFrame, WebcamFrame, ClipboardFrame, TransferFrame
     DEF CommandStep, DeskKeeps, Keeps
<1>4. d = c
  BY <1>3, CaptureFrame DEF Own
<1>5. CapturePublish(c) /\ req[c].op = "capture"
  BY <1>3, <1>4 DEF CaptureStep, CaptureResolve, CapturePrepared, CaptureForeground, CaptureShoot, CaptureFetch,
                    CaptureWrite, CaptureCheck, CaptureTidy, Goto, Fail, Answer, Remote
<1>6. /\ desk.part # "none"
      /\ desk' = [[[desk EXCEPT !.out = desk.part] EXCEPT !.part = "none"] EXCEPT !.crossed = Crossing(c)]
  BY <1>5 DEF CapturePublish, Shape
<1>7. desk'.out = desk.part /\ desk'.crossed = Crossing(c)
  BY <1>6 DEF Shape
<1>8. CASE Crossing(c)
  BY <1>7, <1>8
<1>9. CASE ~Crossing(c)
  <2>1. ~desk.crossed /\ Saving(c)
    BY <1>5, <1>9 DEF Crossing, Saving
  <2> QED
    BY <1>5, <1>6, <1>7, <2>1 DEF Publishing
<1> QED
  BY <1>8, <1>9

\* What a capture moves onto its destination is its own photo, onto a free name or
\* with --force, unless another capture of that name, or the user, came between its
\* writing the file and its moving it (save_photo).
THEOREM PublishesFaithfully == Spec => PublishedFaithfully
<1>1. Init => Shape /\ Publishing
  BY InitShape, InitPublishing
<1>2. Shape /\ Publishing /\ [Next]_vars => Shape' /\ Publishing'
  BY NextShape, NextPublishing
<1>3. Shape /\ Publishing /\ [Next]_vars =>
        [\A c \in Commands :
           at[c] = "publish" /\ at'[c] # at[c] /\ desk'.out # desk.out =>
             \/ desk'.crossed
             \/ desk'.out = c /\ ~Taken(c)]_vars
  BY StepFaithful DEF Faithful
<1> QED
  BY <1>1, <1>2, <1>3, PTL DEF Spec, PublishedFaithfully

(***************************************************************************)
(* The ringer                                                              *)
(***************************************************************************)
\* What a find knows of the steps it takes.
Finds == \A c \in Commands : req[c].op = "find" =>
  /\ at[c] \in {"start", "volume"} => memo[c] = <<>>
  /\ req[c].dry => at[c] \in {"start", "volume", "prepared", "end"}
  /\ at[c] \in {"start", "volume", "prepared", "notify", "ring", "vibrate", "torch", "torching", "restore", "end"}

\* Unless two finds were there at once, or a command set the ringer and failed: there
\* is one find at most between reading the volume and putting it back; it has read the
\* level the ringer had, or nothing; and the ringer is at that level but while it rings.
Ringer ==
  ~phone.adrift =>
    /\ \A c, d \in Commands : Midfind(c) /\ Midfind(d) => c = d
    /\ \A c \in Commands : Midfind(c) =>
         /\ memo[c] \in {<<>>, <<Quiet>>}
         /\ at[c] \in {"prepared", "notify", "ring"} \/ memo[c] = <<>> => phone.ring = Quiet
    /\ (\A c \in Commands : ~Midfind(c)) => phone.ring = Quiet

LEMMA InitRinger == Init => Finds /\ Ringer
BY DEF Init, Finds, Ringer, Midfind

\* A step that raises no ringer leaves the conditions as they are.
LEMMA FindRinger ==
  ASSUME Shape, Finds, Ringer, NEW c \in Commands, FindStep(c)
  PROVE  Finds' /\ Ringer'
<1> USE DEF Shape, Finds, Ringer, Midfind, Own, Goto, Fail, Answer, Remote, Ok, Happened
<1>0. req[c].op = "find" /\ Own(c)
  BY FindFrame DEF FindStep
<1>1. CASE FindSelect(c)
  BY <1>0, <1>1 DEF FindSelect, SelectDevice
<1>2. CASE FindVolume(c)
  <2> DEFINE Adrift == phone.adrift \/ (~req[c].dry /\ \E d \in Commands \ {c} : Midfind(d))
  <2>1. /\ Goto(c, "volume", "prepared")
        /\ memo' = [memo EXCEPT ![c] = <<phone.ring>>] \/ UNCHANGED memo
        /\ phone' = [phone EXCEPT !.adrift = Adrift]
    BY <1>2 DEF FindVolume
  <2>2. Adrift \/ (~phone.adrift /\ (~req[c].dry => \A d \in Commands \ {c} : ~Midfind(d)))
    BY Zenon
  <2> HIDE DEF Adrift
  <2>3. phone'.ring = phone.ring /\ phone'.adrift = Adrift
    BY <2>1
  <2>4. Finds'
    BY <1>0, <2>1
  <2>5. CASE phone'.adrift
    BY <2>4, <2>5
  <2>6. CASE ~phone'.adrift
    <3>1. ~phone.adrift /\ (~req[c].dry => \A d \in Commands \ {c} : ~Midfind(d))
      BY <2>2, <2>3, <2>6, Zenon
    <3>2. memo[c] = <<>> /\ ~Midfind(c) /\ req' = req
      BY <1>0, <2>1
    <3>3. \A d \in Commands \ {c} : Midfind(d)' <=> Midfind(d)
      BY <1>0
    <3>4. CASE req[c].dry
      BY <1>0, <2>1, <2>3, <2>4, <3>1, <3>2, <3>3, <3>4
    <3>5. CASE ~req[c].dry
      <4>1. \A d \in Commands : ~Midfind(d)
        BY <3>1, <3>2, <3>5
      <4>2. phone.ring = Quiet
        BY <3>1, <4>1
      <4>3. memo'[c] \in {<<>>, <<Quiet>>}
        BY <2>1, <3>2, <4>2
      <4>4. \A d \in Commands : Midfind(d)' => d = c
        BY <3>3, <4>1
      <4> QED
        BY <2>1, <2>3, <2>4, <4>2, <4>3, <4>4
    <3> QED
      BY <3>4, <3>5
  <2> QED
    BY <2>5, <2>6
<1>3. CASE FindPrepared(c)
  BY <1>0, <1>3 DEF FindPrepared
<1>4. CASE FindNotify(c)
  BY <1>0, <1>4 DEF FindNotify
<1>5. CASE FindRing(c)
  <2>1. CASE memo[c] = <<>>
    BY <1>0, <1>5, <2>1 DEF FindRing
  <2>2. CASE memo[c] # <<>>
    <3>1. PICK o \in Outcomes :
            /\ Remote(c, "ring", o, "vibrate", "end")
            /\ phone' = [[phone EXCEPT !.ring = IF Happened(o) THEN Loudest ELSE @] EXCEPT !.adrift = phone.adrift \/ o = "unsure"]
      BY <1>5, <2>2 DEF FindRing
    <3>2. memo' = memo
      BY <1>5 DEF FindRing
    <3>3. o \in {"done", "lost", "unsure"}
      BY DEF Outcomes
    <3>4. CASE o = "unsure"
      <4>1. phone'.adrift = (phone.adrift \/ o = "unsure")
        BY <3>1
      <4>2. phone'.adrift
        BY <3>4, <4>1, Zenon
      <4> QED
        BY <1>0, <3>1, <3>2, <4>2
    <3>5. CASE o # "unsure"
      <4>1. phone'.adrift = (phone.adrift \/ o = "unsure")
        BY <3>1
      <4>2. ~phone'.adrift => ~phone.adrift
        BY <3>5, <4>1, Zenon
      <4>3. CASE o = "done"
        BY <1>0, <2>2, <3>1, <3>2, <4>2, <4>3
      <4>4. CASE o = "lost"
        BY <1>0, <2>2, <3>1, <3>2, <4>2, <4>4
      <4> QED
        BY <3>3, <3>5, <4>3, <4>4
    <3> QED
      BY <3>4, <3>5
  <2> QED
    BY <2>1, <2>2
<1>6. CASE FindVibrate(c)
  BY <1>0, <1>6 DEF FindVibrate
<1>7. CASE FindTorch(c)
  <2>1. UNCHANGED <<memo, phone>> /\ at[c] = "torch"
    BY <1>7 DEF FindTorch, Require, Install
  <2>2. CASE Require(c, Plan(desk.host, "scrcpy"), "torch", "torching", AfterError)
    BY <1>0, <2>1, <2>2, Requires DEF Obtains, AfterError
  <2> QED
    BY <1>0, <1>7, <2>1, <2>2 DEF FindTorch
<1>9. CASE FindLights(c)
  BY <1>0, <1>9 DEF FindLights, AfterError
<1>8. CASE FindRestore(c)
  <2>1. CASE memo[c] = <<>>
    BY <1>0, <1>8, <2>1 DEF FindRestore
  <2>2. CASE memo[c] # <<>>
    <3>1. PICK o \in Outcomes :
            phone' = [[phone EXCEPT !.ring = IF Happened(o) THEN Head(memo[c]) ELSE @] EXCEPT !.adrift = phone.adrift \/ o = "lost"]
      BY <1>8, <2>2 DEF FindRestore
    <3>2. memo' = memo /\ at[c] = "restore" /\ at' = [at EXCEPT ![c] = "end"] /\ req' = req
      BY <1>8 DEF FindRestore
    <3>3. phone'.adrift = (phone.adrift \/ o = "lost")
      BY <3>1
    <3>4. ~phone'.adrift => ~phone.adrift /\ o # "lost"
      BY <3>3, Zenon
    <3>5. ~phone'.adrift => phone'.ring = Quiet
      BY <1>0, <2>2, <3>1, <3>2, <3>4
    <3> QED
      BY <1>0, <3>2, <3>4, <3>5
  <2> QED
    BY <2>1, <2>2
<1> QED
  BY <1>1, <1>2, <1>3, <1>4, <1>5, <1>6, <1>7, <1>8, <1>9 DEF FindStep

LEMMA NextRinger == Shape /\ Finds /\ Ringer /\ [Next]_vars => Finds' /\ Ringer'
<1> SUFFICES ASSUME Shape, Finds, Ringer, [Next]_vars PROVE Finds' /\ Ringer'
  OBVIOUS
<1>1. CASE UNCHANGED vars
  BY <1>1 DEF vars, Finds, Ringer, Midfind
<1>2. CASE Outside
  BY <1>2, OutsideFrame DEF Finds, Ringer, Midfind, PhoneKeeps, Keeps
<1>3. ASSUME NEW c \in Commands, CommandStep(c) PROVE Finds' /\ Ringer'
  <2>1. CASE FindStep(c)
    BY <2>1, FindRinger
  <2>2. CASE ~FindStep(c)
    <3>1. req[c].op # "find"
      BY <1>3, <2>2, Families DEF CommandStep, IsWebcam, SessionOps
    <3>2. Own(c) /\ phone'.ring = phone.ring /\ phone'.adrift = phone.adrift
      BY <1>3, <2>2, CaptureFrame, NotifyFrame, SessionFrame, WebcamFrame, ClipboardFrame, TransferFrame
         DEF CommandStep, PhoneKeeps, Keeps
    <3>3. req' = req /\ \A d \in Commands : req[d].op = "find" => at'[d] = at[d] /\ memo'[d] = memo[d]
      BY <3>1, <3>2 DEF Own
    <3> QED
      BY <3>2, <3>3 DEF Finds, Ringer, Midfind
  <2> QED
    BY <2>1, <2>2
<1> QED
  BY <1>1, <1>2, <1>3, Steps

\* "Never leave the ringer raised, even if the torch step failed" (find.py): once no
\* find is ringing the phone is at the level it had, whatever failed in between.
THEOREM RestoresTheRinger == Spec => []RingerRestored
<1>1. Init => Shape /\ Finds /\ Ringer
  BY InitShape, InitRinger
<1>2. Shape /\ Finds /\ Ringer /\ [Next]_vars => Shape' /\ Finds' /\ Ringer'
  BY NextShape, NextRinger
<1>3. Finds /\ Ringer => RingerRestored
  BY DEF Finds, Ringer, Midfind, Ringing, RingerRestored
<1> QED
  BY <1>1, <1>2, <1>3, PTL DEF Spec

(***************************************************************************)
(* The webcam sink                                                         *)
(***************************************************************************)
\* The processes are those of starts.
Sinks == \A p \in desk.cams : p \in Commands /\ req[p].op = "webcam_start"

\* A start, or a stop, that looked at the file while no other command was midway.
Starting(c) == req[c].op = "webcam_start" /\ at[c] \in {"require", "loopback", "probe", "launch", "save"}
Stopping(c) == req[c].op = "webcam_stop" /\ at[c] \in {"kill", "clear"}

\* Unless two webcam commands overlapped: one is midway at most; beside the process of
\* a start that is midway none runs but those whose saving failed; a stop that is midway
\* has read the pid the file still names, and its process is gone once it is killed.
Tracked ==
  ~desk.raced =>
    /\ \A c, d \in Commands : Midway(c) /\ Midway(d) => c = d
    /\ \A c \in Commands : Starting(c) => \A p \in desk.cams : p = c \/ p \in desk.unsaved
    /\ \A c \in Commands : Stopping(c) =>
         /\ desk.state \in Commands /\ memo[c] = <<desk.state>>
         /\ at[c] = "clear" => desk.state \notin desk.cams
    /\ \A p \in desk.cams : desk.state = p \/ at[p] = "save" \/ p \in desk.unsaved

LEMMA InitSinks == Init => Sinks /\ Tracked
BY DEF Init, Sinks, Tracked, Midway, Starting, Stopping

\* A look at the file while another command is midway is noted.
LEMMA LooksNotes ==
  ASSUME Shape, NEW c \in Commands, Looks(c)
  PROVE  /\ ~desk'.raced => ~desk.raced /\ \A d \in Commands \ {c} : ~Midway(d)
         /\ desk'.cams = desk.cams /\ desk'.state = desk.state /\ desk'.unsaved = desk.unsaved
<1> DEFINE Raced == desk.raced \/ \E d \in Commands \ {c} : Midway(d)
<1>1. desk' = [desk EXCEPT !.raced = Raced]
  BY DEF Looks
<1>2. Raced \/ (~desk.raced /\ \A d \in Commands \ {c} : ~Midway(d))
  BY Zenon
<1> HIDE DEF Raced
<1>3. desk'.raced = Raced /\ desk'.cams = desk.cams /\ desk'.state = desk.state /\ desk'.unsaved = desk.unsaved
  BY <1>1 DEF Shape
<1> QED
  BY <1>2, <1>3, Zenon

LEMMA StartTracked ==
  ASSUME Shape, Sinks, Tracked, NEW c \in Commands, WebcamStep(c), req[c].op = "webcam_start"
  PROVE  Sinks' /\ Tracked'
<1> USE DEF Shape, Sinks, Tracked, Own, Midway, IsWebcam, Starting, Stopping, Goto, Fail, Answer
<1>0. Own(c)
  BY WebcamFrame
<1>1. CASE StartSelect(c)
  BY <1>0, <1>1 DEF StartSelect, SelectDevice
<1>2. CASE StartDevice(c)
  BY <1>0, <1>2 DEF StartDevice
<1>3. CASE StartPrepared(c)
  BY <1>0, <1>3 DEF StartPrepared
<1>4. CASE StartLook(c)
  <2>1. /\ ~desk'.raced => ~desk.raced /\ \A d \in Commands \ {c} : ~Midway(d)
        /\ desk'.cams = desk.cams /\ desk'.state = desk.state /\ desk'.unsaved = desk.unsaved
    BY <1>4, LooksNotes DEF StartLook
  <2>2. CASE at' = [at EXCEPT ![c] = "end"]
    BY <1>0, <1>4, <2>1, <2>2 DEF StartLook, Unreadable
  <2>3. CASE ~Alive(desk.state) /\ Goto(c, "look", "require")
    BY <1>0, <1>4, <2>1, <2>3 DEF StartLook, Alive
  <2> QED
    BY <1>4, <2>2, <2>3 DEF StartLook, Unreadable
<1>5. CASE StartRequire(c)
  <2>1. Obtains(c, "require", "loopback", "end", {"dependency_missing", "operation_failed"}) /\ memo' = memo
    BY <1>5, Ensures, Requires DEF StartRequire, Obtains
  <2> QED
    BY <1>0, <2>1 DEF Obtains, DeskKeeps, Keeps, Settled
<1>6. CASE StartLoopback(c)
  <2>1. Obtains(c, "loopback", "probe", "end", {"dependency_missing", "operation_failed"}) /\ memo' = memo
    BY <1>6, Ensures, Requires DEF StartLoopback, Obtains
  <2> QED
    BY <1>0, <2>1 DEF Obtains, DeskKeeps, Keeps, Settled
<1>7. CASE StartProbe(c)
  BY <1>0, <1>7 DEF StartProbe, Probe
<1>8. CASE StartLaunch(c)
  BY <1>0, <1>8 DEF StartLaunch
<1>9. CASE StartSave(c)
  BY <1>0, <1>9 DEF StartSave
<1> QED
  BY <1>1, <1>2, <1>3, <1>4, <1>5, <1>6, <1>7, <1>8, <1>9 DEF WebcamStep

LEMMA StopTracked ==
  ASSUME Shape, Sinks, Tracked, NEW c \in Commands, WebcamStep(c), req[c].op = "webcam_stop"
  PROVE  Sinks' /\ Tracked'
<1> USE DEF Shape, Sinks, Tracked, Own, Midway, IsWebcam, Starting, Stopping, Goto, Fail, Answer
<1>0. Own(c)
  BY WebcamFrame
<1>1. CASE StopLook(c)
  <2>1. CASE Looks(c) /\ at' = [at EXCEPT ![c] = "end"]
    <3>1. /\ ~desk'.raced => ~desk.raced
          /\ desk'.cams = desk.cams /\ desk'.state = desk.state /\ desk'.unsaved = desk.unsaved
      BY <2>1, LooksNotes
    <3> QED
      BY <1>0, <1>1, <2>1, <3>1 DEF StopLook
  <2>2. CASE desk.state = "malformed"
    BY <1>0, <1>1, <2>2, OperationsAssumption DEF StopLook, Unreadable, Pids
  <2>3. CASE /\ Looks(c) /\ desk.state \in Commands /\ memo' = [memo EXCEPT ![c] = <<desk.state>>]
             /\ Goto(c, "start", "kill")
    <3>1. /\ ~desk'.raced => ~desk.raced /\ \A d \in Commands \ {c} : ~Midway(d)
          /\ desk'.cams = desk.cams /\ desk'.state = desk.state /\ desk'.unsaved = desk.unsaved
      BY <2>3, LooksNotes
    <3> QED
      BY <1>0, <2>3, <3>1
  <2> QED
    BY <1>1, <2>1, <2>2, <2>3 DEF StopLook, Unreadable, Pids
<1>2. CASE StopKill(c)
  BY <1>0, <1>2 DEF StopKill, Alive
<1>3. CASE StopClear(c)
  BY <1>0, <1>3 DEF StopClear
<1> QED
  BY <1>1, <1>2, <1>3 DEF WebcamStep

LEMMA NextTracked == Shape /\ Sinks /\ Tracked /\ [Next]_vars => Sinks' /\ Tracked'
<1> SUFFICES ASSUME Shape, Sinks, Tracked, [Next]_vars PROVE Sinks' /\ Tracked'
  OBVIOUS
<1> USE DEF Sinks, Tracked, Midway, IsWebcam, Starting, Stopping
<1>1. CASE UNCHANGED vars
  BY <1>1 DEF vars
<1>2. CASE Outside
  <2>1. UNCHANGED <<req, at, memo>> /\ desk'.state = desk.state /\ desk'.raced = desk.raced /\ desk'.unsaved = desk.unsaved
    BY <1>2, OutsideFrame DEF DeskKeeps, Keeps
  <2>2. \A p \in desk'.cams : p \in desk.cams
    BY <1>2, OutsideFrame DEF DeskKeeps, Keeps, CameraEnds, Shape
  <2> QED
    BY <2>1, <2>2
<1>3. ASSUME NEW c \in Commands, CommandStep(c) PROVE Sinks' /\ Tracked'
  <2>1. CASE WebcamStep(c)
    BY <2>1, StartTracked, StopTracked, Families DEF IsWebcam
  <2>2. CASE ~WebcamStep(c)
    <3>1. ~IsWebcam(c)
      BY <1>3, <2>2, Families DEF CommandStep, IsWebcam, SessionOps
    <3>2. /\ Own(c) /\ desk'.state = desk.state /\ desk'.raced = desk.raced /\ desk'.unsaved = desk.unsaved
          /\ desk'.cams = desk.cams
      BY <1>3, <2>2, FindFrame, CaptureFrame, NotifyFrame, SessionFrame, ClipboardFrame, TransferFrame
         DEF CommandStep, DeskKeeps, Keeps
    <3>3. req' = req /\ \A d \in Commands : IsWebcam(d) => at'[d] = at[d] /\ memo'[d] = memo[d]
      BY <3>1, <3>2 DEF Own
    <3> QED
      BY <3>1, <3>2, <3>3
  <2> QED
    BY <2>1, <2>2
<1> QED
  BY <1>1, <1>2, <1>3, Steps

\* The process webcam.json names is the one that runs, so that stop can end it, unless
\* two webcam commands overlapped or a save failed (start_webcam, stop_webcam).
THEOREM TracksTheSink == Spec => []SinkIsTracked
<1>1. Init => Shape /\ Sinks /\ Tracked
  BY InitShape, InitSinks
<1>2. Shape /\ Sinks /\ Tracked /\ [Next]_vars => Shape' /\ Sinks' /\ Tracked'
  BY NextShape, NextTracked
<1>3. Sinks /\ Tracked => SinkIsTracked
  BY DEF Tracked, SinkIsTracked
<1> QED
  BY <1>1, <1>2, <1>3, PTL DEF Spec

(***************************************************************************)
(* The clipboard                                                           *)
(***************************************************************************)
IsSync(c) == req[c].op = "clipboard" /\ req[c].action = "sync"

\* The texts a sync is told of are those copied since its own last pass, so it is
\* the one sync there is.
OneSync == \A w \in Worlds : \A c, d \in Commands :
  w.plan[c].op = "clipboard" /\ w.plan[d].op = "clipboard" /\ w.plan[c].action = "sync" /\ w.plan[d].action = "sync" => c = d

\* What a clipboard command is asked, and where it may be.
Clips ==
  /\ \A c, d \in Commands : IsSync(c) /\ IsSync(d) => c = d
  /\ \A c \in Commands : req[c].op = "clipboard" =>
       /\ req[c].action \in {"get", "set", "pull", "push", "sync"} /\ req[c].prefer \in Sides
       /\ at[c] \in {"sync", "opened", "poll", "polled", "carry"} => req[c].action = "sync"
       /\ at[c] \in {"write", "set", "done"} => req[c].action # "sync"

\* What a sync remembers of a side it has not been told of a copy into.
Remembers(c) ==
  LET m == memo[c][1] IN
  /\ DOMAIN memo[c] = {1} /\ DOMAIN m = {"was", "now", "read"} /\ DOMAIN m.was = Sides /\ DOMAIN m.now = Sides
  /\ at[c] \in {"opened", "poll"} /\ "phone" \notin desk.copied => phone.clip = m.was["phone"]
  /\ at[c] \in {"poll", "polled"} /\ "desktop" \notin desk.copied => desk.clip = m.was["desktop"]
  /\ at[c] \in {"polled", "carry"} /\ "phone" \notin desk.copied => phone.clip = m.now["phone"]
  /\ at[c] = "carry" /\ "desktop" \notin desk.copied => desk.clip = m.now["desktop"]
  /\ at[c] \in {"polled", "carry"} /\ "phone" \notin m.read => m.now["phone"] = m.was["phone"]
  /\ at[c] = "carry" /\ "desktop" \notin m.read => m.now["desktop"] = m.was["desktop"]

Syncing(c) == IsSync(c) /\ at[c] \in {"opened", "poll", "polled", "carry"}
Syncs == \A c \in Commands : Syncing(c) => Remembers(c)

LEMMA InitAsked == Init => \A c \in Commands : req[c].op = "clipboard" =>
                     req[c].action \in {"get", "set", "pull", "push", "sync"} /\ req[c].prefer \in {"phone", "desktop"}
<1> SUFFICES ASSUME Init, NEW c \in Commands, req[c].op = "clipboard"
             PROVE  req[c].action \in {"get", "set", "pull", "push", "sync"} /\ req[c].prefer \in {"phone", "desktop"}
  OBVIOUS
<1>1. req[c] \in Requests
  BY OperationsAssumption DEF Init
<1>2. req[c] \in ClipboardRequests
  BY <1>1 DEF Requests, FindRequests, CaptureRequests, NotifyRequests, SessionRequests, SessionOps,
     WebcamRequests, SendRequests
<1> QED
  BY <1>2 DEF ClipboardRequests

LEMMA InitSyncs == ASSUME OneSync PROVE Init => Clips /\ Syncs
<1> SUFFICES ASSUME Init PROVE Clips /\ Syncs
  OBVIOUS
<1>1. PICK w \in Worlds : req = w.plan
  BY DEF Init
<1>2. \A c \in Commands : at[c] = "start"
  BY DEF Init
<1>3. \A c \in Commands : req[c].op = "clipboard" =>
        req[c].action \in {"get", "set", "pull", "push", "sync"} /\ req[c].prefer \in {"phone", "desktop"}
  BY InitAsked
<1>4. \A c, d \in Commands : IsSync(c) /\ IsSync(d) => c = d
  BY <1>1 DEF OneSync, IsSync
<1> QED
  BY <1>2, <1>3, <1>4 DEF Clips, Syncs, Syncing, Sides

LEMMA OtherSide == Other("phone") = "desktop" /\ Other("desktop") = "phone"
BY DEF Other, Sides

\* A sync of which nothing changed that it knows, but that a side was copied into.
LEMMA RemembersStays ==
  ASSUME NEW c \in Commands, Syncing(c), Remembers(c), req' = req, at'[c] = at[c], memo'[c] = memo[c],
         "phone" \in desk'.copied \/ (phone'.clip = phone.clip /\ "phone" \notin desk.copied),
         "desktop" \in desk'.copied \/ (desk'.clip = desk.clip /\ "desktop" \notin desk.copied)
  PROVE  Remembers(c)'
BY DEF Remembers, Sides

\* A clipboard command that is not between the reads of a sync, and stays out of them.
LEMMA OtherClips ==
  ASSUME Shape, Clips, Syncs, NEW c \in Commands, req[c].op = "clipboard", Own(c),
         \A side \in Sides : \/ side \in desk'.copied
                             \/ Clip'[side] = Clip[side] /\ side \notin desk.copied,
         ~Syncing(c)',
         at'[c] \in {"sync", "opened", "poll", "polled", "carry"} => req[c].action = "sync",
         at'[c] \in {"write", "set", "done"} => req[c].action # "sync"
  PROVE  Clips' /\ Syncs'
<1>1. Clips'
  BY DEF Clips, IsSync, Own, Sides
<1>2. ASSUME NEW d \in Commands, Syncing(d)' PROVE Remembers(d)'
  <2>1. d # c
    BY <1>2
  <2>2. req' = req /\ at'[d] = at[d] /\ memo'[d] = memo[d]
    BY <2>1 DEF Own
  <2>3. Syncing(d)
    BY <1>2, <2>2 DEF Syncing, IsSync
  <2>4. Remembers(d)
    BY <2>3 DEF Syncs
  <2> QED
    BY <2>2, <2>3, <2>4, RemembersStays DEF Sides, Clip
<1> QED
  BY <1>1, <1>2 DEF Syncs

\* A step of the sync: there is no other.
LEMMA OwnSync ==
  ASSUME Clips, NEW c \in Commands, IsSync(c), Own(c),
         Syncing(c)' => Remembers(c)', at'[c] \notin {"write", "set", "done"}
  PROVE  Clips' /\ Syncs'
<1>1. req' = req /\ \A d \in Commands : Syncing(d)' => d = c
  BY DEF Clips, Syncing, IsSync, Own
<1>2. \A d \in Commands \ {c} : at'[d] = at[d]
  BY DEF Own
<1> QED
  BY <1>1, <1>2 DEF Clips, Syncs, IsSync

LEMMA CarriesSyncs ==
  ASSUME Shape, Clips, Syncs, NEW c \in Commands, req[c].op = "clipboard", SyncCarries(c)
  PROVE  Clips' /\ Syncs'
<1> DEFINE m == memo[c][1]
           from == Sources(Head(memo[c]), req[c].prefer)
<1>1. IsSync(c) /\ Syncing(c) /\ at[c] = "carry" /\ Own(c)
  BY ClipboardFrame DEF Clips, IsSync, Syncing, SyncCarries, ClipboardStep
<1>2. Remembers(c)
  BY <1>1 DEF Syncs
<1>3. CASE at' = [at EXCEPT ![c] = "end"]
  BY <1>1, <1>3, OwnSync DEF Syncing, Shape
<1>4. CASE /\ at' = [at EXCEPT ![c] = "poll"] /\ memo' = [memo EXCEPT ![c][1].was = Head(memo[c]).now]
           /\ from = {} /\ UNCHANGED <<phone, desk>>
  <2> QED
    BY <1>1, <1>2, <1>4, OwnSync DEF Remembers, Syncing, Shape
<1>5. ASSUME NEW side \in from, Carry(Head(memo[c]), side), at' = [at EXCEPT ![c] = "poll"],
             memo' = [memo EXCEPT ![c][1].was = Remembered(Head(memo[c]), side)]
      PROVE  Clips' /\ Syncs'
  <2> QED
    BY <1>1, <1>2, <1>5, OwnSync DEF Remembers, Syncing, Shape, Carry, Remembered, Sides
<1> QED
  BY <1>3, <1>4, <1>5 DEF SyncCarries, Goto, Fail, Answer

LEMMA ClipboardSyncs ==
  ASSUME Shape, Clips, Syncs, NEW c \in Commands, ClipboardStep(c)
  PROVE  Clips' /\ Syncs'
<1> USE DEF Shape, Goto, Fail, Answer
<1>0. req[c].op = "clipboard" /\ Own(c)
  BY ClipboardFrame DEF ClipboardStep
<1>a. req[c].action \in {"get", "set", "pull", "push", "sync"}
  BY <1>0 DEF Clips
<1>1. CASE ClipStart(c)
  BY <1>0, <1>1, OtherClips DEF ClipStart, Clip, Sides, Syncing
<1>2. CASE ClipForeground(c)
  BY <1>0, <1>2, OtherClips DEF ClipForeground, Clip, Sides, Syncing
<1>3. CASE ClipBackend(c)
  BY <1>0, <1>a, <1>3, OtherClips DEF ClipBackend, Clip, Sides, Syncing
<1>4. CASE ClipRead(c)
  BY <1>0, <1>4, OtherClips DEF ClipRead, Clip, Sides, Syncing
<1>5. CASE ClipWrite(c)
  <2>1. at[c] \in {"write", "set"} /\ at'[c] \in {"end", "done"}
    BY <1>5 DEF ClipWrite
  <2>2. UNCHANGED <<phone, desk>> \/ \E side, text : PutOn(side, text)
    BY <1>5 DEF ClipWrite
  <2>3. \A side \in Sides : side \in desk'.copied \/ (Clip'[side] = Clip[side] /\ side \notin desk.copied)
    <3>1. CASE UNCHANGED <<phone, desk>>
      BY <3>1 DEF Clip, Sides
    <3>2. ASSUME NEW side, NEW text, PutOn(side, text)
          PROVE  \A s \in Sides : s \in desk'.copied \/ (Clip'[s] = Clip[s] /\ s \notin desk.copied)
      <4>1. CASE side = "phone"
        BY <3>2, <4>1 DEF PutOn, Copied, Clip, Sides
      <4>2. CASE side = "desktop"
        <5>1. phone' = phone /\ desk'.copied = desk.copied \union {"desktop"}
          BY <3>2, <4>2 DEF PutOn
        <5> QED
          BY <5>1 DEF Clip, Sides
      <4> QED
        BY <3>2, <4>1, <4>2 DEF PutOn
    <3> QED
      BY <2>2, <3>1, <3>2
  <2>4. req[c].action # "sync"
    BY <1>0, <2>1 DEF Clips
  <2> QED
    BY <1>0, <2>1, <2>3, <2>4, OtherClips DEF Syncing
<1>6. CASE ClipDone(c)
  BY <1>0, <1>6, OtherClips DEF ClipDone, Clip, Sides, Syncing
<1>7. CASE SyncOpens(c)
  <2>1. IsSync(c)
    BY <1>0, <1>7 DEF SyncOpens, Clips, IsSync
  <2> QED
    BY <1>0, <1>7, <2>1, OwnSync DEF SyncOpens, Reads, Clip, Syncing, Remembers, Sides
<1>8. CASE SyncOpened(c)
  <2>1. IsSync(c) /\ at[c] = "opened"
    BY <1>0, <1>8 DEF SyncOpened, Clips, IsSync
  <2>2. Remembers(c)
    BY <2>1 DEF Syncs, Syncing
  <2> QED
    BY <1>0, <1>8, <2>1, <2>2, OwnSync DEF SyncOpened, Reads, Clip, Syncing, Remembers, Sides
<1>9. CASE SyncPolls(c)
  <2>1. IsSync(c) /\ at[c] = "poll"
    BY <1>0, <1>9 DEF SyncPolls, Clips, IsSync
  <2>2. Remembers(c)
    BY <2>1 DEF Syncs, Syncing
  <2> QED
    BY <1>0, <1>9, <2>1, <2>2, OwnSync DEF SyncPolls, Reads, Clip, Syncing, Remembers, Sides
<1>10. CASE SyncPolled(c)
  <2>1. IsSync(c) /\ at[c] = "polled"
    BY <1>0, <1>10 DEF SyncPolled, Clips, IsSync
  <2>2. Remembers(c)
    BY <2>1 DEF Syncs, Syncing
  <2> QED
    BY <1>0, <1>10, <2>1, <2>2, OwnSync DEF SyncPolled, Reads, Clip, Syncing, Remembers, Sides
<1>11. CASE SyncCarries(c)
  BY <1>0, <1>11, CarriesSyncs
<1> QED
  BY <1>1, <1>2, <1>3, <1>4, <1>5, <1>6, <1>7, <1>8, <1>9, <1>10, <1>11 DEF ClipboardStep

LEMMA NextSyncs == Shape /\ Clips /\ Syncs /\ [Next]_vars => Clips' /\ Syncs'
<1> SUFFICES ASSUME Shape, Clips, Syncs, [Next]_vars PROVE Clips' /\ Syncs'
  OBVIOUS
<1>0. ASSUME req' = req, at' = at, memo' = memo,
             \A side \in Sides : side \in desk'.copied \/ (Clip'[side] = Clip[side] /\ side \notin desk.copied)
      PROVE  Clips' /\ Syncs'
  <2>1. Clips'
    BY <1>0 DEF Clips, IsSync, Sides
  <2>2. ASSUME NEW d \in Commands, Syncing(d)' PROVE Remembers(d)'
    <3>1. Syncing(d) /\ Remembers(d)
      BY <1>0, <2>2 DEF Syncs, Syncing, IsSync
    <3> QED
      BY <1>0, <3>1, RemembersStays DEF Sides, Clip
  <2> QED
    BY <2>1, <2>2 DEF Syncs
<1>1. CASE UNCHANGED vars
  BY <1>0, <1>1 DEF vars, Clip, Sides
<1>2. CASE Outside
  <2>1. UNCHANGED <<req, at, memo>>
    BY <1>2, OutsideFrame
  <2>2. CASE UserCopies
    <3>1. \/ phone' = phone /\ desk'.copied = desk.copied \union {"desktop"}
          \/ desk'.clip = desk.clip /\ desk'.copied = desk.copied \union {"phone"}
      BY <2>2 DEF UserCopies, Shape
    <3>2. \A side \in Sides : side \in desk'.copied \/ (Clip'[side] = Clip[side] /\ side \notin desk.copied)
      BY <3>1 DEF Clip, Sides
    <3> QED
      BY <1>0, <2>1, <3>2
  <2>3. CASE ~UserCopies
    <3>1. phone' = phone /\ desk'.clip = desk.clip /\ desk'.copied = desk.copied
      BY <1>2, <2>3, OutsideFrame DEF DeskKeeps, Keeps
    <3> QED
      BY <1>0, <2>1, <3>1 DEF Clip, Sides
  <2> QED
    BY <2>2, <2>3
<1>3. ASSUME NEW c \in Commands, CommandStep(c) PROVE Clips' /\ Syncs'
  <2>1. CASE ClipboardStep(c)
    BY <2>1, ClipboardSyncs
  <2>2. CASE ~ClipboardStep(c)
    <3>1. req[c].op # "clipboard"
      BY <1>3, <2>2, Families DEF CommandStep, IsWebcam, SessionOps
    <3>2. Own(c) /\ phone'.clip = phone.clip /\ desk'.clip = desk.clip /\ desk'.copied = desk.copied
      BY <1>3, <2>2, FindFrame, CaptureFrame, NotifyFrame, SessionFrame, WebcamFrame, TransferFrame
         DEF CommandStep, PhoneKeeps, DeskKeeps, Keeps
    <3>3. req' = req /\ \A d \in Commands : req[d].op = "clipboard" => at'[d] = at[d] /\ memo'[d] = memo[d]
      BY <3>1, <3>2 DEF Own
    <3>4. Clips'
      BY <3>3 DEF Clips, IsSync, Sides
    <3>5. ASSUME NEW d \in Commands, Syncing(d)' PROVE Remembers(d)'
      <4>1. Syncing(d) /\ Remembers(d) /\ at'[d] = at[d] /\ memo'[d] = memo[d]
        BY <3>3, <3>5 DEF Syncs, Syncing, IsSync
      <4> QED
        BY <3>2, <3>3, <4>1, RemembersStays
    <3> QED
      BY <3>4, <3>5 DEF Syncs
  <2> QED
    BY <2>1, <2>2
<1> QED
  BY <1>1, <1>2, <1>3, Steps

\* What one pass of a sync puts on the sides.
Carries == \A c \in Commands :
  req[c].op = "clipboard" /\ at[c] = "carry" /\ at'[c] # "carry" =>
    {side \in Sides : Clip[side] # Clip'[side]} \subseteq {Other(side) : side \in Head(memo[c]).read}

LEMMA StepCarries == Shape /\ Clips /\ Syncs /\ [Next]_vars => Carries
<1> SUFFICES ASSUME Shape, Clips, Syncs, [Next]_vars, NEW c \in Commands,
                    req[c].op = "clipboard", at[c] = "carry", at'[c] # "carry", NEW s \in Sides, Clip[s] # Clip'[s]
             PROVE  s \in {Other(side) : side \in Head(memo[c]).read}
  BY DEF Carries
<1>1. ~UNCHANGED vars /\ ~Outside
  BY OutsideFrame DEF vars
<1>2. PICK d \in Commands : CommandStep(d)
  BY <1>1, Steps
<1>3. d = c
  BY <1>2, FindFrame, CaptureFrame, NotifyFrame, SessionFrame, WebcamFrame, ClipboardFrame, TransferFrame
     DEF CommandStep, Own
<1>4. SyncCarries(c)
  <2>1. ClipboardStep(c)
    BY <1>2, <1>3, Families DEF CommandStep, IsWebcam, SessionOps
  <2>2. req[c].action \in {"get", "set", "pull", "push", "sync"}
    BY DEF Clips
  <2> QED
    BY <2>1, <2>2 DEF ClipboardStep, ClipStart, ClipForeground, ClipBackend, ClipRead, ClipWrite, ClipDone, SyncOpens,
       SyncOpened, SyncPolls, SyncPolled, Goto, Fail, Answer
<1>5. Remembers(c) /\ req[c].prefer \in Sides
  BY DEF Clips, Syncs, Syncing, IsSync
<1>6. PICK side \in Sources(Head(memo[c]), req[c].prefer) : Carry(Head(memo[c]), side)
  BY <1>4 DEF SyncCarries, Clip, Sides
<1>7. side \in Sides /\ Head(memo[c]).now[side] # Head(memo[c]).was[side]
  BY <1>5, <1>6 DEF Sources, Changed
<1>8. side \in Head(memo[c]).read
  BY <1>5, <1>7 DEF Remembers, Sides
<1>9. s = Other(side)
  BY <1>6, <1>7, OtherSide DEF Carry, Clip, Sides, Shape
<1> QED
  BY <1>8, <1>9

\* sync_clipboards puts on one side only a text that was copied on the other since its
\* last pass: it never takes its own text for a new one and carries it back over a copy
\* that came meanwhile.
THEOREM NeverEchoes == ASSUME OneSync PROVE Spec => NoEcho
<1>1. Init => Shape /\ Clips /\ Syncs
  BY InitShape, InitSyncs
<1>2. Shape /\ Clips /\ Syncs /\ [Next]_vars => Shape' /\ Clips' /\ Syncs'
  BY NextShape, NextSyncs
<1>3. Shape /\ Clips /\ Syncs /\ [Next]_vars =>
        [\A c \in Commands :
           req[c].op = "clipboard" /\ at[c] = "carry" /\ at'[c] # "carry" =>
             {side \in Sides : Clip[side] # Clip'[side]} \subseteq {Other(side) : side \in Head(memo[c]).read}]_vars
  BY StepCarries DEF Carries
<1> QED
  BY <1>1, <1>2, <1>3, PTL DEF Spec, NoEcho

(***************************************************************************)
(* Trying again                                                            *)
(***************************************************************************)
\* A command that answered transport_unavailable is over, and had done nothing, unless
\* it has handed over to a second way; where it looks for its phone it has done nothing.
Fresh == \A c \in Commands :
  /\ at[c] \in {"start", "select"} => ~Done(c)
  /\ reply[c] = "transport_unavailable" => SecondWay(c) \/ (at[c] = "end" /\ ~Done(c))
  /\ req[c].op = "clipboard" => req[c].action \in {"get", "set", "pull", "push", "sync"}

LEMMA InitFresh == Init => Fresh
<1> SUFFICES ASSUME Init, NEW c \in Commands PROVE ~Done(c) /\ reply[c] = Unset
  BY InitAsked DEF Fresh, Unset
<1> QED
  BY DEF Init, Done

\* What a command has done is its own doing, and a process that ends undoes it.
LEMMA DoneByOwn ==
  ASSUME Shape, NEW c \in Commands, CommandStep(c), NEW d \in Commands \ {c}, Done(d)'
  PROVE  Done(d)
<1> USE DEF Done, PhoneKeeps, DeskKeeps, Keeps
<1>1. CASE FindStep(c)
  BY <1>1, FindFrame
<1>2. CASE CaptureStep(c)
  BY <1>2, CaptureFrame
<1>3. CASE NotifyStep(c)
  BY <1>3, NotifyFrame
<1>4. CASE SessionStep(c)
  BY <1>4, SessionFrame
<1>5. CASE WebcamStep(c)
  BY <1>5, WebcamFrame
<1>6. CASE ClipboardStep(c)
  BY <1>6, ClipboardFrame
<1>7. CASE TransferStep(c)
  BY <1>7, TransferFrame
<1> QED
  BY <1>1, <1>2, <1>3, <1>4, <1>5, <1>6, <1>7 DEF CommandStep

LEMMA DoneOutside ==
  ASSUME Shape, Outside, NEW d \in Commands, Done(d)'
  PROVE  Done(d)
<1>1. \A p \in desk'.cams : p \in desk.cams
  BY OutsideFrame DEF DeskKeeps, Keeps, CameraEnds, Shape
<1> QED
  BY <1>1, OutsideFrame DEF Done, PhoneKeeps, DeskKeeps, Keeps

\* What a step of a command does to its answer: it is over only once; it looks for a
\* phone before anything else; and it answers that there is none right then, or when a
\* second way has failed.
Answers(c) ==
  /\ req' = req /\ at[c] # "end" /\ at'[c] # "start"
  /\ at'[c] = "select" => at[c] = "start" /\ UNCHANGED <<phone, desk>>
  /\ reply'[c] = "transport_unavailable" =>
       \/ SecondWay(c) \/ reply[c] = "transport_unavailable"
       \/ at[c] \in {"start", "select"} /\ at'[c] = "end" /\ UNCHANGED <<phone, desk>>

LEMMA FindAnswers ==
  ASSUME Shape, NEW c \in Commands, FindStep(c)
  PROVE  Answers(c)
<1> USE DEF Answers, Shape, Goto, Fail, Answer, Remote
<1>1. CASE FindSelect(c)
  BY <1>1 DEF FindSelect, SelectDevice
<1>2. CASE FindVolume(c)
  BY <1>2 DEF FindVolume
<1>3. CASE FindPrepared(c)
  BY <1>3 DEF FindPrepared
<1>4. CASE FindNotify(c)
  BY <1>4 DEF FindNotify
<1>5. CASE FindRing(c)
  BY <1>5 DEF FindRing
<1>6. CASE FindVibrate(c)
  BY <1>6 DEF FindVibrate
<1>7. CASE FindTorch(c)
  <2>1. CASE Require(c, Plan(desk.host, "scrcpy"), "torch", "torching", AfterError)
    BY <2>1, Requires DEF Obtains, AfterError
  <2> QED
    BY <1>7, <2>1 DEF FindTorch
<1>8. CASE FindLights(c)
  BY <1>8 DEF FindLights, AfterError
<1>9. CASE FindRestore(c)
  BY <1>9 DEF FindRestore
<1> QED
  BY <1>1, <1>2, <1>3, <1>4, <1>5, <1>6, <1>7, <1>8, <1>9 DEF FindStep

LEMMA CaptureAnswers ==
  ASSUME Shape, NEW c \in Commands, CaptureStep(c)
  PROVE  Answers(c)
<1> USE DEF Answers, Shape, Goto, Fail, Answer, Remote
<1>1. CASE CaptureResolve(c)
  BY <1>1 DEF CaptureResolve
<1>2. CASE CapturePrepared(c)
  BY <1>2 DEF CapturePrepared
<1>3. CASE CaptureForeground(c)
  BY <1>3 DEF CaptureForeground
<1>4. CASE CaptureShoot(c)
  BY <1>4 DEF CaptureShoot, ShootFails
<1>5. CASE CaptureFetch(c)
  BY <1>5 DEF CaptureFetch
<1>6. CASE CaptureWrite(c)
  BY <1>6 DEF CaptureWrite
<1>7. CASE CaptureCheck(c)
  BY <1>7 DEF CaptureCheck
<1>8. CASE CapturePublish(c)
  BY <1>8 DEF CapturePublish
<1>9. CASE CaptureTidy(c)
  BY <1>9 DEF CaptureTidy
<1> QED
  BY <1>1, <1>2, <1>3, <1>4, <1>5, <1>6, <1>7, <1>8, <1>9 DEF CaptureStep

LEMMA NotifyAnswers ==
  ASSUME Shape, NEW c \in Commands, NotifyStep(c)
  PROVE  Answers(c)
<1> USE DEF Answers, Shape, Goto, Fail, Answer
<1>0. req[c].op = "notify"
  BY DEF NotifyStep
<1>1. CASE NotifyStart(c)
  BY <1>1 DEF NotifyStart
<1>2. CASE NotifySelect(c)
  BY <1>0, <1>2 DEF NotifySelect, SecondWay
<1>3. CASE NotifyPost(c)
  BY <1>3 DEF NotifyPost, PostFails
<1>4. CASE NotifySsh(c)
  BY <1>4 DEF NotifySsh, SshError
<1> QED
  BY <1>1, <1>2, <1>3, <1>4 DEF NotifyStep

LEMMA SessionAnswers ==
  ASSUME Shape, NEW c \in Commands, SessionStep(c)
  PROVE  Answers(c)
<1> USE DEF Answers, Shape, Goto, Fail, Answer, SelectDevice
<1>0. PICK x, y : Session(c, x, y)
  BY DEF SessionStep, ScreenStep, AudioStep, PreviewStep
<1>1. CASE SessionSelect(c, x)
  BY <1>1 DEF SessionSelect
<1>2. CASE SessionPrepared(c, y)
  BY <1>2 DEF SessionPrepared
<1>3. CASE SessionRequire(c)
  <2>1. Obtains(c, "require", "probe", "end", {"dependency_missing", "operation_failed"})
    BY <1>3, Ensures, Requires DEF SessionRequire, Obtains
  <2> QED
    BY <2>1 DEF Obtains
<1>4. CASE SessionProbe(c)
  BY <1>4 DEF SessionProbe, Probe
<1>5. CASE SessionLaunch(c)
  BY <1>5 DEF SessionLaunch
<1>6. CASE SessionEnds(c)
  BY <1>6 DEF SessionEnds
<1> QED
  BY <1>0, <1>1, <1>2, <1>3, <1>4, <1>5, <1>6 DEF Session

LEMMA WebcamAnswers ==
  ASSUME Shape, NEW c \in Commands, WebcamStep(c)
  PROVE  Answers(c)
<1> USE DEF Answers, Shape, Goto, Fail, Answer
<1>1. CASE StartSelect(c)
  BY <1>1 DEF StartSelect, SelectDevice
<1>2. CASE StartDevice(c)
  BY <1>2 DEF StartDevice
<1>3. CASE StartPrepared(c)
  BY <1>3 DEF StartPrepared
<1>4. CASE StartLook(c)
  BY <1>4 DEF StartLook, Unreadable
<1>5. CASE StartRequire(c)
  <2>1. Obtains(c, "require", "loopback", "end", {"dependency_missing", "operation_failed"})
    BY <1>5, Ensures, Requires DEF StartRequire, Obtains
  <2> QED
    BY <2>1 DEF Obtains
<1>6. CASE StartLoopback(c)
  <2>1. Obtains(c, "loopback", "probe", "end", {"dependency_missing", "operation_failed"})
    BY <1>6, Ensures, Requires DEF StartLoopback, Obtains
  <2> QED
    BY <2>1 DEF Obtains
<1>7. CASE StartProbe(c)
  BY <1>7 DEF StartProbe, Probe
<1>8. CASE StartLaunch(c)
  BY <1>8 DEF StartLaunch
<1>9. CASE StartSave(c)
  BY <1>9 DEF StartSave
<1>10. CASE StopLook(c)
  BY <1>10 DEF StopLook, Unreadable
<1>11. CASE StopKill(c)
  BY <1>11 DEF StopKill
<1>12. CASE StopClear(c)
  BY <1>12 DEF StopClear
<1> QED
  BY <1>1, <1>2, <1>3, <1>4, <1>5, <1>6, <1>7, <1>8, <1>9, <1>10, <1>11, <1>12 DEF WebcamStep

LEMMA ClipboardAnswers ==
  ASSUME Shape, Fresh, NEW c \in Commands, ClipboardStep(c)
  PROVE  Answers(c)
<1> USE DEF Answers, Shape, Goto, Fail, Answer
<1>1. CASE ClipStart(c)
  BY <1>1 DEF ClipStart
<1>2. CASE ClipForeground(c)
  BY <1>2 DEF ClipForeground
<1>3. CASE ClipBackend(c)
  BY <1>3 DEF ClipBackend, ClipboardStep, Fresh
<1>4. CASE ClipRead(c)
  BY <1>4 DEF ClipRead
<1>5. CASE ClipWrite(c)
  BY <1>5 DEF ClipWrite
<1>6. CASE ClipDone(c)
  BY <1>6 DEF ClipDone
<1>7. CASE SyncOpens(c)
  BY <1>7 DEF SyncOpens
<1>8. CASE SyncOpened(c)
  BY <1>8 DEF SyncOpened
<1>9. CASE SyncPolls(c)
  BY <1>9 DEF SyncPolls
<1>10. CASE SyncPolled(c)
  BY <1>10 DEF SyncPolled
<1>11. CASE SyncCarries(c)
  BY <1>11 DEF SyncCarries
<1> QED
  BY <1>1, <1>2, <1>3, <1>4, <1>5, <1>6, <1>7, <1>8, <1>9, <1>10, <1>11 DEF ClipboardStep

LEMMA SendAnswers ==
  ASSUME Shape, Sends, NEW c \in Commands, TransferStep(c)
  PROVE  Answers(c)
<1> USE DEF Answers, Shape, Goto, Fail, Answer
<1>0. req[c].op = "send"
  BY DEF TransferStep
<1>1. CASE SendStart(c)
  BY <1>1 DEF SendStart
<1>2. CASE SendSelect(c)
  BY <1>2 DEF SendSelect
<1>3. CASE SendPrepared(c)
  BY <1>3 DEF SendPrepared
<1>4. CASE SendBegins(c)
  BY <1>4 DEF SendBegins
<1>5. CASE SendPush(c)
  BY <1>5 DEF SendPush, PushFailed
<1>6. CASE SendLocal(c)
  <2>1. at[c] = "localsend" /\ ForLocalSend(c)
    BY <1>0, <1>6 DEF SendLocal, Sends, SendOf
  <2>2. LocalFailed(c) = "transport_unavailable" => SecondWay(c)
    BY <1>0, <2>1 DEF LocalFailed, SecondWay, FallsBack
  <2> QED
    BY <1>6, <2>1, <2>2 DEF SendLocal
<1> QED
  BY <1>1, <1>2, <1>3, <1>4, <1>5, <1>6 DEF TransferStep

LEMMA NextFresh == Shape /\ Sends /\ Fresh /\ [Next]_vars => Fresh'
<1> SUFFICES ASSUME Shape, Sends, Fresh, [Next]_vars PROVE Fresh'
  OBVIOUS
<1>1. CASE UNCHANGED vars
  BY <1>1 DEF vars, Fresh, Done, SecondWay, MayFallBack, FallsBack, ForLocalSend
<1>2. CASE Outside
  <2>1. UNCHANGED <<req, at, reply>> /\ \A d \in Commands : Done(d)' => Done(d)
    BY <1>2, OutsideFrame, DoneOutside
  <2> QED
    BY <2>1 DEF Fresh, SecondWay, MayFallBack, FallsBack, ForLocalSend
<1>3. ASSUME NEW c \in Commands, CommandStep(c) PROVE Fresh'
  <2>1. Answers(c)
    BY <1>3, FindAnswers, CaptureAnswers, NotifyAnswers, SessionAnswers, WebcamAnswers, ClipboardAnswers, SendAnswers
       DEF CommandStep
  <2>2. Own(c)
    BY <1>3, FindFrame, CaptureFrame, NotifyFrame, SessionFrame, WebcamFrame, ClipboardFrame, TransferFrame
       DEF CommandStep
  <2>3. \A d \in Commands \ {c} : Done(d)' => Done(d)
    BY <1>3, DoneByOwn
  <2>4. req' = req /\ \A d \in Commands : SecondWay(d)' <=> SecondWay(d)
    BY <2>1 DEF Answers, SecondWay, MayFallBack, FallsBack, ForLocalSend
  <2>5. UNCHANGED <<phone, desk>> => (Done(c)' <=> Done(c))
    BY DEF Done
  <2>6. /\ at'[c] \in {"start", "select"} => ~Done(c)'
        /\ reply'[c] = "transport_unavailable" => SecondWay(c) \/ (at'[c] = "end" /\ ~Done(c)')
    BY <2>1, <2>5 DEF Answers, Fresh
  <2> QED
    BY <2>2, <2>3, <2>4, <2>6 DEF Fresh, Own
<1> QED
  BY <1>1, <1>2, <1>3, Steps

\* An answer that JobRunner and the API's clients take as leave to call the service
\* again comes before anything was posted, sent, taken, started or installed, but for
\* a second way that failed (RETRYABLE of jobs.py against the services' error paths).
THEOREM RetriesRepeatNothing == Spec => []RetryRepeatsNothing
<1>1. Init => Shape /\ Sends /\ Fresh
  BY InitShape, InitSends, InitFresh
<1>2. Shape /\ Sends /\ Fresh /\ [Next]_vars => Shape' /\ Sends' /\ Fresh'
  BY NextShape, NextSends, NextFresh
<1>3. Fresh => RetryRepeatsNothing
  BY DEF Fresh, RetryRepeatsNothing
<1> QED
  BY <1>1, <1>2, <1>3, PTL DEF Spec
=============================================================================
