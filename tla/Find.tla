-------------------------------- MODULE Find --------------------------------
(***************************************************************************)
(* locate_phone of src/linkplane/find.py: post a notification, raise the   *)
(* ringer, vibrate, light the torch, and put the ringer back.              *)
(* A request says which of the three were asked for.  memo[c] is           *)
(* current_volume, empty while unread or when it could not be read.        *)
(***************************************************************************)
EXTENDS Dependencies

CONSTANT Loudest  \* maximum_volume

FindRequests ==
  [op : {"find"}, ring : BOOLEAN, torch : BOOLEAN, vibrate : BOOLEAN, install : BOOLEAN, dry : BOOLEAN]

Asked(c) == req[c].ring \/ req[c].torch \/ req[c].vibrate

FindSelect(c) ==
  /\ \/ ~Asked(c) /\ Answer(c, "start", "invalid_request")
     \/ Asked(c) /\ SelectDevice(c, "start", "volume")
  /\ UNCHANGED <<memo, phone, desk>>

\* Between reading the volume and putting it back.  phone.adrift notes that two
\* finds were there at once, or that a command set the ringer and failed.
Midfind(c) == req[c].op = "find" /\ ~req[c].dry /\ at[c] \notin {"start", "volume", "end"}

\* The volume is read if ringing was asked for; unreadable, the ring is skipped.
FindVolume(c) ==
  /\ Goto(c, "volume", "prepared")
  /\ \/ req[c].ring /\ memo' = [memo EXCEPT ![c] = <<phone.ring>>]
     \/ UNCHANGED memo
  /\ phone' = [phone EXCEPT !.adrift = @ \/ (~req[c].dry /\ \E d \in Commands \ {c} : Midfind(d))]
  /\ UNCHANGED desk

FindPrepared(c) ==
  /\ \/ req[c].dry /\ Answer(c, "prepared", "success")
     \/ ~req[c].dry /\ Goto(c, "prepared", "notify")
  /\ UNCHANGED <<memo, phone, desk>>

FindNotify(c) == \E o \in Outcomes :
  /\ Remote(c, "notify", o, "ring", "end")
  /\ phone' = [phone EXCEPT !.posts[c] = IF Happened(o) THEN @ + 1 ELSE @]
  /\ UNCHANGED <<memo, desk>>

\* ring_applied is set after the command returned: one that raises leaves it
\* unset, and with it the restore.
FindRing(c) ==
  /\ \/ memo[c] = <<>> /\ Goto(c, "ring", "vibrate") /\ UNCHANGED phone
     \/ /\ memo[c] # <<>>
        /\ \E o \in Outcomes :
             /\ Remote(c, "ring", o, "vibrate", "end")
             /\ phone' = [phone EXCEPT !.ring = IF Happened(o) THEN Loudest ELSE @,
                                       !.adrift = @ \/ o = "unsure"]
  /\ UNCHANGED <<memo, desk>>

FindVibrate(c) ==
  /\ \/ ~req[c].vibrate /\ Goto(c, "vibrate", "torch")
     \/ req[c].vibrate /\ \E o \in Outcomes : Remote(c, "vibrate", o, "torch", "restore")
  /\ UNCHANGED <<memo, phone, desk>>

\* The torch needs scrcpy: while the phone rings, it is looked for and, with
\* --install, installed.  An error passes the finally clause on its way out.
AfterError_Ends == "end"  \* mutant: restore on success only
AfterError == "restore"
FindTorch(c) ==
  /\ \/ ~req[c].torch /\ Goto(c, "torch", "restore") /\ UNCHANGED desk
     \/ req[c].torch /\ Require(c, Plan(desk.host, "scrcpy"), "torch", "torching", AfterError)
  /\ UNCHANGED <<memo, phone>>

\* scrcpy's exit code is not looked at; what Popen raises is not caught.
FindLights(c) ==
  /\ Goto(c, "torching", "restore") \/ Fail(c, "torching", AfterError, "raised")
  /\ UNCHANGED <<memo, phone, desk>>

\* finally: put the ringer back; whether that works changes no answer.
FindRestore(c) ==
  /\ Answer(c, "restore", IF reply[c] = Unset THEN "success" ELSE reply[c])
  /\ \/ memo[c] = <<>> /\ UNCHANGED phone
     \/ /\ memo[c] # <<>>
        /\ \E o \in Outcomes :
             phone' = [phone EXCEPT !.ring = IF Happened(o) THEN Head(memo[c]) ELSE @,
                                    !.adrift = @ \/ o = "lost"]
  /\ UNCHANGED <<memo, desk>>

FindStep(c) ==
  /\ req[c].op = "find"
  /\ \/ FindSelect(c) \/ FindVolume(c) \/ FindPrepared(c) \/ FindNotify(c)
     \/ FindRing(c) \/ FindVibrate(c) \/ FindTorch(c) \/ FindLights(c) \/ FindRestore(c)
=============================================================================
