------------------------------- MODULE Notify -------------------------------
(***************************************************************************)
(* notify_phone of src/linkplane/notification.py: post over ADB, or over   *)
(* SSH when that was asked for or when no phone could be selected and the  *)
(* request leaves the choice open.                                         *)
(***************************************************************************)
EXTENDS Commands

NotifyRequests ==
  [op : {"notify"}, transport : {"auto", "adb", "ssh"}, serial : BOOLEAN, fromProfile : BOOLEAN,
   ssh : BOOLEAN, dry : BOOLEAN]

NotifyStart(c) ==
  /\ \/ req[c].transport = "ssh" /\ req[c].serial /\ Answer(c, "start", "invalid_request")
     \/ req[c].transport = "ssh" /\ ~req[c].serial /\ Goto(c, "start", "ssh")
     \/ req[c].transport # "ssh" /\ Goto(c, "start", "select")
  /\ UNCHANGED <<memo, phone, desk>>

\* A serial the user typed names one phone and no other way to reach it.
MayFallBack(c) ==
  req[c].transport = "auto" /\ (req[c].serial => req[c].fromProfile)

NotifySelect(c) ==
  /\ \/ Goto(c, "select", "post")
     \/ ~MayFallBack(c) /\ Answer(c, "select", "transport_unavailable")
     \/ MayFallBack(c) /\ Fail(c, "select", "ssh", "transport_unavailable")
  /\ UNCHANGED <<memo, phone, desk>>

PostFails_FallsBack(c) == MayFallBack(c) /\ Goto(c, "post", "ssh")  \* mutant: a failed post is tried again over SSH
PostFails(c) == Answer(c, "post", "operation_failed")

Posted(c, o) == phone' = [phone EXCEPT !.posts[c] = IF Happened(o) THEN @ + 1 ELSE @]

NotifyPost(c) ==
  /\ \/ req[c].dry /\ Answer(c, "post", "success") /\ UNCHANGED phone
     \/ /\ ~req[c].dry
        /\ \E o \in Outcomes :
             /\ \/ Ok(o) /\ Answer(c, "post", "success")
                \/ ~Ok(o) /\ PostFails(c)
             /\ Posted(c, o)
  /\ UNCHANGED <<memo, desk>>

\* reply[c] holds the ADB error when this is the second choice.
SshError(c) == IF reply[c] = Unset THEN "operation_failed" ELSE reply[c]
NotifySsh(c) ==
  /\ \/ ~req[c].ssh /\ Answer(c, "ssh", SshError(c)) /\ UNCHANGED phone
     \/ req[c].ssh /\ req[c].dry /\ Answer(c, "ssh", "success") /\ UNCHANGED phone
     \/ /\ req[c].ssh /\ ~req[c].dry
        /\ \E o \in Outcomes :
             /\ Answer(c, "ssh", IF Ok(o) THEN "success" ELSE SshError(c))
             /\ Posted(c, o)
  /\ UNCHANGED <<memo, desk>>

NotifyStep(c) ==
  /\ req[c].op = "notify"
  /\ NotifyStart(c) \/ NotifySelect(c) \/ NotifyPost(c) \/ NotifySsh(c)
=============================================================================
