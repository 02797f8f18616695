---------------------------- MODULE MCOperations ----------------------------
(***************************************************************************)
(* Two commands.  Those that can disturb each other run in pairs; the      *)
(* others run beside a command that is the same each time.                 *)
(***************************************************************************)
EXTENDS Operations

CONSTANTS c1, c2
MCCommands == {c1, c2}

Pair(R, S) == {[c \in MCCommands |-> IF c = c1 THEN r ELSE s] : r \in R, s \in S}

Find1 == {r \in FindRequests : r.ring /\ ~r.install}
Capture1 == {r \in CaptureRequests : r.serial /\ r.ssh /\ ~r.foreground}
Start1 == {r \in WebcamRequests : r.op = "webcam_start" /\ ~r.refused /\ r.device /\ ~r.install /\ r.handler = "ask" /\ r.answer = "yes"}
Stop1 == {r \in WebcamRequests : r.op = "webcam_stop" /\ ~r.dry}
Quick == {[op |-> "notify", transport |-> "ssh", serial |-> TRUE, fromProfile |-> FALSE, ssh |-> FALSE, dry |-> TRUE]}

Set1 == {[op |-> "clipboard", action |-> "set", prefer |-> "phone", foreground |-> FALSE, serial |-> FALSE, dry |-> TRUE]}

Bare == [found |-> {"dnf"}, root |-> TRUE]
NoSudo == [found |-> {"apt-get", "dnf"}, root |-> FALSE]
Hosts == {Bare, NoSudo,
  [found |-> {"scrcpy", "v4l2loopback"}, root |-> FALSE],
  [found |-> {"apt-get", "dnf", "sudo"}, root |-> FALSE],
  [found |-> {"brew", "v4l2loopback"}, root |-> FALSE]}

\* Each pair with what matters to it.
MCWorlds ==
  [plan : Pair(FindRequests \union NotifyRequests, Quick) \union Pair(Find1, Find1),
   host : Hosts, out : {"none"}, state : {"none"}, copies : {0}]
  \union [plan : Pair(CaptureRequests, Quick) \union Pair(Capture1, Capture1),
          host : {Bare}, out : {"none", "dir", "user"}, state : {"none"}, copies : {0}]
  \union [plan : Pair(SessionRequests, Quick), host : Hosts, out : {"none"}, state : {"none"}, copies : {0}]
  \union [plan : Pair(WebcamRequests, Stop1) \union Pair(Start1, Start1),
          host : Hosts, out : {"none"}, state : {"none", "unreadable", "malformed"}, copies : {0}]
  \union [plan : Pair(ClipboardRequests, Set1), host : {Bare}, out : {"none"}, state : {"none"}, copies : {2}]
  \union [plan : Pair(SendRequests, Quick), host : {Bare}, out : {"none"}, state : {"none"}, copies : {0}]
=============================================================================
