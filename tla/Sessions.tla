------------------------------ MODULE Sessions ------------------------------
(***************************************************************************)
(* launch_screen, launch_audio and preview_phone_camera: a scrcpy session  *)
(* that lasts as long as the command.  refused says whether the request is *)
(* turned down before or after a phone was selected.  On a terminal        *)
(* ensure_scrcpy may ask whether to install scrcpy (answer; "none" when    *)
(* there is no terminal to ask on); other callers use require_dependency.  *)
(* memo[c] is the plan the request was prepared with.                      *)
(***************************************************************************)
EXTENDS Dependencies

SessionOps == {"screen", "audio", "preview"}
SessionRequests ==
  [op : SessionOps, refused : {"no", "before", "after"}, handler : {"ask", "require"},
   answer : {"yes", "no", "none"}, install : BOOLEAN, dry : BOOLEAN]

SessionSelect(c, at1) ==
  /\ \/ at1 /\ Answer(c, "start", "invalid_request")
     \/ ~at1 /\ SelectDevice(c, "start", "prepared")
  /\ memo' = [memo EXCEPT ![c] = <<Plan(desk.host, "scrcpy")>>]
  /\ UNCHANGED <<phone, desk>>

SessionPrepared(c, at2) ==
  /\ \/ at2 /\ Answer(c, "prepared", "invalid_request")
     \/ ~at2 /\ req[c].dry /\ Answer(c, "prepared", "success")
     \/ ~at2 /\ ~req[c].dry /\ Goto(c, "prepared", "require")
  /\ UNCHANGED <<memo, phone, desk>>

SessionRequire(c) ==
  /\ at[c] = "require"
  /\ \/ req[c].handler = "ask" /\ Ensure(c, "scrcpy", "require", "probe", "operation_failed")
     \/ req[c].handler = "require" /\ Require(c, memo[c][1], "require", "probe", "end")
  /\ UNCHANGED <<memo, phone>>

\* scrcpy_compatibility: it must be there, answer --help and know the options.
Probe(c, from, to) ==
  \/ "scrcpy" \in desk.host.found /\ Goto(c, from, to)
  \/ Answer(c, from, "dependency_missing")

SessionProbe(c) == Probe(c, "probe", "launch") /\ UNCHANGED <<memo, phone, desk>>

SessionLaunch(c) ==
  /\ \/ "scrcpy" \in desk.host.found /\ Goto(c, "launch", "running")
     \/ "scrcpy" \in desk.host.found /\ Answer(c, "launch", "operation_failed")
     \/ "scrcpy" \notin desk.host.found /\ Answer(c, "launch", "dependency_missing")
  /\ UNCHANGED <<memo, phone, desk>>

\* Whatever exit code scrcpy ends with, the session succeeded.
SessionEnds(c) == Answer(c, "running", "success") /\ UNCHANGED <<memo, phone, desk>>

Session(c, before, after) ==
  \/ SessionSelect(c, before) \/ SessionPrepared(c, after) \/ SessionRequire(c)
  \/ SessionProbe(c) \/ SessionLaunch(c) \/ SessionEnds(c)

ScreenStep(c) == req[c].op = "screen" /\ Session(c, req[c].refused # "no", FALSE)
AudioStep(c) == req[c].op = "audio" /\ Session(c, req[c].refused = "before", req[c].refused = "after")
PreviewStep(c) == req[c].op = "preview" /\ Session(c, req[c].refused # "no", FALSE)

SessionStep(c) == ScreenStep(c) \/ AudioStep(c) \/ PreviewStep(c)

\* The user, or a package upgrade, removes scrcpy.
UserRemoves ==
  /\ "scrcpy" \in desk.host.found
  /\ \E c \in Commands : req[c].op \in SessionOps
  /\ desk' = [desk EXCEPT !.host.found = @ \ {"scrcpy"}]
  /\ UNCHANGED <<req, at, reply, memo, phone>>
=============================================================================
