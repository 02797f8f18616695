------------------------------ MODULE Commands ------------------------------
(***************************************************************************)
(* What the single-command operations share.  A command of the linkplane   *)
(* tool (or a job of the daemon) is given one request, runs its steps,     *)
(* answers once and is over; several may run at once, from two terminals   *)
(* or from a terminal and a rule, and nothing orders them.                 *)
(*                                                                         *)
(* A step that talks to the phone is a subprocess with a timeout           *)
(* (run_command).  It is done; or lost, when it did not happen and an      *)
(* error is raised; or unsure, when it did happen and the error is raised  *)
(* all the same, because the time ran out before the answer was back.      *)
(***************************************************************************)
EXTENDS Naturals, FiniteSets, Sequences

CONSTANTS
  Commands,  \* the processes
  Worlds     \* what they are asked and what they find: a set of records
             \* [plan: Commands -> request, host, out, state]

VARIABLES
  req,    \* req[c]: the request of command c, never changed
  at,     \* at[c]: the step it is at, "end" once it has answered
  reply,  \* reply[c]: its answer; set earlier when a finally clause is still to run
  memo,   \* memo[c]: <<v>> for a value v it has read and uses later, or <<>>
  phone,  \* the phone: ringer, notifications, temporary photos
  desk    \* the computer: programs installed, files, webcam processes

vars == <<req, at, reply, memo, phone, desk>>

Unset == "unset"
Outcomes == {"done", "lost", "unsure"}
Happened(o) == o # "lost"
Ok(o) == o = "done"

\* Move on; move on with the answer decided; answer.
Goto(c, from, to) ==
  /\ at[c] = from
  /\ at' = [at EXCEPT ![c] = to]
  /\ UNCHANGED <<req, reply>>
Fail(c, from, to, code) ==
  /\ at[c] = from
  /\ at' = [at EXCEPT ![c] = to]
  /\ reply' = [reply EXCEPT ![c] = code]
  /\ UNCHANGED req
Answer(c, from, code) == Fail(c, from, "end", code)

\* A step on the phone: on to the next when it is reported done, else away.
Remote(c, from, o, to, else) ==
  \/ Ok(o) /\ Goto(c, from, to)
  \/ ~Ok(o) /\ Fail(c, from, else, "operation_failed")

\* AdbTransport.select_device: the one phone that is ready, or an error.
SelectDevice(c, from, to) ==
  \/ Goto(c, from, to)
  \/ Answer(c, from, "transport_unavailable")
=============================================================================
