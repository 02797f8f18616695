------------------------------ MODULE Transfer ------------------------------
(***************************************************************************)
(* send_files of src/linkplane/transfer.py: files pushed one by one over   *)
(* ADB, or handed all at once to the LocalSend program, which needs no     *)
(* phone attached.  phone.sent[c] counts the items that arrived.  The user *)
(* may ask for cancellation at any moment.                                 *)
(***************************************************************************)
EXTENDS Commands

CONSTANT Items  \* bound: the items of a request

SendRequests == [op : {"send"}, refused : BOOLEAN, transport : {"auto", "adb", "localsend"},
                 serial : BOOLEAN, default : BOOLEAN, dry : BOOLEAN]

\* LocalSend takes neither a serial nor a destination.
ForLocalSend(c) == ~req[c].serial /\ req[c].default

SendStart(c) ==
  /\ LET refused == req[c].refused \/ (req[c].transport = "localsend" /\ ~ForLocalSend(c)) IN
       \/ refused /\ Answer(c, "start", "invalid_request")
       \/ ~refused /\ Goto(c, "start", IF req[c].transport = "localsend" THEN "localsend" ELSE "select")
  /\ UNCHANGED <<memo, phone, desk>>

\* Only an `auto` that could go to either falls back.
FallsBack(c) == req[c].transport = "auto" /\ ForLocalSend(c)

SendSelect(c) ==
  /\ \/ Goto(c, "select", "prepared")
     \/ FallsBack(c) /\ Goto(c, "select", "localsend")
     \/ ~FallsBack(c) /\ Answer(c, "select", "transport_unavailable")
  /\ UNCHANGED <<memo, phone, desk>>

Interrupted(c) == c \in desk.interrupted

\* The sizes are read, the dry run answers, the destination is made.
SendPrepared(c) ==
  /\ \/ Answer(c, "prepared", "operation_failed")
     \/ req[c].dry /\ Answer(c, "prepared", "success")
     \/ ~req[c].dry /\ Interrupted(c) /\ Answer(c, "prepared", "cancelled")
     \/ ~req[c].dry /\ ~Interrupted(c) /\ Goto(c, "prepared", "push")
  /\ UNCHANGED <<memo, phone, desk>>

PushFailed_Unavailable(c) == "transport_unavailable"  \* mutant: a phone lost on the way is one that is not there
PushFailed_Fails(c) == "operation_failed"  \* mutant: an interrupted push is an error
PushFailed(c) == IF Interrupted(c) THEN "cancelled" ELSE "operation_failed"

\* The token is looked at before each item, not after the last.
SendBegins(c) ==
  /\ \/ phone.sent[c] = Items /\ Answer(c, "push", "success")
     \/ phone.sent[c] < Items /\ Interrupted(c) /\ Answer(c, "push", "cancelled")
     \/ phone.sent[c] < Items /\ ~Interrupted(c) /\ Goto(c, "push", "pushing")
  /\ UNCHANGED <<memo, phone, desk>>

SendPush(c) ==
  /\ \/ Goto(c, "pushing", "push") /\ phone' = [phone EXCEPT !.sent[c] = @ + 1]
     \/ Answer(c, "pushing", PushFailed(c)) /\ UNCHANGED phone
  /\ UNCHANGED <<memo, desk>>

\* _localsend_transfer: the whole batch goes to one process, which may have sent some
\* of it when it fails; a fallback that fails, LocalSend missing or not, is no
\* transport at all.
LocalFailed(c) == IF req[c].transport = "auto" THEN "transport_unavailable" ELSE "operation_failed"
SendLocal(c) ==
  /\ \/ Answer(c, "localsend", "success") /\ phone' = [phone EXCEPT !.sent[c] = IF req[c].dry THEN @ ELSE Items]
     \/ req[c].transport = "localsend" /\ Answer(c, "localsend", "dependency_missing") /\ UNCHANGED phone
     \/ Answer(c, "localsend", LocalFailed(c)) /\ UNCHANGED phone
     \/ /\ ~req[c].dry /\ Answer(c, "localsend", LocalFailed(c))
        /\ \E n \in 1 .. Items : phone' = [phone EXCEPT !.sent[c] = n]
  /\ UNCHANGED <<memo, desk>>

TransferStep(c) ==
  /\ req[c].op = "send"
  /\ \/ SendStart(c) \/ SendSelect(c) \/ SendPrepared(c) \/ SendBegins(c) \/ SendPush(c) \/ SendLocal(c)

UserInterrupts == \E c \in Commands :
  /\ req[c].op = "send" /\ at[c] \notin {"start", "end"} /\ c \notin desk.interrupted
  /\ desk' = [desk EXCEPT !.interrupted = @ \union {c}]
  /\ UNCHANGED <<req, at, reply, memo, phone>>
=============================================================================
