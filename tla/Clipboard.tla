----------------------------- MODULE Clipboard -----------------------------
(***************************************************************************)
(* use_clipboard and sync_clipboards of src/linkplane/clipboard.py.  Each  *)
(* side holds a text, a number; the users copy on either side meanwhile,   *)
(* each time a text nobody has copied yet.  memo[c] of a sync is what it   *)
(* remembers of the last pass and has read in this one; read notes the     *)
(* sides that had been copied into between the two.                        *)
(***************************************************************************)
EXTENDS Commands

ClipboardRequests == [op : {"clipboard"}, action : {"get", "set", "pull", "push", "sync"},
                      prefer : {"phone", "desktop"}, foreground : BOOLEAN, serial : BOOLEAN, dry : BOOLEAN]

Sides == {"phone", "desktop"}
Other(side) == CHOOSE s \in Sides : s # side
Clip == [side \in Sides |-> IF side = "phone" THEN phone.clip ELSE desk.clip]
Copied(side) == desk' = [desk EXCEPT !.copied = @ \union {side}]

\* A text is put on a side, by a command (c) or by the user.
PutOn(side, text) ==
  \/ /\ side = "phone"
     /\ phone' = [phone EXCEPT !.clip = text] /\ Copied(side)
  \/ /\ side = "desktop"
     /\ desk' = [desk EXCEPT !.clip = text, !.copied = @ \union {side}] /\ UNCHANGED phone

NeedsBackend(c) == req[c].action \in {"pull", "push", "sync"}

\* The request, the commands and the dry run; then Termux is brought to the front,
\* then a clipboard tool of the computer is found.
ClipStart(c) ==
  /\ \/ \E code \in {"invalid_request", "transport_unavailable"} : Answer(c, "start", code)
     \/ req[c].dry /\ Answer(c, "start", "success")
     \/ ~req[c].dry /\ Goto(c, "start", "foreground")
  /\ UNCHANGED <<memo, phone, desk>>

ClipForeground(c) ==
  /\ \/ ~req[c].foreground /\ Goto(c, "foreground", "backend")
     \/ req[c].foreground /\ ~req[c].serial /\ Answer(c, "foreground", "invalid_request")
     \/ /\ req[c].foreground /\ req[c].serial
        /\ Goto(c, "foreground", "backend") \/ Answer(c, "foreground", "operation_failed")
  /\ UNCHANGED <<memo, phone, desk>>

ClipBackend(c) ==
  /\ \/ Goto(c, "backend", req[c].action)
     \/ NeedsBackend(c) /\ Answer(c, "backend", "dependency_missing")
  /\ UNCHANGED <<memo, phone, desk>>

\* The side a single transfer reads and the side it writes.
From(c) == IF req[c].action \in {"get", "pull"} THEN "phone" ELSE "desktop"

ClipRead(c) ==
  /\ req[c].action \in {"get", "pull", "push"}
  /\ \/ /\ Goto(c, req[c].action, IF req[c].action = "get" THEN "done" ELSE "write")
        /\ memo' = [memo EXCEPT ![c] = <<Clip[From(c)]>>]
     \/ Answer(c, req[c].action, "operation_failed") /\ UNCHANGED memo
  /\ UNCHANGED <<phone, desk>>

\* set_phone_clipboard writes, then reads until it reads what it wrote; an error does
\* not say whether it was written.
ClipWrite(c) ==
  /\ \/ at[c] = "write" /\ PutOn(Other(From(c)), Head(memo[c]))
     \/ at[c] = "set" /\ PutOn("phone", 1)
     \/ at[c] \in {"write", "set"} /\ UNCHANGED <<phone, desk>>
  /\ \/ Answer(c, at[c], "operation_failed")
     \/ Goto(c, at[c], "done") /\ <<phone, desk>>' # <<phone, desk>>
  /\ UNCHANGED memo

ClipDone(c) == Answer(c, "done", "success") /\ UNCHANGED <<memo, phone, desk>>

(***************************************************************************)
(* sync_clipboards                                                         *)
(***************************************************************************)
\* The side is read: what was copied into it before is known now.
Reads(side) == desk' = [desk EXCEPT !.copied = @ \ {side}]

SyncOpens(c) ==
  /\ \/ /\ Goto(c, "sync", "opened") /\ Reads("phone")
        /\ memo' = [memo EXCEPT ![c] = <<[was |-> Clip, now |-> Clip, read |-> {}]>>]
     \/ Answer(c, "sync", "operation_failed") /\ UNCHANGED <<memo, desk>>
  /\ UNCHANGED phone

SyncOpened(c) ==
  /\ \/ /\ Goto(c, "opened", "poll") /\ Reads("desktop")
        /\ memo' = [memo EXCEPT ![c][1].was["desktop"] = Clip["desktop"]]
     \/ Answer(c, "opened", "operation_failed") /\ UNCHANGED <<memo, desk>>
  /\ UNCHANGED phone

\* A stop is the normal end; otherwise the phone is read, then the desktop.
SyncPolls(c) ==
  /\ \/ Answer(c, "poll", "success") /\ UNCHANGED <<memo, desk>>
     \/ Answer(c, "poll", "operation_failed") /\ UNCHANGED <<memo, desk>>
     \/ /\ Goto(c, "poll", "polled") /\ Reads("phone")
        /\ memo' = [memo EXCEPT ![c][1].now = Clip, ![c][1].read = desk.copied \intersect {"phone"}]
  /\ UNCHANGED phone

SyncPolled(c) ==
  /\ \/ /\ Goto(c, "polled", "carry") /\ Reads("desktop")
        /\ memo' = [memo EXCEPT ![c][1].now["desktop"] = Clip["desktop"],
                                ![c][1].read = @ \union (desk.copied \intersect {"desktop"})]
     \/ Answer(c, "polled", "operation_failed") /\ UNCHANGED <<memo, desk>>
  /\ UNCHANGED phone

Changed(m) == {side \in Sides : m.now[side] # m.was[side]}

\* The sides whose text is carried over: the preferred one of two that differ.
Sources(m, prefer) ==
  IF Changed(m) = Sides THEN IF m.now["phone"] # m.now["desktop"] THEN {prefer} ELSE {}
  ELSE Changed(m)

\* What is remembered of a pass.
Remembered_AsRead(m, from) == m.now  \* mutant: the text carried over is not noted on the other side
Remembered(m, from) == [side \in Sides |-> m.now[from]]

\* Its own write is no copy: the sync knows of it.
Carry(m, from) ==
  \/ from = "phone" /\ desk' = [desk EXCEPT !.clip = m.now[from]] /\ UNCHANGED phone
  \/ from = "desktop" /\ phone' = [phone EXCEPT !.clip = m.now[from]] /\ UNCHANGED desk

SyncCarries(c) ==
  /\ at[c] = "carry"
  /\ LET m == Head(memo[c])
         from == Sources(m, req[c].prefer)
     IN \/ /\ from = {} /\ Goto(c, "carry", "poll")
           /\ memo' = [memo EXCEPT ![c][1].was = m.now] /\ UNCHANGED <<phone, desk>>
        \/ \E side \in from :
             \/ /\ Carry(m, side) /\ Goto(c, "carry", "poll")
                /\ memo' = [memo EXCEPT ![c][1].was = Remembered(m, side)]
             \/ /\ Carry(m, side) \/ UNCHANGED <<phone, desk>>
                /\ Answer(c, "carry", "operation_failed") /\ UNCHANGED memo

ClipboardStep(c) ==
  /\ req[c].op = "clipboard"
  /\ \/ ClipStart(c) \/ ClipForeground(c) \/ ClipBackend(c) \/ ClipRead(c) \/ ClipWrite(c) \/ ClipDone(c)
     \/ SyncOpens(c) \/ SyncOpened(c) \/ SyncPolls(c) \/ SyncPolled(c) \/ SyncCarries(c)

\* Bound: desk.copies is how many more texts the users copy, each a new one.
UserCopies == \E side \in Sides :
  /\ desk.copies > 0
  /\ \/ /\ side = "phone" /\ phone' = [phone EXCEPT !.clip = desk.copies + 1]
        /\ desk' = [desk EXCEPT !.copies = @ - 1, !.copied = @ \union {side}]
     \/ /\ side = "desktop" /\ UNCHANGED phone
        /\ desk' = [desk EXCEPT !.clip = desk.copies + 1, !.copies = @ - 1, !.copied = @ \union {side}]
  /\ UNCHANGED <<req, at, reply, memo>>
=============================================================================
