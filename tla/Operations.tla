----------------------------- MODULE Operations -----------------------------
(***************************************************************************)
(* The commands of Find, Capture, Notify, Sessions, Webcam, Clipboard and  *)
(* Transfer over one phone and one computer.                               *)
(***************************************************************************)
EXTENDS Find, Capture, Notify, Webcam, Clipboard, Transfer

CONSTANT Quiet  \* the level the ringer is at before anything runs

Requests ==
  FindRequests \union CaptureRequests \union NotifyRequests \union SessionRequests
    \union WebcamRequests \union ClipboardRequests \union SendRequests

\* A request has some number of items; a command is no state of webcam.json; what the
\* commands are asked is what their programs take.
ASSUME OperationsAssumption ==
  /\ Items \in Nat
  /\ "malformed" \notin Commands
  /\ \A w \in Worlds : \A c \in Commands : w.plan[c] \in Requests

Init ==
  /\ at = [c \in Commands |-> "start"]
  /\ reply = [c \in Commands |-> Unset]
  /\ memo = [c \in Commands |-> <<>>]
  /\ phone = [ring |-> Quiet, adrift |-> FALSE, posts |-> [c \in Commands |-> 0],
              photos |-> {}, unremoved |-> {},
              clip |-> 0, sent |-> [c \in Commands |-> 0]]
  /\ \E w \in Worlds :
       /\ req = w.plan
       /\ desk = [host |-> w.host, ran |-> {}, out |-> w.out, part |-> "none", crossed |-> FALSE,
                  cams |-> {}, state |-> w.state, raced |-> FALSE, unsaved |-> {},
                  clip |-> 0, copied |-> {}, copies |-> w.copies, interrupted |-> {}]

Next ==
  \/ \E c \in Commands :
       FindStep(c) \/ CaptureStep(c) \/ NotifyStep(c) \/ SessionStep(c) \/ WebcamStep(c)
                            \/ ClipboardStep(c) \/ TransferStep(c)
  \/ UserSaves \/ UserRemoves \/ CameraEnds \/ UserCopies \/ UserInterrupts

Spec == Init /\ [][Next]_vars

(***************************************************************************)
(* Properties                                                              *)
(***************************************************************************)
\* find is between raising the ringer and putting it back.
Ringing(c) == req[c].op = "find" /\ at[c] \in {"vibrate", "torch", "torching", "restore"}

\* "Never leave the ringer raised, even if the torch step failed" (find.py): once
\* no find is ringing the phone is at the level it had, whatever failed in between,
\* unless the command that raised or lowered it was not what it reported, or two
\* finds overlapped from reading the volume on.
RingerRestored ==
  ~phone.adrift /\ (\A c \in Commands : ~Ringing(c)) => phone.ring = Quiet

\* What command c has done, as far as a second call would do it again.
Done(c) ==
  phone.posts[c] > 0 \/ phone.sent[c] > 0 \/ c \in phone.photos \/ c \in desk.cams \/ c \in desk.ran

\* It handed over to the second of two ways, of which nothing is known.
SecondWay(c) ==
  \/ req[c].op = "notify" /\ MayFallBack(c)
  \/ req[c].op = "send" /\ FallsBack(c)

\* JobRunner calls a service again that answered transport_unavailable (RETRYABLE,
\* jobs.py), and the API tells its clients to: that answer comes before anything was
\* posted, sent, taken, started or installed, so that trying again repeats nothing.
\* Only a second way that failed may have been at work before it.
RetryRepeatsNothing ==
  \A c \in Commands : reply[c] = "transport_unavailable" => ~Done(c) \/ SecondWay(c)

\* What a capture moves onto its destination is its own photo, onto a free name or
\* with --force, unless another capture of that name, or the user, came between its
\* writing the file and its moving it (save_photo).
PublishedFaithfully == [][\A c \in Commands :
  at[c] = "publish" /\ at'[c] # at[c] /\ desk'.out # desk.out =>
    \/ desk'.crossed
    \/ desk'.out = c /\ ~Taken(c)]_vars

\* A capture that is over has left no photo on the phone that a removal could
\* remove, and no file beside the destination once all are over, however it ended
\* (the finally clauses of capture_camera_photo and save_photo).
NothingLeftBehind ==
  /\ \A c \in Commands : at[c] = "end" /\ c \in phone.photos => c \in phone.unremoved
  /\ (\A c \in Commands : at[c] \in {"start", "end"}) => desk.part = "none"

\* One request posts at most one notification, over whichever of the two ways, and
\* a success that was no dry run has posted it (notify_phone, locate_phone).
NotifiedOnce == \A c \in Commands :
  /\ phone.posts[c] <= 1
  /\ req[c].op = "notify" /\ reply[c] = "success" /\ ~req[c].dry => phone.posts[c] = 1

\* The process webcam.json names is the one that runs, so that stop can end it,
\* unless two webcam commands overlapped or a save failed.
SinkIsTracked == \A p \in desk.cams :
  desk.state = p \/ at[p] = "save" \/ desk.raced \/ p \in desk.unsaved

\* sync_clipboards puts on one side only a text that was copied on the other since
\* its last pass: it never takes its own text for a new one and carries it back
\* over a copy that came meanwhile.
NoEcho == [][\A c \in Commands :
  req[c].op = "clipboard" /\ at[c] = "carry" /\ at'[c] # "carry" =>
    {side \in Sides : Clip[side] # Clip'[side]} \subseteq {Other(side) : side \in Head(memo[c]).read}]_vars

\* An item is still to be sent; a request that came with none may be cancelled too.
BeforeLast(c) == phone.sent[c] < Items \/ Items = 0

\* A send says how far it got: success is every item, sent one way; cancelled is an
\* interruption before the last; and no interruption of pushes after the first item is
\* reported as a failed transfer ("a failed push right after a cancel request is the
\* cancellation", transfer.py).  A send to a named phone or folder never goes to
\* whoever answers LocalSend.
SendTells == \A c \in Commands : req[c].op = "send" =>
  /\ reply[c] = "success" /\ ~req[c].dry => phone.sent[c] = Items
  /\ reply[c] = "cancelled" => Interrupted(c) /\ BeforeLast(c)
  /\ reply[c] = "operation_failed" /\ phone.sent[c] > 0 => ~Interrupted(c) \/ req[c].transport = "localsend"
  /\ at[c] = "localsend" => ForLocalSend(c)
=============================================================================
