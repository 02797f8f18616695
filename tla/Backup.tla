------------------------------- MODULE Backup -------------------------------
(***************************************************************************)
(* src/linkplane/backup.py: runs of `linkplane backup` that mirror the     *)
(* files of a phone into one folder, from a terminal and from a rule at    *)
(* once, with the phone's owner editing files there and the folder's owner *)
(* editing files here, with cancellation, failures and crashes.            *)
(*                                                                         *)
(* A phone file is the number of its version: a new version has a new      *)
(* modification time and new bytes, so the number stands for both.  The    *)
(* folder holds for each name the bytes found there (a version or one of   *)
(* the constants below), a manifest, and two temporaries that all runs     *)
(* share: `part` beside each file and `tmp` beside the manifest.  A text   *)
(* of a few lines is written at once; its rename is a step of its own.     *)
(***************************************************************************)
EXTENDS Integers, FiniteSets, FiniteSetsExt, Sequences

CONSTANTS
  Files,        \* the names on the phone, numbered in the order they are sorted
  Runs,         \* processes that may run a backup
  MaxVersion,   \* bound: the highest version the phone's owner makes of a file
  Worlds        \* bounds that belong together, a set of records: the names on the phone
                \* at first, whether runs overlap, and how many times a backup is started,
                \* the phone's owner edits and the folder's owner puts a file there

ASSUME BackupAssumption == Files \subseteq Nat

VARIABLES
  phone,     \* phone[f]: the version of f, Absent if there is none
  disk,      \* disk[f]: what the folder holds under f
  part,      \* part[f]: what .f.linkplane-part holds
  manifest,  \* the saved manifest: [there, recs], recs[f] = <<seen, sum>> or <<>>
  tmp,       \* the manifest's temporary, as a manifest
  run,       \* run[p]: the state of process p
  left,      \* what is left of the bounds of this world
  hurt,      \* a run has crashed, or two have overlapped
  late       \* late[p]: the names another hand has changed since p made its plan

vars == <<phone, disk, part, manifest, tmp, run, left, hurt, late>>

Absent == 0
Versions == 1..MaxVersion
Mine == -1  \* bytes the folder's owner put there, that no version has
Torn == -2  \* the bytes of a pull that stopped half way
Link == -3  \* a symbolic link to no regular file; Link - v is one to a file with the bytes of v

new_manifest == [there |-> FALSE, recs |-> [f \in Files |-> <<>>]]
Idle == [at |-> "idle", dry |-> FALSE, list |-> [f \in Files |-> Absent],
         recs |-> new_manifest.recs, pend |-> {}, untr |-> {}, kept |-> {}, sum |-> Absent]

Init ==
  /\ left \in Worlds
  /\ phone = [f \in Files |-> IF f \in left.names THEN 1 ELSE Absent]
  /\ \E owned \in SUBSET Files, what \in {Mine, Link, 1} :
       disk = [f \in Files |-> IF f \in owned THEN what ELSE Absent]
  /\ part = [f \in Files |-> Absent]
  /\ manifest = new_manifest /\ tmp = new_manifest
  /\ run = [p \in Runs |-> Idle]
  /\ hurt = FALSE
  /\ late = [p \in Runs |-> {}]

Active(p) == run[p].at # "idle"

\* Path.is_symlink; and what is read under a name: links are followed.
IsLink(f) == disk[f] <= Link
Held(f) == IF IsLink(f) THEN Link - disk[f] ELSE disk[f]

\* The process goes on, changed as m says; or it is over.
Set(p, m) == run' = [run EXCEPT ![p] = m]
Goto(p, to) == Set(p, [run[p] EXCEPT !.at = to])
Over(p) == Set(p, Idle)
Still == UNCHANGED <<phone, left>>
Folder == <<disk, part, manifest, tmp>>

\* Another hand changed f: the runs that have a plan do not know.
Meanwhile(f, p) ==
  late' = [q \in Runs |-> IF q # p /\ run[q].at \notin {"idle", "load", "plan"} THEN late[q] \union {f} ELSE late[q]]

(***************************************************************************)
(* Discovery and the plan                                                  *)
(***************************************************************************)
\* discover: the whole listing, by one call or file by file, or an error.
Discover(p) ==
  /\ ~Active(p) /\ left.starts > 0
  /\ left.together \/ \A q \in Runs : ~Active(q)
  /\ left' = [left EXCEPT !.starts = @ - 1]
  /\ \E dry \in BOOLEAN :
       \/ Set(p, [Idle EXCEPT !.at = "load", !.dry = dry, !.list = phone])
          /\ hurt' = (hurt \/ \E q \in Runs : Active(q))
       \/ Over(p) /\ UNCHANGED hurt
  /\ late' = [late EXCEPT ![p] = {}]
  /\ UNCHANGED <<phone, Folder>>

LoadManifest(p) ==
  /\ run[p].at = "load"
  /\ Set(p, [run[p] EXCEPT !.at = "plan", !.recs = manifest.recs])
  /\ UNCHANGED <<Folder, hurt, late>> /\ Still

Listed(p) == {f \in Files : run[p].list[f] # Absent}

is_unchanged_BySize(p, f) == run[p].recs[f] # <<>> /\ Held(f) # Absent /\ run[p].recs[f][1] = run[p].list[f]  \* mutant: the bytes are not read
is_unchanged(p, f) ==
  /\ run[p].recs[f] # <<>> /\ Held(f) # Absent
  /\ run[p].recs[f][1] = run[p].list[f]
  /\ run[p].recs[f][2] = Held(f)

Untracked_Never(p, f) == FALSE  \* mutant: a file that is there is pulled over
Untracked(p, f) == run[p].recs[f] = <<>> /\ disk[f] # Absent

\* Each listed file is skipped, untracked or pending; a dry run answers, and so
\* does a run without the space it needs.
Plan(p) ==
  /\ run[p].at = "plan"
  /\ LET changed == {f \in Listed(p) : ~is_unchanged(p, f)}
         others == {f \in changed : Untracked(p, f)}
     IN \/ run[p].dry /\ Over(p)
        \/ ~run[p].dry /\ changed \ others # {} /\ Over(p)
        \/ ~run[p].dry /\ Set(p, [run[p] EXCEPT !.at = "next", !.pend = changed \ others, !.untr = others])
  /\ UNCHANGED <<Folder, hurt, late>> /\ Still

(***************************************************************************)
(* The pending files, in order                                             *)
(***************************************************************************)
Current(p) == Min(IF run[p].pend # {} THEN run[p].pend ELSE run[p].untr)

Inside(p, f) == ~IsLink(f)

\* The check for cancellation before each file, and ensure_inside.
NextFile(p) ==
  /\ run[p].at = "next"
  /\ \/ Over(p)  \* cancelled
     \/ /\ run[p].pend # {}
        /\ \/ Inside(p, Current(p)) /\ Goto(p, "sum")
           \/ ~Inside(p, Current(p)) /\ Over(p)
     \/ run[p].pend = {} /\ Goto(p, "adopt")
  /\ UNCHANGED <<Folder, hurt, late>> /\ Still

\* remote_sha256: an error if the file is gone or the phone is.
RemoteSum(p) ==
  /\ run[p].at = "sum"
  /\ \/ phone[Current(p)] # Absent /\ Set(p, [run[p] EXCEPT !.at = "get", !.sum = phone[Current(p)]])
     \/ Over(p)
  /\ UNCHANGED <<Folder, hurt, late>> /\ Still

\* The part is filled over some time: from the first byte to the last it is torn.
PullBegins(p) ==
  /\ run[p].at = "get"
  /\ part' = [part EXCEPT ![Current(p)] = Torn]
  /\ Goto(p, "filling")
  /\ UNCHANGED <<disk, manifest, tmp, hurt, late>> /\ Still

PullEnds(p) ==
  /\ run[p].at = "filling"
  /\ \/ /\ phone[Current(p)] # Absent
        /\ part' = [part EXCEPT ![Current(p)] = phone[Current(p)]]
        /\ Goto(p, "verify")
     \/ Goto(p, "unlink") /\ UNCHANGED part
  /\ UNCHANGED <<disk, manifest, tmp, hurt, late>> /\ Still

Verified_Always(p) == TRUE  \* mutant: the bytes pulled are published as they are
Verified(p) == part[Current(p)] = run[p].sum

Verify(p) ==
  /\ run[p].at = "verify"
  /\ \/ Verified(p) /\ Goto(p, "publish")
     \/ ~Verified(p) /\ Goto(p, "unlink")
  /\ UNCHANGED <<Folder, hurt, late>> /\ Still

Publish(p) ==
  /\ run[p].at = "publish"
  /\ LET f == Current(p) IN
       \/ /\ part[f] # Absent
          /\ disk' = [disk EXCEPT ![f] = part[f]]
          /\ part' = [part EXCEPT ![f] = Absent]
          /\ Goto(p, "record") /\ Meanwhile(f, p)
       \/ Goto(p, "unlink") /\ UNCHANGED <<disk, part, late>>
  /\ UNCHANGED <<manifest, tmp, hurt>> /\ Still

Unlink_Leaves(p) == part  \* mutant: a failed pull leaves its part
Unlink(p) == [part EXCEPT ![Current(p)] = Absent]

PullFails(p) ==
  /\ run[p].at = "unlink"
  /\ part' = Unlink(p)
  /\ Over(p)
  /\ UNCHANGED <<disk, manifest, tmp, hurt, late>> /\ Still

\* The record keeps the listing's time and size with the checksum pulled.
Record(p) == [run[p].recs EXCEPT ![Current(p)] = <<run[p].list[Current(p)], run[p].sum>>]

\* save_manifest: written beside, then moved.  An error leaves the file published
\* and without a record, and so does a crash.
WriteManifest(p) ==
  /\ run[p].at \in {"record", "adopted", "first"}
  /\ LET recs == IF run[p].at = "first" THEN run[p].recs ELSE Record(p) IN
       \/ /\ tmp' = [there |-> TRUE, recs |-> recs]
          /\ Set(p, [run[p] EXCEPT !.at = IF @ = "record" THEN "save" ELSE IF @ = "adopted" THEN "keep" ELSE "close",
                                   !.recs = recs])
          /\ UNCHANGED hurt
       \/ tmp' = new_manifest /\ Over(p) /\ hurt' = TRUE
  /\ UNCHANGED <<disk, part, manifest, late>> /\ Still

\* What is left to do once a file has been recorded.
Done(p) ==
  CASE run[p].at = "save" -> [run[p] EXCEPT !.at = "next", !.pend = @ \ {Current(p)}]
    [] run[p].at = "keep" -> [run[p] EXCEPT !.at = "adopt", !.untr = @ \ {Current(p)}]
    [] OTHER -> Idle

MoveManifest(p) ==
  /\ run[p].at \in {"save", "keep", "close"}
  /\ \/ tmp.there /\ manifest' = tmp /\ tmp' = new_manifest /\ Set(p, Done(p)) /\ UNCHANGED hurt
     \/ ~tmp.there /\ Over(p) /\ UNCHANGED <<manifest, tmp, hurt>>  \* another run has moved it
  /\ UNCHANGED <<disk, part, late>> /\ Still

(***************************************************************************)
(* The untracked files, and the end                                        *)
(***************************************************************************)
\* Adopted when it is a regular file with the phone's bytes, kept as it is otherwise.
Adopts(p, sum) == disk[Current(p)] = sum

Adopt(p) ==
  /\ run[p].at = "adopt" /\ run[p].untr # {}
  /\ LET f == Current(p)
         Keep == Set(p, [run[p] EXCEPT !.untr = @ \ {f}, !.kept = @ \union {f}])
     IN \/ Over(p)  \* cancelled, or the phone does not answer
        \/ (disk[f] = Absent \/ IsLink(f)) /\ Keep
        \/ /\ disk[f] # Absent /\ ~IsLink(f) /\ phone[f] # Absent
           /\ \/ Adopts(p, phone[f]) /\ Set(p, [run[p] EXCEPT !.at = "adopted", !.sum = phone[f]])
              \/ ~Adopts(p, phone[f]) /\ Keep
  /\ UNCHANGED <<Folder, hurt, late>> /\ Still

\* An empty backup leaves a manifest too.
Finish(p) ==
  /\ run[p].at = "adopt" /\ run[p].untr = {}
  /\ IF manifest.there THEN Over(p) ELSE Goto(p, "first")
  /\ UNCHANGED <<Folder, hurt, late>> /\ Still

(***************************************************************************)
(* Everybody else                                                          *)
(***************************************************************************)
Crash(p) ==
  /\ Active(p)
  /\ Over(p) /\ hurt' = TRUE
  /\ UNCHANGED <<Folder, late>> /\ Still

PhoneEdits(f) ==
  /\ left.edits > 0 /\ left' = [left EXCEPT !.edits = @ - 1]
  /\ phone[f] # Absent
  /\ \/ phone[f] < MaxVersion /\ phone' = [phone EXCEPT ![f] = @ + 1]
     \/ phone' = [phone EXCEPT ![f] = Absent]  \* deleted for good
  /\ UNCHANGED <<Folder, run, hurt, late>>

\* Other bytes, a link to none, or the file is moved elsewhere and a link left to it.
FolderEdits(f) ==
  /\ left.puts > 0 /\ left' = [left EXCEPT !.puts = @ - 1]
  /\ \E what \in {Mine, Link} \union {Link - v : v \in {disk[f]} \intersect Versions} : disk[f] # what /\ disk' = [disk EXCEPT ![f] = what]
  /\ late' = [q \in Runs |-> IF run[q].at \notin {"idle", "load", "plan"} THEN late[q] \union {f} ELSE late[q]]
  /\ UNCHANGED <<phone, part, manifest, tmp, run, hurt>>

Step(p) ==
  \/ Discover(p) \/ LoadManifest(p) \/ Plan(p) \/ NextFile(p) \/ RemoteSum(p) \/ PullBegins(p) \/ PullEnds(p)
  \/ Verify(p) \/ Publish(p) \/ PullFails(p) \/ WriteManifest(p) \/ MoveManifest(p) \/ Adopt(p) \/ Finish(p)

Next ==
  \/ \E p \in Runs : Step(p) \/ Crash(p)
  \/ \E f \in Files : PhoneEdits(f) \/ FolderEdits(f)

Spec == Init /\ [][Next]_vars

(***************************************************************************)
(* Properties                                                              *)
(***************************************************************************)
\* A file a run skips as unchanged holds, or links to, the bytes of the version that run
\* listed, or of a later one another run has pulled meanwhile, whatever crashed,
\* overlapped or was edited before (is_unchanged, against records whose time and
\* checksum were read at different moments).
SkippedIsCurrent == [][\A p \in Runs :
  run[p].at = "plan" /\ run'[p].at = "next" =>
    \A f \in Listed(p) \ (run'[p].pend \union run'[p].untr) : Held(f) >= run[p].list[f]]_vars

\* "Not written by Linkplane: never overwrite it" (_backup_selected): a run replaces
\* what it found under a name only if the manifest it loaded has the name, and never
\* a link, unless another hand put something there after it made its plan.
ForeignKept == [][\A p \in Runs, f \in Files :
  run[p].at = "publish" /\ run'[p].at = "record" /\ disk'[f] # disk[f] /\ disk[f] # Absent =>
    f \in late[p] \/ (run[p].recs[f] # <<>> /\ ~IsLink(f))]_vars

\* A run that gets to its end has, of each file it listed, the version it listed or
\* a later one, recorded so that the next run can skip it, but for those it reports
\* as preserved: unless a crash, an overlap or another hand came in between.
UpToDate(p, f) == Held(f) >= run[p].list[f] /\ manifest.recs[f] = <<run[p].list[f], Held(f)>>
CompleteAtEnd == \A p \in Runs :
  run[p].at = "adopt" /\ run[p].untr = {} /\ ~hurt =>
    \A f \in Listed(p) \ (run[p].kept \union late[p]) : UpToDate(p, f)

\* "Every completed file is already recorded in the manifest, so a cancelled backup
\* resumes exactly where it stopped" (_backup_selected): when no run is active, no
\* part is left and what a run put in the folder has a record, however the runs
\* ended, unless one crashed, failed to save, or two overlapped.
NothingOrphaned ==
  ~hurt /\ (\A p \in Runs : ~Active(p)) =>
    \A f \in Files : part[f] = Absent /\ (disk[f] > 1 => manifest.recs[f] # <<>>)
=============================================================================
