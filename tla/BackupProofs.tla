--------------------------- MODULE BackupProofs ---------------------------
(***************************************************************************)
(* Proofs about Backup, for any number of files, runs, versions and edits, *)
(* and any choice of the worlds.                                           *)
(*                                                                         *)
(* The arguments, each an invariant over the one before:                   *)
(*  - a run decides in Plan which names it may pull, and until it pulls a  *)
(*    name, either what lies there is what it decided about, or another    *)
(*    hand has been there since, which `late` remembers (IInv);            *)
(*  - a record pairs a listing with a checksum that was read after it      *)
(*    (Recorded);                                                          *)
(*  - while runs follow one another, what the active one knows of the      *)
(*    manifest is true (Sequential).                                       *)
(***************************************************************************)
EXTENDS Backup, WellFoundedInduction, TLAPS

Entry == {<<>>} \union (Int \X Int)
Manifests == [there : BOOLEAN, recs : [Files -> Entry]]
Places == {"idle", "load", "plan", "next", "sum", "get", "filling", "verify", "publish", "unlink",
           "record", "save", "adopt", "adopted", "keep", "first", "close"}
Process ==
  [at : Places, dry : BOOLEAN, list : [Files -> Nat], recs : [Files -> Entry],
   pend : SUBSET Files, untr : SUBSET Files, kept : SUBSET Files, sum : Nat]

TypeInv ==
  /\ phone \in [Files -> Nat] /\ disk \in [Files -> Int] /\ part \in [Files -> Int]
  /\ manifest \in Manifests /\ tmp \in Manifests
  /\ run \in [Runs -> Process]
  /\ late \in [Runs -> SUBSET Files]

Pulling == {"sum", "get", "filling", "verify", "publish", "unlink"}
Saving == {"record", "save"}

\* What a run found under f it may replace, or it is not what the run found.
MayReplace(p, f) == f \in late[p] \/ disk[f] = Absent \/ run[p].recs[f] # <<>>

\* The names still to be pulled may be replaced, and the one that is being pulled
\* was no link when ensure_inside looked.
PlanHolds(p) ==
  /\ run[p].at \in {"next"} \union Pulling => \A f \in run[p].pend : MayReplace(p, f)
  /\ run[p].at \in Saving => \A f \in run[p].pend \ {Current(p)} : MayReplace(p, f)
  /\ run[p].at \in Pulling \union Saving => run[p].pend # {}
  /\ run[p].at \in Pulling => Current(p) \in late[p] \/ ~IsLink(Current(p))

IInv == TypeInv /\ \A p \in Runs : PlanHolds(p)

\* The names are numbered, so a set of them that is not empty has a first one.
LEMMA FirstName == ASSUME NEW S \in SUBSET Files, S # {} PROVE Min(S) \in S
<1> DEFINE R == {ss \in Nat \X Nat : ss[1] < ss[2]}
<1>1. S \subseteq Nat
  BY BackupAssumption
<1>2. IsWellFoundedOn(R, Nat)
  BY NatLessThanWellFounded DEF OpToRel
<1> HIDE DEF R
<1>3. PICK x \in S : \A y \in S : <<y, x>> \notin R
  BY <1>1, <1>2, WFMin
<1>4. ASSUME NEW y \in S PROVE x <= y
  <2>1. x \in Nat /\ y \in Nat
    BY <1>1
  <2>2. y < x => <<y, x>> \in R
    BY <2>1 DEF R
  <2> QED
    BY <1>3, <2>1, <2>2
<1> QED
  BY <1>4 DEF Min

LEMMA CurrentPending ==
  ASSUME TypeInv, NEW p \in Runs, run[p].pend # {}
  PROVE  Current(p) \in run[p].pend /\ Current(p) \in Files
<1>1. run[p].pend \in SUBSET Files
  BY DEF TypeInv, Process
<1> QED
  BY <1>1, FirstName DEF Current

LEMMA IdleProcess == Idle \in Process /\ new_manifest \in Manifests
<1>1. [f \in Files |-> <<>>] \in [Files -> Entry]
  BY DEF Entry
<1>2. [f \in Files |-> Absent] \in [Files -> Nat]
  BY DEF Absent
<1>3. new_manifest \in Manifests
  BY <1>1 DEF new_manifest, Manifests
<1>4. new_manifest.recs \in [Files -> Entry] /\ Absent \in Nat
  BY <1>1 DEF new_manifest, Absent
<1>5. Idle \in Process
  BY <1>2, <1>4 DEF Idle, Process, Places
<1> QED
  BY <1>3, <1>5

LEMMA InitIInv == Init => IInv
<1> SUFFICES ASSUME Init PROVE IInv
  OBVIOUS
<1>1. TypeInv
  BY IdleProcess DEF Init, TypeInv, Absent, Mine, Link
<1>2. ASSUME NEW p \in Runs PROVE PlanHolds(p)
  BY DEF Init, Idle, PlanHolds, Pulling, Saving
<1> QED
  BY <1>1, <1>2 DEF IInv

(***************************************************************************)
(* One lemma per kind of step                                              *)
(***************************************************************************)
\* A step that changes nothing of p and adds to late[p] what it changes in the folder.
LEMMA OthersHold ==
  ASSUME IInv, NEW p \in Runs, run'[p] = run[p], late[p] \subseteq late'[p],
         run[p].at \notin {"idle", "load", "plan"} =>
           \A f \in Files : disk'[f] # disk[f] => f \in late'[p]
  PROVE  PlanHolds(p)'
<1>1. Current(p)' = Current(p)
  BY DEF Current
<1>2. CASE run[p].at \notin {"next"} \union Pulling \union Saving
  BY <1>2 DEF PlanHolds, Pulling, Saving
<1>3. CASE run[p].at \in {"next"} \union Pulling \union Saving
  <2>1. \A f \in Files : disk'[f] # disk[f] => f \in late'[p]
    BY <1>3 DEF Pulling, Saving
  <2>2. run[p].pend \subseteq Files
    BY DEF IInv, TypeInv, Process
  <2>3. \A f \in Files : MayReplace(p, f) => MayReplace(p, f)'
    BY <2>1 DEF MayReplace
  <2>4. run[p].at \in Pulling => Current(p) \in Files
    BY CurrentPending DEF IInv, PlanHolds
  <2>5. PlanHolds(p)
    BY DEF IInv
  <2>6. run[p].at \in Pulling => Current(p) \in late'[p] \/ ~(disk'[Current(p)] <= Link)
    BY <2>1, <2>4, <2>5 DEF PlanHolds, IsLink
  <2> QED
    BY <1>1, <2>2, <2>3, <2>5, <2>6 DEF PlanHolds, IsLink
<1> QED
  BY <1>2, <1>3

\* A process that goes on is a process, and the others are what they were.
LEMMA SetProcess ==
  ASSUME TypeInv, NEW p \in Runs, NEW m \in Process, Set(p, m)
  PROVE  /\ run' \in [Runs -> Process]
         /\ run'[p] = m
         /\ \A q \in Runs : q # p => run'[q] = run[q]
BY DEF TypeInv, Set

LEMMA GotoProcess ==
  ASSUME TypeInv, NEW p \in Runs, NEW to \in Places, Goto(p, to)
  PROVE  /\ run' \in [Runs -> Process]
         /\ run'[p] = [run[p] EXCEPT !.at = to]
         /\ \A q \in Runs : q # p => run'[q] = run[q]
<1>1. [run[p] EXCEPT !.at = to] \in Process
  BY DEF TypeInv, Process
<1> QED
  BY <1>1, SetProcess DEF Goto

LEMMA OverProcess ==
  ASSUME TypeInv, NEW p \in Runs, Over(p)
  PROVE  /\ run' \in [Runs -> Process]
         /\ run'[p].at = "idle"
         /\ \A q \in Runs : q # p => run'[q] = run[q]
<1>1. Idle \in Process
  BY IdleProcess
<1> QED
  BY <1>1, SetProcess DEF Over, Idle

\* A process that has no plan, or no longer one, has nothing to hold to.
LEMMA NoPlan ==
  ASSUME NEW p \in Runs, run'[p].at \notin {"next"} \union Pulling \union Saving
  PROVE  PlanHolds(p)'
BY DEF PlanHolds, Pulling, Saving

\* A step of p that leaves the folder and what others know alone.
LEMMA QuietStep ==
  ASSUME IInv, NEW p \in Runs, run' \in [Runs -> Process], \A q \in Runs : q # p => run'[q] = run[q],
         phone' \in [Files -> Nat], part' \in [Files -> Int], manifest' \in Manifests, tmp' \in Manifests,
         UNCHANGED <<disk, late>>, PlanHolds(p)'
  PROVE  IInv'
<1>1. TypeInv'
  BY DEF IInv, TypeInv
<1>2. ASSUME NEW q \in Runs, q # p PROVE PlanHolds(q)'
  BY <1>2, OthersHold DEF IInv
<1> QED
  BY <1>1, <1>2 DEF IInv

\* A step of p that ends it, and touches no file under its own name.
LEMMA OverStep ==
  ASSUME IInv, NEW p \in Runs, Over(p),
         phone' \in [Files -> Nat], part' \in [Files -> Int], manifest' \in Manifests, tmp' \in Manifests,
         UNCHANGED <<disk, late>>
  PROVE  IInv'
<1>1. run' \in [Runs -> Process] /\ run'[p].at = "idle" /\ \A q \in Runs : q # p => run'[q] = run[q]
  BY OverProcess DEF IInv
<1>2. PlanHolds(p)'
  BY <1>1, NoPlan DEF Pulling, Saving
<1> QED
  BY <1>1, <1>2, QuietStep

\* A step of p from one place to the next that keeps its plan.
LEMMA GotoStep ==
  ASSUME IInv, NEW p \in Runs, NEW to \in Places, Goto(p, to),
         \/ to \in Pulling /\ run[p].at \in Pulling
         \/ to \notin {"next"} \union Pulling \union Saving
         \/ /\ to = "sum" /\ run[p].at = "next"
            /\ run[p].pend # {} /\ Inside(p, Current(p)),
         phone' \in [Files -> Nat], part' \in [Files -> Int], manifest' \in Manifests, tmp' \in Manifests,
         UNCHANGED <<disk, late>>
  PROVE  IInv'
<1>1. /\ run' \in [Runs -> Process] /\ run'[p] = [run[p] EXCEPT !.at = to]
      /\ \A q \in Runs : q # p => run'[q] = run[q]
  BY GotoProcess DEF IInv
<1>2. run'[p].at = to /\ run'[p].pend = run[p].pend /\ run'[p].untr = run[p].untr /\ run'[p].recs = run[p].recs
  BY <1>1 DEF IInv, TypeInv, Process
<1>3. Current(p)' = Current(p)
  BY <1>2 DEF Current
<1>4. PlanHolds(p)'
  BY <1>2, <1>3 DEF IInv, PlanHolds, MayReplace, Inside, IsLink, Pulling, Saving
<1> QED
  BY <1>1, <1>4, QuietStep

\* A process keeps its type when it moves on with other records, sets of names or checksum.
LEMMA MovesRecs ==
  ASSUME NEW m \in Process, NEW to \in Places, NEW recs \in [Files -> Entry]
  PROVE  [m EXCEPT !.at = to, !.recs = recs] \in Process
<1> DEFINE E == Entry
           P == Places
<1>1. m \in [at : P, dry : BOOLEAN, list : [Files -> Nat], recs : [Files -> E],
             pend : SUBSET Files, untr : SUBSET Files, kept : SUBSET Files, sum : Nat]
  BY DEF Process
<1>2. Process = [at : P, dry : BOOLEAN, list : [Files -> Nat], recs : [Files -> E],
                 pend : SUBSET Files, untr : SUBSET Files, kept : SUBSET Files, sum : Nat]
  BY DEF Process
<1>3. recs \in [Files -> E]
  OBVIOUS
<1>4. to \in P
  OBVIOUS
<1> HIDE DEF E, P
<1> QED
  BY <1>1, <1>2, <1>3, <1>4

LEMMA MovesPend ==
  ASSUME NEW m \in Process, NEW to \in Places, NEW pend \in SUBSET Files, NEW untr \in SUBSET Files
  PROVE  [m EXCEPT !.at = to, !.pend = pend, !.untr = untr] \in Process
<1> DEFINE E == Entry
           P == Places
<1>1. m \in [at : P, dry : BOOLEAN, list : [Files -> Nat], recs : [Files -> E],
             pend : SUBSET Files, untr : SUBSET Files, kept : SUBSET Files, sum : Nat]
  BY DEF Process
<1>2. Process = [at : P, dry : BOOLEAN, list : [Files -> Nat], recs : [Files -> E],
                 pend : SUBSET Files, untr : SUBSET Files, kept : SUBSET Files, sum : Nat]
  BY DEF Process
<1>4. to \in P
  OBVIOUS
<1> HIDE DEF E, P
<1> QED
  BY <1>1, <1>2, <1>4

LEMMA MovesSum ==
  ASSUME NEW m \in Process, NEW to \in Places, NEW sum \in Nat
  PROVE  [m EXCEPT !.at = to, !.sum = sum] \in Process
<1> DEFINE E == Entry
           P == Places
<1>1. m \in [at : P, dry : BOOLEAN, list : [Files -> Nat], recs : [Files -> E],
             pend : SUBSET Files, untr : SUBSET Files, kept : SUBSET Files, sum : Nat]
  BY DEF Process
<1>2. Process = [at : P, dry : BOOLEAN, list : [Files -> Nat], recs : [Files -> E],
                 pend : SUBSET Files, untr : SUBSET Files, kept : SUBSET Files, sum : Nat]
  BY DEF Process
<1>4. to \in P
  OBVIOUS
<1> HIDE DEF E, P
<1> QED
  BY <1>1, <1>2, <1>4

\* A step of p that rewrites its state, keeps its plan, and moves no file.
LEMMA SetStep ==
  ASSUME IInv, NEW p \in Runs, NEW m \in Process, Set(p, m),
         m.at \notin {"next"} \union Pulling \union Saving,
         phone' \in [Files -> Nat], part' \in [Files -> Int], manifest' \in Manifests, tmp' \in Manifests,
         UNCHANGED <<disk, late>>
  PROVE  IInv'
<1>1. run' \in [Runs -> Process] /\ run'[p] = m /\ \A q \in Runs : q # p => run'[q] = run[q]
  BY SetProcess DEF IInv
<1>2. PlanHolds(p)'
  BY <1>1, NoPlan
<1> QED
  BY <1>1, <1>2, QuietStep

LEMMA DiscoverHolds == ASSUME IInv, NEW p \in Runs, Discover(p) PROVE IInv'
<1>1. PICK dry \in BOOLEAN : Set(p, [Idle EXCEPT !.at = "load", !.dry = dry, !.list = phone]) \/ Over(p)
  BY DEF Discover
<1>2. [Idle EXCEPT !.at = "load", !.dry = dry, !.list = phone] \in Process
  BY IdleProcess DEF IInv, TypeInv, Process, Places
<1>3. run' \in [Runs -> Process] /\ run'[p].at \in {"load", "idle"} /\ \A q \in Runs : q # p => run'[q] = run[q]
  <2>1. CASE Over(p)
    BY <2>1, OverProcess DEF IInv
  <2>2. CASE Set(p, [Idle EXCEPT !.at = "load", !.dry = dry, !.list = phone])
    <3>1. [Idle EXCEPT !.at = "load", !.dry = dry, !.list = phone].at = "load"
      BY DEF Idle
    <3> QED
      BY <2>2, <1>2, <3>1, SetProcess DEF IInv
  <2> QED
    BY <1>1, <2>1, <2>2
<1>4. TypeInv'
  BY <1>3 DEF IInv, TypeInv, Discover, Folder
<1>5. PlanHolds(p)'
  BY <1>3, NoPlan DEF Pulling, Saving
<1>6. ASSUME NEW q \in Runs, q # p PROVE PlanHolds(q)'
  <2>1. late[q] \subseteq late'[q] /\ disk' = disk
    BY <1>6 DEF Discover, Folder, IInv, TypeInv
  <2> QED
    BY <1>3, <1>6, <2>1, OthersHold
<1> QED
  BY <1>4, <1>5, <1>6 DEF IInv

LEMMA LoadHolds == ASSUME IInv, NEW p \in Runs, LoadManifest(p) PROVE IInv'
<1>1. [run[p] EXCEPT !.at = "plan", !.recs = manifest.recs] \in Process
  <2>1. run[p] \in Process /\ manifest.recs \in [Files -> Entry] /\ "plan" \in Places
    BY DEF IInv, TypeInv, Manifests, Places
  <2> QED
    BY <2>1, MovesRecs
<1>2. [run[p] EXCEPT !.at = "plan", !.recs = manifest.recs].at = "plan"
  BY DEF IInv, TypeInv, Process
<1>3. UNCHANGED <<phone, disk, part, manifest, tmp, late>>
  BY DEF LoadManifest, Folder, Still
<1> QED
  BY <1>1, <1>2, <1>3, SetStep DEF LoadManifest, IInv, TypeInv, Pulling, Saving

\* What a run means to pull has a record in the manifest it loaded, or is not there.
LEMMA PlanIsHeld == ASSUME IInv, NEW p \in Runs, Plan(p) PROVE IInv'
<1> DEFINE changed == {f \in Listed(p) : ~is_unchanged(p, f)}
           others == {f \in changed : Untracked(p, f)}
           m == [run[p] EXCEPT !.at = "next", !.pend = changed \ others, !.untr = others]
<1>1. UNCHANGED <<phone, disk, part, manifest, tmp, late>>
  BY DEF Plan, Folder, Still
<1>2. CASE Over(p)
  BY <1>1, <1>2, OverStep DEF IInv, TypeInv
<1>3. CASE Set(p, m)
  <2>1. changed \subseteq Files /\ others \subseteq Files
    BY DEF Listed
  <2>2. m \in Process
    <3>1. run[p] \in Process /\ "next" \in Places /\ changed \ others \in SUBSET Files /\ others \in SUBSET Files
      BY <2>1 DEF IInv, TypeInv, Places
    <3> HIDE DEF changed, others
    <3> QED
      BY <3>1, MovesPend
  <2>3. m.at = "next" /\ m.pend = changed \ others /\ m.recs = run[p].recs
    BY DEF IInv, TypeInv, Process
  <2>4. run' \in [Runs -> Process] /\ run'[p] = m /\ \A q \in Runs : q # p => run'[q] = run[q]
    BY <1>3, <2>2, SetProcess DEF IInv
  <2>5. \A f \in changed \ others : run[p].recs[f] # <<>> \/ disk[f] = Absent
    BY DEF Untracked
  <2>6. PlanHolds(p)'
    BY <1>1, <2>3, <2>4, <2>5 DEF PlanHolds, MayReplace, Pulling, Saving
  <2> QED
    BY <1>1, <2>4, <2>6, QuietStep DEF IInv, TypeInv
<1> QED
  BY <1>2, <1>3 DEF Plan

LEMMA NextFileHolds == ASSUME IInv, NEW p \in Runs, NextFile(p) PROVE IInv'
<1>1. UNCHANGED <<phone, disk, part, manifest, tmp, late>>
  BY DEF NextFile, Folder, Still
<1>2. CASE Over(p)
  BY <1>1, <1>2, OverStep DEF IInv, TypeInv
<1>3. CASE run[p].pend # {} /\ Inside(p, Current(p)) /\ Goto(p, "sum")
  BY <1>1, <1>3, GotoStep DEF IInv, TypeInv, NextFile, Places
<1>4. CASE run[p].pend = {} /\ Goto(p, "adopt")
  BY <1>1, <1>4, GotoStep DEF IInv, TypeInv, Places, Pulling, Saving
<1> QED
  BY <1>2, <1>3, <1>4 DEF NextFile

LEMMA RemoteSumHolds == ASSUME IInv, NEW p \in Runs, RemoteSum(p) PROVE IInv'
<1> DEFINE m == [run[p] EXCEPT !.at = "get", !.sum = phone[Current(p)]]
<1>1. UNCHANGED <<phone, disk, part, manifest, tmp, late>>
  BY DEF RemoteSum, Folder, Still
<1>2. CASE Over(p)
  BY <1>1, <1>2, OverStep DEF IInv, TypeInv
<1>3. CASE Set(p, m)
  <2>1. PlanHolds(p) /\ run[p].pend # {} /\ Current(p) \in Files
    BY CurrentPending DEF RemoteSum, IInv, PlanHolds, Pulling
  <2>2. m \in Process
    <3>1. run[p] \in Process /\ "get" \in Places /\ phone[Current(p)] \in Nat
      BY <2>1 DEF IInv, TypeInv, Places
    <3> QED
      BY <3>1, MovesSum
  <2>3. m.at = "get" /\ m.pend = run[p].pend /\ m.untr = run[p].untr /\ m.recs = run[p].recs
    BY DEF IInv, TypeInv, Process
  <2>4. run' \in [Runs -> Process] /\ run'[p] = m /\ \A q \in Runs : q # p => run'[q] = run[q]
    BY <1>3, <2>2, SetProcess DEF IInv
  <2>5. Current(p)' = Current(p)
    BY <2>3, <2>4 DEF Current
  <2>6. PlanHolds(p)'
    BY <1>1, <2>1, <2>3, <2>4, <2>5 DEF RemoteSum, PlanHolds, MayReplace, IsLink, Pulling, Saving
  <2> QED
    BY <1>1, <2>4, <2>6, QuietStep DEF IInv, TypeInv
<1> QED
  BY <1>2, <1>3 DEF RemoteSum

LEMMA PullHolds ==
  ASSUME IInv, NEW p \in Runs, PullBegins(p) \/ PullEnds(p) \/ Verify(p) \/ PullFails(p)
  PROVE  IInv'
<1>1. UNCHANGED <<phone, disk, manifest, tmp, late>>
  BY DEF PullBegins, PullEnds, Verify, PullFails, Folder, Still
<1>2. run[p].at \in Pulling /\ run[p].pend # {} /\ Current(p) \in Files
  BY CurrentPending DEF IInv, PlanHolds, PullBegins, PullEnds, Verify, PullFails, Pulling
<1>3. part' \in [Files -> Int]
  BY <1>2 DEF IInv, TypeInv, PullBegins, PullEnds, Verify, PullFails, Unlink, Torn, Absent, Folder
<1>4. \/ Over(p)
      \/ \E to \in Pulling : Goto(p, to)
  BY DEF PullBegins, PullEnds, Verify, PullFails, Pulling
<1>5. CASE Over(p)
  BY <1>1, <1>3, <1>5, OverStep DEF IInv, TypeInv
<1>6. ASSUME NEW to \in Pulling, Goto(p, to) PROVE IInv'
  <2>1. to \in Places
    BY DEF Pulling, Places
  <2> QED
    BY <1>1, <1>2, <1>3, <1>6, <2>1, GotoStep DEF IInv, TypeInv
<1> QED
  BY <1>4, <1>5, <1>6

\* The file that is published is the one the run was pulling: what it still means to
\* pull is elsewhere, and the other runs are told.
LEMMA PublishHolds == ASSUME IInv, NEW p \in Runs, Publish(p) PROVE IInv'
<1> DEFINE f == Current(p)
<1>1. PlanHolds(p) /\ run[p].pend # {} /\ f \in run[p].pend /\ f \in Files
  BY CurrentPending DEF Publish, IInv, PlanHolds, Pulling
<1>2. CASE Goto(p, "unlink") /\ UNCHANGED <<disk, part, late>>
  <2>1. "unlink" \in Places /\ "unlink" \in Pulling /\ run[p].at \in Pulling
    BY DEF Places, Pulling, Publish
  <2>2. UNCHANGED <<phone, manifest, tmp>>
    BY DEF Publish, Still
  <2> QED
    BY <1>2, <2>1, <2>2, GotoStep DEF IInv, TypeInv
<1>3. CASE /\ disk' = [disk EXCEPT ![f] = part[f]]
           /\ part' = [part EXCEPT ![f] = Absent]
           /\ Goto(p, "record") /\ Meanwhile(f, p)
  <2>1. /\ run' \in [Runs -> Process] /\ run'[p] = [run[p] EXCEPT !.at = "record"]
        /\ \A q \in Runs : q # p => run'[q] = run[q]
    <3>1. "record" \in Places
      BY DEF Places
    <3> QED
      BY <1>3, <3>1, GotoProcess DEF IInv
  <2>2. UNCHANGED <<phone, manifest, tmp>>
    BY DEF Publish, Still
  <2>3. late' \in [Runs -> SUBSET Files] /\ late'[p] = late[p]
    BY <1>1, <1>3 DEF Meanwhile, IInv, TypeInv
  <2>4. disk' \in [Files -> Int] /\ part' \in [Files -> Int] /\ \A g \in Files : g # f => disk'[g] = disk[g]
    BY <1>1, <1>3 DEF IInv, TypeInv, Absent
  <2>5. TypeInv'
    BY <2>1, <2>2, <2>3, <2>4 DEF IInv, TypeInv
  <2>6. /\ run'[p].at = "record" /\ run'[p].pend = run[p].pend
        /\ run'[p].untr = run[p].untr /\ run'[p].recs = run[p].recs
    BY <2>1 DEF IInv, TypeInv, Process
  <2>7. Current(p)' = f
    BY <2>6 DEF Current
  <2>8. \A g \in run[p].pend : MayReplace(p, g)
    BY <1>1 DEF PlanHolds, Publish, Pulling
  <2>9. run[p].pend \subseteq Files
    BY DEF IInv, TypeInv, Process
  <2>10. \A g \in run[p].pend \ {f} : MayReplace(p, g)'
    BY <2>3, <2>4, <2>6, <2>8, <2>9 DEF MayReplace
  <2>11. PlanHolds(p)'
    BY <1>1, <2>6, <2>7, <2>10 DEF PlanHolds, Pulling, Saving
  <2>12. ASSUME NEW q \in Runs, q # p PROVE PlanHolds(q)'
    <3>1. late[q] \subseteq late'[q]
      BY <1>3, <2>12 DEF Meanwhile
    <3>2. run[q].at \notin {"idle", "load", "plan"} => f \in late'[q]
      BY <1>3, <2>12 DEF Meanwhile
    <3> QED
      BY <2>1, <2>4, <2>12, <3>1, <3>2, OthersHold
  <2> QED
    BY <2>5, <2>11, <2>12 DEF IInv
<1> QED
  BY <1>2, <1>3 DEF Publish

LEMMA RecordIsRecords ==
  ASSUME TypeInv, NEW p \in Runs
  PROVE  Record(p) \in [Files -> Entry]
<1>1. run[p].list \in [Files -> Nat] /\ run[p].sum \in Nat /\ run[p].recs \in [Files -> Entry]
  BY DEF TypeInv, Process
<1>2. ASSUME NEW f \in Files PROVE <<run[p].list[f], run[p].sum>> \in Entry
  BY <1>1 DEF Entry
<1> DEFINE E == Entry
<1> HIDE DEF E
<1>3. run[p].recs \in [Files -> E] /\ \A f \in Files : <<run[p].list[f], run[p].sum>> \in E
  BY <1>1, <1>2 DEF E
<1>4. Record(p) \in [Files -> E]
  BY <1>3 DEF Record
<1> QED
  BY <1>4 DEF E

LEMMA WriteHolds == ASSUME IInv, NEW p \in Runs, WriteManifest(p) PROVE IInv'
<1> DEFINE recs == IF run[p].at = "first" THEN run[p].recs ELSE Record(p)
           to == IF run[p].at = "record" THEN "save" ELSE IF run[p].at = "adopted" THEN "keep" ELSE "close"
           m == [run[p] EXCEPT !.at = to, !.recs = recs]
<1>1. UNCHANGED <<phone, disk, part, manifest, late>>
  BY DEF WriteManifest, Still
<1>2. recs \in [Files -> Entry] /\ run[p] \in Process /\ to \in Places
  <2>1. run[p] \in Process /\ Record(p) \in [Files -> Entry] /\ to \in Places
    BY RecordIsRecords DEF IInv, TypeInv, Places
  <2>2. run[p].recs \in [Files -> Entry]
    BY <2>1 DEF Process
  <2> QED
    BY <2>1, <2>2
<1>3. CASE tmp' = new_manifest /\ Over(p)
  <2>1. tmp' \in Manifests
    BY <1>3, IdleProcess
  <2> QED
    BY <1>1, <1>3, <2>1, OverStep DEF IInv, TypeInv
<1>4. CASE tmp' = [there |-> TRUE, recs |-> recs] /\ Set(p, m)
  <2>1. tmp' \in Manifests
    <3> HIDE DEF recs
    <3> QED
      BY <1>2, <1>4 DEF Manifests
  <2>2. m \in Process
    <3> HIDE DEF recs, to
    <3> QED
      BY <1>2, MovesRecs
  <2>3. m.at = to /\ m.pend = run[p].pend /\ m.untr = run[p].untr /\ m.recs = recs
    BY <1>2 DEF Process
  <2>4. run' \in [Runs -> Process] /\ run'[p] = m /\ \A q \in Runs : q # p => run'[q] = run[q]
    <3> HIDE DEF m
    <3> QED
      BY <1>4, <2>2, SetProcess DEF IInv
  <2>5. PlanHolds(p)'
    <3>1. CASE run[p].at # "record"
      <4>1. to \in {"keep", "close"}
        BY <3>1
      <4>2. run'[p].at = to
        <5> HIDE DEF m
        <5> QED
          BY <2>3, <2>4
      <4> QED
        BY <4>1, <4>2, NoPlan DEF Pulling, Saving
    <3>2. CASE run[p].at = "record"
      <4>1. run'[p].at = "save" /\ run'[p].pend = run[p].pend /\ Current(p)' = Current(p)
        <5>1. to = "save"
          BY <3>2
        <5>2. run'[p].at = to /\ run'[p].pend = run[p].pend /\ run'[p].untr = run[p].untr
          <6> HIDE DEF m
          <6> QED
            BY <2>3, <2>4
        <5> QED
          BY <5>1, <5>2 DEF Current
      <4>2. PlanHolds(p) /\ run[p].pend # {} /\ run[p].pend \subseteq Files
        BY <3>2 DEF IInv, TypeInv, Process, PlanHolds, Saving
      <4>3. \A f \in Files \ {Current(p)} : run'[p].recs[f] = run[p].recs[f]
        <5>1. run'[p].recs = Record(p) /\ run[p].recs \in [Files -> Entry]
          BY <1>2, <2>3, <2>4, <3>2 DEF Process
        <5> QED
          BY <5>1 DEF Record
      <4>4. \A f \in run[p].pend \ {Current(p)} : MayReplace(p, f)
        BY <3>2, <4>2 DEF PlanHolds, Saving
      <4>5. \A f \in run[p].pend \ {Current(p)} : MayReplace(p, f)'
        BY <1>1, <4>2, <4>3, <4>4 DEF MayReplace
      <4> QED
        BY <4>1, <4>2, <4>5 DEF PlanHolds, Pulling, Saving
    <3> QED
      BY <3>1, <3>2
  <2> QED
    BY <1>1, <2>1, <2>4, <2>5, QuietStep DEF IInv, TypeInv
<1> QED
  BY <1>3, <1>4 DEF WriteManifest

\* Once a file is recorded the run goes on with the others.
LEMMA MoveHolds == ASSUME IInv, NEW p \in Runs, MoveManifest(p) PROVE IInv'
<1>1. UNCHANGED <<phone, disk, part, late>>
  BY DEF MoveManifest, Still
<1>2. manifest' \in Manifests /\ tmp' \in Manifests
  BY IdleProcess DEF MoveManifest, IInv, TypeInv
<1>3. CASE Over(p)
  BY <1>1, <1>2, <1>3, OverStep DEF IInv, TypeInv
<1>4. CASE Set(p, Done(p)) /\ run[p].at = "save"
  <2> DEFINE rest == run[p].pend \ {Current(p)}
             m == [run[p] EXCEPT !.at = "next", !.pend = rest, !.untr = run[p].untr]
  <2>1. run[p] \in Process /\ rest \in SUBSET Files /\ run[p].untr \in SUBSET Files /\ "next" \in Places
    BY DEF IInv, TypeInv, Process, Places
  <2>2. m \in Process
    <3> HIDE DEF rest
    <3> QED
      BY <2>1, MovesPend
  <2>3. m = Done(p)
    BY <1>4, <2>1 DEF Done, Process
  <2>4. m.at = "next" /\ m.pend = rest /\ m.recs = run[p].recs
    BY <2>1 DEF Process
  <2>5. run' \in [Runs -> Process] /\ run'[p] = m /\ \A q \in Runs : q # p => run'[q] = run[q]
    <3> HIDE DEF m
    <3> QED
      BY <1>4, <2>2, <2>3, SetProcess DEF IInv
  <2>6. \A f \in rest : MayReplace(p, f)
    BY <1>4 DEF IInv, PlanHolds, Saving
  <2>7. PlanHolds(p)'
    BY <1>1, <2>4, <2>5, <2>6 DEF PlanHolds, MayReplace, Pulling, Saving
  <2> QED
    BY <1>1, <1>2, <2>5, <2>7, QuietStep DEF IInv, TypeInv
<1>5. CASE Set(p, Done(p)) /\ run[p].at # "save"
  <2>1. Done(p) \in Process /\ Done(p).at \in {"adopt", "idle"}
    <3>1. CASE run[p].at = "keep"
      <4> DEFINE rest == run[p].untr \ {Current(p)}
                 m == [run[p] EXCEPT !.at = "adopt", !.pend = run[p].pend, !.untr = rest]
      <4>1. run[p] \in Process /\ rest \in SUBSET Files /\ run[p].pend \in SUBSET Files /\ "adopt" \in Places
        BY DEF IInv, TypeInv, Process, Places
      <4>2. m \in Process
        <5> HIDE DEF rest
        <5> QED
          BY <4>1, MovesPend
      <4>3. m = Done(p) /\ m.at = "adopt"
        BY <3>1, <4>1 DEF Done, Process
      <4> QED
        BY <4>2, <4>3
    <3>2. CASE run[p].at # "keep"
      BY <1>5, <3>2, IdleProcess DEF Done, Idle
    <3> QED
      BY <3>1, <3>2
  <2> QED
    BY <1>1, <1>2, <1>5, <2>1, SetStep DEF IInv, TypeInv, Pulling, Saving
<1> QED
  BY <1>3, <1>4, <1>5 DEF MoveManifest

LEMMA AdoptHolds == ASSUME IInv, NEW p \in Runs, Adopt(p) \/ Finish(p) \/ Crash(p) PROVE IInv'
<1>1. UNCHANGED <<phone, disk, part, manifest, tmp, late>>
  BY DEF Adopt, Finish, Crash, Folder, Still
<1>2. CASE Over(p)
  BY <1>1, <1>2, OverStep DEF IInv, TypeInv
<1>3. CASE Finish(p) /\ Goto(p, "first")
  BY <1>1, <1>3, GotoStep DEF IInv, TypeInv, Places, Pulling, Saving
<1>4. CASE Adopt(p) /\ ~Over(p)
  <2> DEFINE f == Current(p)
             kept == [run[p] EXCEPT !.untr = run[p].untr \ {f}, !.kept = run[p].kept \union {f}]
             adopted == [run[p] EXCEPT !.at = "adopted", !.sum = phone[f]]
  <2>1. run[p] \in Process /\ f \in Files /\ run[p].at = "adopt" /\ phone[f] \in Nat
    <3>1. run[p] \in Process /\ run[p].at = "adopt" /\ run[p].untr # {}
      BY <1>4 DEF Adopt, IInv, TypeInv
    <3>2. f \in Files
      BY <3>1, FirstName DEF Current, Process
    <3> QED
      BY <3>1, <3>2 DEF IInv, TypeInv
  <2>2. kept \in Process /\ kept.at = "adopt"
    <3> DEFINE E == Entry
               P == Places
    <3>1. /\ run[p] \in [at : P, dry : BOOLEAN, list : [Files -> Nat], recs : [Files -> E],
                         pend : SUBSET Files, untr : SUBSET Files, kept : SUBSET Files, sum : Nat]
          /\ Process = [at : P, dry : BOOLEAN, list : [Files -> Nat], recs : [Files -> E],
                        pend : SUBSET Files, untr : SUBSET Files, kept : SUBSET Files, sum : Nat]
      BY <2>1 DEF Process
    <3> HIDE DEF E, P
    <3> QED
      BY <2>1, <3>1
  <2>3. adopted \in Process /\ adopted.at = "adopted"
    <3>1. "adopted" \in Places
      BY DEF Places
    <3>2. adopted.at = "adopted"
      BY <2>1 DEF Process
    <3> QED
      BY <2>1, <3>1, <3>2, MovesSum
  <2>4. Set(p, kept) \/ Set(p, adopted)
    BY <1>4 DEF Adopt
  <2> QED
    BY <1>1, <2>2, <2>3, <2>4, SetStep DEF IInv, TypeInv, Pulling, Saving
<1> QED
  BY <1>2, <1>3, <1>4 DEF Adopt, Finish, Crash

\* What somebody else does in the folder, the runs are told.
LEMMA EditsHold == ASSUME IInv, NEW f \in Files, PhoneEdits(f) \/ FolderEdits(f) PROVE IInv'
<1>1. UNCHANGED <<part, manifest, tmp, run>>
  BY DEF PhoneEdits, FolderEdits, Folder
<1>2. phone' \in [Files -> Nat] /\ disk' \in [Files -> Int] /\ late' \in [Runs -> SUBSET Files]
  <2>1. CASE PhoneEdits(f)
    BY <2>1 DEF PhoneEdits, Folder, Absent, IInv, TypeInv
  <2>2. CASE FolderEdits(f)
    <3>1. PICK what \in {Mine, Link} \union {Link - v : v \in {disk[f]} \intersect Versions} :
                 disk' = [disk EXCEPT ![f] = what]
      BY <2>2 DEF FolderEdits
    <3>2. what \in Int
      BY DEF Mine, Link, IInv, TypeInv
    <3> QED
      BY <2>2, <3>1, <3>2 DEF FolderEdits, IInv, TypeInv
  <2> QED
    BY <2>1, <2>2
<1>3. TypeInv'
  BY <1>1, <1>2 DEF IInv, TypeInv
<1>4. ASSUME NEW p \in Runs PROVE PlanHolds(p)'
  <2>1. CASE PhoneEdits(f)
    BY <1>1, <2>1, OthersHold DEF PhoneEdits, Folder
  <2>2. CASE FolderEdits(f)
    <3>1. \A g \in Files : disk'[g] # disk[g] => g = f
      BY <2>2 DEF FolderEdits, IInv, TypeInv
    <3>2. late'[p] = IF run[p].at \notin {"idle", "load", "plan"} THEN late[p] \union {f} ELSE late[p]
      BY <2>2 DEF FolderEdits
    <3> QED
      BY <1>1, <3>1, <3>2, OthersHold
  <2> QED
    BY <2>1, <2>2
<1> QED
  BY <1>3, <1>4 DEF IInv

LEMMA NextIInv == IInv /\ [Next]_vars => IInv'
<1> SUFFICES ASSUME IInv, [Next]_vars PROVE IInv'
  OBVIOUS
<1>1. CASE UNCHANGED vars
  <2>1. TypeInv'
    BY <1>1 DEF vars, IInv, TypeInv
  <2>2. ASSUME NEW p \in Runs PROVE PlanHolds(p)'
    BY <1>1, OthersHold DEF vars
  <2> QED
    BY <2>1, <2>2 DEF IInv
<1>2. ASSUME NEW p \in Runs, Step(p) \/ Crash(p) PROVE IInv'
  BY <1>2, DiscoverHolds, LoadHolds, PlanIsHeld, NextFileHolds, RemoteSumHolds, PullHolds, PublishHolds,
     WriteHolds, MoveHolds, AdoptHolds DEF Step
<1>3. ASSUME NEW f \in Files, PhoneEdits(f) \/ FolderEdits(f) PROVE IInv'
  BY <1>3, EditsHold
<1> QED
  BY <1>1, <1>2, <1>3 DEF Next

(***************************************************************************)
(* The theorem                                                             *)
(***************************************************************************)
\* A step by which p goes from publishing a file to recording it is p's own, and the
\* file is the one it was pulling.
LEMMA PublishStep ==
  ASSUME IInv, Next, NEW p \in Runs, run[p].at = "publish", run'[p].at = "record"
  PROVE  \A f \in Files : disk'[f] # disk[f] => f = Current(p)
<1>1. PICK q \in Runs : Step(q) \/ Crash(q)
  <2>1. ASSUME NEW f \in Files, PhoneEdits(f) \/ FolderEdits(f) PROVE FALSE
    BY <2>1 DEF PhoneEdits, FolderEdits
  <2> QED
    BY <2>1 DEF Next
<1>2. q = p
  <2>1. \E m : Set(q, m)
    BY <1>1, Zenon DEF Step, Crash, Discover, LoadManifest, Plan, NextFile, RemoteSum, PullBegins, PullEnds, Verify,
       Publish, PullFails, WriteManifest, MoveManifest, Adopt, Finish, Goto, Over
  <2> QED
    BY <2>1 DEF Set, IInv, TypeInv
<1>3. Publish(p) \/ disk' = disk
  BY <1>1, <1>2 DEF Step, Crash, Discover, LoadManifest, Plan, NextFile, RemoteSum, PullBegins, PullEnds, Verify,
     PullFails, WriteManifest, MoveManifest, Adopt, Finish, Folder
<1>4. CASE Publish(p)
  BY <1>4 DEF Publish, IInv, TypeInv
<1>5. CASE disk' = disk
  BY <1>5
<1> QED
  BY <1>3, <1>4, <1>5

\* "Not written by Linkplane: never overwrite it" (_backup_selected): whatever the other
\* runs, the owner of the phone and the owner of the folder do meanwhile, and whenever a
\* run crashes, a run replaces what it found under a name only if the manifest it loaded
\* has the name, and never a link.
THEOREM ForeignIsKept == Spec => ForeignKept
<1> DEFINE Kept ==
      \A p \in Runs, f \in Files :
        run[p].at = "publish" /\ run'[p].at = "record" /\ disk'[f] # disk[f] /\ disk[f] # Absent =>
          f \in late[p] \/ (run[p].recs[f] # <<>> /\ ~IsLink(f))
<1>1. Init => IInv
  BY InitIInv
<1>2. IInv /\ [Next]_vars => IInv'
  BY NextIInv
<1>3. IInv /\ [Next]_vars => [Kept]_vars
  <2> SUFFICES ASSUME IInv, Next, NEW p \in Runs, NEW f \in Files,
                      run[p].at = "publish", run'[p].at = "record", disk'[f] # disk[f], disk[f] # Absent
               PROVE  f \in late[p] \/ (run[p].recs[f] # <<>> /\ ~IsLink(f))
    OBVIOUS
  <2>1. f = Current(p)
    BY PublishStep
  <2>2. PlanHolds(p) /\ run[p].at \in Pulling /\ f \in run[p].pend
    BY <2>1, CurrentPending DEF IInv, PlanHolds, Pulling
  <2> QED
    BY <2>1, <2>2 DEF PlanHolds, MayReplace
<1> QED
  BY <1>1, <1>2, <1>3, PTL DEF Spec, ForeignKept

(***************************************************************************)
(* The records                                                             *)
(***************************************************************************)
\* A record never names bytes older than the version that was listed with it.
GoodRecs(recs) == \A f \in Files : recs[f] # <<>> => recs[f][1] <= recs[f][2]

\* A listing is not ahead of the phone, and a checksum is not behind the listing.
Listing(p) == run[p].at # "idle" => \A f \in Files : phone[f] = Absent \/ run[p].list[f] <= phone[f]
Summing == {"get", "filling", "verify", "publish", "unlink", "record", "adopted"}
Checksum(p) == run[p].at \in Summing => Current(p) \in Files /\ run[p].list[Current(p)] <= run[p].sum

Recorded ==
  /\ GoodRecs(manifest.recs) /\ GoodRecs(tmp.recs)
  /\ \A p \in Runs : GoodRecs(run[p].recs) /\ Listing(p) /\ Checksum(p)

\* The other processes are left alone.
Others(p) == \A q \in Runs : q # p => run'[q] = run[q]

LEMMA OverFields ==
  ASSUME IInv, NEW p \in Runs, Over(p)
  PROVE  Others(p) /\ run'[p] = Idle /\ run'[p].at = "idle" /\ GoodRecs(run'[p].recs)
<1>1. run'[p] = Idle /\ Others(p)
  BY DEF Over, Set, Others, IInv, TypeInv
<1>2. Idle.at = "idle" /\ \A f \in Files : Idle.recs[f] = <<>>
  BY DEF Idle, new_manifest
<1> QED
  BY <1>1, <1>2 DEF GoodRecs

LEMMA GotoFields ==
  ASSUME IInv, NEW p \in Runs, NEW to, Goto(p, to)
  PROVE  /\ Others(p) /\ run'[p].at = to
         /\ run'[p].list = run[p].list /\ run'[p].recs = run[p].recs /\ run'[p].sum = run[p].sum
         /\ run'[p].pend = run[p].pend /\ run'[p].untr = run[p].untr /\ run'[p].kept = run[p].kept
         /\ Current(p)' = Current(p)
<1>1. run[p] \in Process /\ run'[p] = [run[p] EXCEPT !.at = to] /\ Others(p)
  BY DEF Goto, Set, Others, IInv, TypeInv
<1>2. /\ run'[p].at = to
      /\ run'[p].list = run[p].list /\ run'[p].recs = run[p].recs /\ run'[p].sum = run[p].sum
      /\ run'[p].pend = run[p].pend /\ run'[p].untr = run[p].untr /\ run'[p].kept = run[p].kept
  BY <1>1 DEF Process
<1> QED
  BY <1>1, <1>2 DEF Current

\* The new state is run[p] with some fields replaced: what Set says of each field.
LEMMA LoadFields ==
  ASSUME IInv, NEW p \in Runs, LoadManifest(p)
  PROVE  /\ Others(p) /\ run'[p].at = "plan" /\ run'[p].recs = manifest.recs /\ run'[p].list = run[p].list
<1>1. run[p] \in Process /\ run'[p] = [run[p] EXCEPT !.at = "plan", !.recs = manifest.recs] /\ Others(p)
  BY DEF LoadManifest, Set, Others, IInv, TypeInv
<1> QED
  BY <1>1 DEF Process

LEMMA PlanFields ==
  ASSUME IInv, NEW p \in Runs, Plan(p), ~Over(p)
  PROVE  /\ Others(p) /\ run'[p].at = "next" /\ run'[p].recs = run[p].recs /\ run'[p].list = run[p].list
         /\ run'[p].kept = run[p].kept
         /\ run'[p].pend \union run'[p].untr = {f \in Listed(p) : ~is_unchanged(p, f)}
<1> DEFINE changed == {f \in Listed(p) : ~is_unchanged(p, f)}
           others == {f \in changed : Untracked(p, f)}
<1>1. run[p] \in Process /\ run'[p] = [run[p] EXCEPT !.at = "next", !.pend = changed \ others, !.untr = others] /\ Others(p)
  BY DEF Plan, Set, Others, IInv, TypeInv
<1>2. (changed \ others) \union others = changed
  OBVIOUS
<1> HIDE DEF changed, others
<1>3. /\ run'[p].at = "next" /\ run'[p].recs = run[p].recs /\ run'[p].list = run[p].list
      /\ run'[p].kept = run[p].kept /\ run'[p].pend = changed \ others /\ run'[p].untr = others
  BY <1>1 DEF Process
<1> QED
  BY <1>1, <1>2, <1>3 DEF changed

LEMMA SumFields ==
  ASSUME IInv, NEW p \in Runs, RemoteSum(p), ~Over(p)
  PROVE  /\ Others(p) /\ run'[p].at = "get" /\ phone[Current(p)] # Absent /\ run'[p].sum = phone[Current(p)]
         /\ run'[p].list = run[p].list /\ run'[p].recs = run[p].recs
         /\ run'[p].pend = run[p].pend /\ run'[p].untr = run[p].untr /\ run'[p].kept = run[p].kept
         /\ Current(p)' = Current(p)
<1>1. /\ run[p] \in Process /\ run'[p] = [run[p] EXCEPT !.at = "get", !.sum = phone[Current(p)]] /\ Others(p)
      /\ phone[Current(p)] # Absent
  BY DEF RemoteSum, Set, Others, IInv, TypeInv
<1>2. /\ run'[p].at = "get" /\ run'[p].sum = phone[Current(p)]
      /\ run'[p].list = run[p].list /\ run'[p].recs = run[p].recs
      /\ run'[p].pend = run[p].pend /\ run'[p].untr = run[p].untr /\ run'[p].kept = run[p].kept
  BY <1>1 DEF Process
<1> QED
  BY <1>1, <1>2 DEF Current

LEMMA WriteFields ==
  ASSUME IInv, NEW p \in Runs, WriteManifest(p), ~Over(p)
  PROVE  /\ Others(p)
         /\ run'[p].at = IF run[p].at = "record" THEN "save" ELSE IF run[p].at = "adopted" THEN "keep" ELSE "close"
         /\ run'[p].recs = IF run[p].at = "first" THEN run[p].recs ELSE Record(p)
         /\ tmp' = [there |-> TRUE, recs |-> run'[p].recs]
         /\ run'[p].list = run[p].list /\ run'[p].sum = run[p].sum
         /\ run'[p].pend = run[p].pend /\ run'[p].untr = run[p].untr /\ run'[p].kept = run[p].kept
         /\ Current(p)' = Current(p)
<1> DEFINE recs == IF run[p].at = "first" THEN run[p].recs ELSE Record(p)
           to == IF run[p].at = "record" THEN "save" ELSE IF run[p].at = "adopted" THEN "keep" ELSE "close"
<1>1. /\ run[p] \in Process /\ run'[p] = [run[p] EXCEPT !.at = to, !.recs = recs] /\ Others(p)
      /\ tmp' = [there |-> TRUE, recs |-> recs]
  BY DEF WriteManifest, Set, Others, IInv, TypeInv
<1> HIDE DEF recs, to
<1>2. /\ run'[p].at = to /\ run'[p].recs = recs
      /\ run'[p].list = run[p].list /\ run'[p].sum = run[p].sum
      /\ run'[p].pend = run[p].pend /\ run'[p].untr = run[p].untr /\ run'[p].kept = run[p].kept
  BY <1>1 DEF Process
<1> QED
  BY <1>1, <1>2 DEF Current, recs, to

LEMMA MoveFields ==
  ASSUME IInv, NEW p \in Runs, MoveManifest(p), ~Over(p)
  PROVE  /\ Others(p) /\ run[p].at \in {"save", "keep"} /\ tmp.there /\ manifest' = tmp /\ tmp' = new_manifest
         /\ run'[p].at = IF run[p].at = "save" THEN "next" ELSE "adopt"
         /\ run'[p].list = run[p].list /\ run'[p].recs = run[p].recs /\ run'[p].kept = run[p].kept
         /\ run'[p].pend = IF run[p].at = "save" THEN run[p].pend \ {Current(p)} ELSE run[p].pend
         /\ run'[p].untr = IF run[p].at = "save" THEN run[p].untr ELSE run[p].untr \ {Current(p)}
<1>1. /\ run[p] \in Process /\ run'[p] = Done(p) /\ Others(p)
      /\ tmp.there /\ manifest' = tmp /\ tmp' = new_manifest /\ Set(p, Done(p))
  BY DEF MoveManifest, Set, Others, IInv, TypeInv
<1>2. run[p].at \in {"save", "keep"}
  BY <1>1 DEF MoveManifest, Done, Over
<1>3. CASE run[p].at = "save"
  <2>1. run'[p] = [run[p] EXCEPT !.at = "next", !.pend = run[p].pend \ {Current(p)}]
    BY <1>1, <1>3 DEF Done
  <2> DEFINE rest == run[p].pend \ {Current(p)}
  <2> HIDE DEF rest
  <2>2. run'[p] = [run[p] EXCEPT !.at = "next", !.pend = rest]
    BY <2>1 DEF rest
  <2>3. /\ run'[p].at = "next" /\ run'[p].pend = rest /\ run'[p].list = run[p].list
        /\ run'[p].recs = run[p].recs /\ run'[p].kept = run[p].kept /\ run'[p].untr = run[p].untr
    BY <1>1, <2>2 DEF Process
  <2> QED
    BY <1>1, <1>3, <2>3 DEF rest
<1>4. CASE run[p].at = "keep"
  <2>1. run'[p] = [run[p] EXCEPT !.at = "adopt", !.untr = run[p].untr \ {Current(p)}]
    BY <1>1, <1>4 DEF Done
  <2> DEFINE rest == run[p].untr \ {Current(p)}
  <2> HIDE DEF rest
  <2>2. run'[p] = [run[p] EXCEPT !.at = "adopt", !.untr = rest]
    BY <2>1 DEF rest
  <2>3. /\ run'[p].at = "adopt" /\ run'[p].untr = rest /\ run'[p].list = run[p].list
        /\ run'[p].recs = run[p].recs /\ run'[p].kept = run[p].kept /\ run'[p].pend = run[p].pend
    BY <1>1, <2>2 DEF Process
  <2> QED
    BY <1>1, <1>4, <2>3 DEF rest
<1> QED
  BY <1>2, <1>3, <1>4

\* An untracked file is kept as it is, or it has the phone's bytes.
LEMMA AdoptFields ==
  ASSUME IInv, NEW p \in Runs, Adopt(p), ~Over(p)
  PROVE  /\ Others(p) /\ run[p].at = "adopt" /\ run[p].untr # {} /\ Current(p) \in Files
         /\ run'[p].list = run[p].list /\ run'[p].recs = run[p].recs /\ run'[p].pend = run[p].pend
         /\ \/ /\ run'[p].at = "adopt"
               /\ run'[p].untr = run[p].untr \ {Current(p)} /\ run'[p].kept = run[p].kept \union {Current(p)}
            \/ /\ run'[p].at = "adopted" /\ run'[p].sum = phone[Current(p)]
               /\ phone[Current(p)] # Absent /\ disk[Current(p)] = phone[Current(p)]
               /\ run'[p].untr = run[p].untr /\ run'[p].kept = run[p].kept
               /\ Current(p)' = Current(p)
<1> DEFINE f == Current(p)
<1>1. /\ run[p] \in Process /\ Others(p) /\ run[p].at = "adopt" /\ run[p].untr # {}
      /\ \/ run'[p] = [run[p] EXCEPT !.untr = run[p].untr \ {f}, !.kept = run[p].kept \union {f}]
         \/ /\ run'[p] = [run[p] EXCEPT !.at = "adopted", !.sum = phone[f]]
            /\ phone[f] # Absent /\ disk[f] = phone[f]
  BY DEF Adopt, Adopts, Set, Others, IInv, TypeInv
<1>2. f \in Files
  BY <1>1, FirstName DEF Current, Process
<1>3. CASE run'[p] = [run[p] EXCEPT !.untr = run[p].untr \ {f}, !.kept = run[p].kept \union {f}]
  <2> DEFINE rest == run[p].untr \ {f}
             more == run[p].kept \union {f}
  <2>1. run'[p] = [run[p] EXCEPT !.untr = rest, !.kept = more]
    BY <1>3
  <2> HIDE DEF rest, more, f
  <2>2. /\ run'[p].at = run[p].at /\ run'[p].untr = rest /\ run'[p].kept = more /\ run'[p].list = run[p].list
        /\ run'[p].recs = run[p].recs /\ run'[p].pend = run[p].pend
    BY <1>1, <2>1 DEF Process
  <2> QED
    BY <1>1, <1>2, <2>2 DEF rest, more, f
<1>4. CASE /\ run'[p] = [run[p] EXCEPT !.at = "adopted", !.sum = phone[f]]
           /\ phone[f] # Absent /\ disk[f] = phone[f]
  <2> HIDE DEF f
  <2>1. /\ run'[p].at = "adopted" /\ run'[p].sum = phone[f] /\ run'[p].untr = run[p].untr
        /\ run'[p].kept = run[p].kept /\ run'[p].list = run[p].list
        /\ run'[p].recs = run[p].recs /\ run'[p].pend = run[p].pend
    BY <1>1, <1>4 DEF Process
  <2> QED
    BY <1>1, <1>2, <1>4, <2>1 DEF f, Current
<1> QED
  BY <1>1, <1>3, <1>4

LEMMA InitRecorded == Init => Recorded
<1> SUFFICES ASSUME Init PROVE Recorded
  OBVIOUS
<1>1. \A f \in Files : new_manifest.recs[f] = <<>> /\ Idle.recs[f] = <<>> /\ Idle.at = "idle"
  BY DEF new_manifest, Idle
<1>2. manifest = new_manifest /\ tmp = new_manifest /\ \A p \in Runs : run[p] = Idle
  BY DEF Init
<1>3. Idle.at = "idle"
  BY DEF Idle
<1> QED
  BY <1>1, <1>2, <1>3 DEF Recorded, GoodRecs, Listing, Checksum, Summing

\* The records the step writes are good, and what p knows; the others know what they knew.
LEMMA RecordedBy ==
  ASSUME IInv, Recorded, NEW p \in Runs, Others(p), UNCHANGED phone,
         GoodRecs(manifest'.recs), GoodRecs(tmp'.recs), GoodRecs(run'[p].recs), Listing(p)', Checksum(p)'
  PROVE  Recorded'
<1>1. ASSUME NEW q \in Runs, q # p PROVE GoodRecs(run'[q].recs) /\ Listing(q)' /\ Checksum(q)'
  <2>1. run'[q] = run[q] /\ GoodRecs(run[q].recs) /\ Listing(q) /\ Checksum(q)
    BY <1>1 DEF Others, Recorded
  <2>2. Current(q)' = Current(q)
    BY <2>1 DEF Current
  <2> QED
    BY <2>1, <2>2 DEF Listing, Checksum
<1> QED
  BY <1>1 DEF Recorded

LEMMA OverRecorded ==
  ASSUME IInv, Recorded, NEW p \in Runs, Over(p), UNCHANGED phone,
         GoodRecs(manifest'.recs), GoodRecs(tmp'.recs)
  PROVE  Recorded'
<1>1. Others(p) /\ run'[p].at = "idle" /\ GoodRecs(run'[p].recs)
  BY OverFields
<1> QED
  BY <1>1, RecordedBy DEF Listing, Checksum, Summing

LEMMA GotoRecorded ==
  ASSUME IInv, Recorded, NEW p \in Runs, NEW to, Goto(p, to), UNCHANGED <<phone, manifest, tmp>>,
         run[p].at # "idle", to \in Summing => run[p].at \in Summing
  PROVE  Recorded'
<1>1. /\ Others(p) /\ run'[p].at = to /\ run'[p].list = run[p].list /\ run'[p].recs = run[p].recs
      /\ run'[p].sum = run[p].sum /\ Current(p)' = Current(p)
  BY GotoFields
<1>2. GoodRecs(run'[p].recs) /\ Listing(p)' /\ Checksum(p)'
  BY <1>1 DEF Recorded, Listing, Checksum
<1> QED
  BY <1>1, <1>2, RecordedBy DEF Recorded

\* The listing and the checksum of a file were read one after the other, and the phone's
\* versions only rise, so a record is good.
LEMMA GoodRecord ==
  ASSUME IInv, Recorded, NEW p \in Runs, run[p].at \in Summing
  PROVE  GoodRecs(Record(p))
<1>1. Current(p) \in Files /\ run[p].list[Current(p)] <= run[p].sum /\ GoodRecs(run[p].recs)
  BY DEF Recorded, Checksum
<1>2. run[p].recs \in [Files -> Entry]
  BY DEF IInv, TypeInv, Process
<1>3. ASSUME NEW f \in Files PROVE Record(p)[f] # <<>> => Record(p)[f][1] <= Record(p)[f][2]
  <2>1. CASE f = Current(p)
    BY <1>1, <1>2, <2>1 DEF Record
  <2>2. CASE f # Current(p)
    BY <1>1, <1>2, <2>2 DEF Record, GoodRecs
  <2> QED
    BY <2>1, <2>2
<1> QED
  BY <1>3 DEF GoodRecs

LEMMA EmptyIsGood == GoodRecs(new_manifest.recs)
BY DEF new_manifest, GoodRecs

LEMMA StepRecorded ==
  ASSUME IInv, Recorded, NEW p \in Runs, Step(p) \/ Crash(p)
  PROVE  Recorded'
<1>0. GoodRecs(manifest.recs) /\ GoodRecs(tmp.recs) /\ GoodRecs(run[p].recs) /\ Listing(p) /\ Checksum(p)
  BY DEF Recorded
<1>1. UNCHANGED phone
  BY DEF Step, Crash, Discover, LoadManifest, Plan, NextFile, RemoteSum, PullBegins, PullEnds, Verify,
       Publish, PullFails, WriteManifest, MoveManifest, Adopt, Finish, Still
<1>2. CASE Discover(p)
  <2>1. UNCHANGED <<manifest, tmp>>
    BY <1>2 DEF Discover, Folder
  <2>2. CASE Over(p)
    BY <1>0, <1>1, <2>1, <2>2, OverRecorded
  <2>3. ASSUME NEW dry \in BOOLEAN, Set(p, [Idle EXCEPT !.at = "load", !.dry = dry, !.list = phone]) PROVE Recorded'
    <3>1. /\ Others(p) /\ run'[p].at = "load" /\ run'[p].list = phone /\ run'[p].recs = new_manifest.recs
      BY <2>3 DEF Set, Others, IInv, TypeInv, Idle
    <3>2. Listing(p)'
      BY <1>1, <3>1 DEF Listing, IInv, TypeInv
    <3>3. Checksum(p)'
      BY <3>1 DEF Checksum, Summing
    <3> QED
      BY <1>0, <1>1, <2>1, <3>1, <3>2, <3>3, EmptyIsGood, RecordedBy
  <2> QED
    BY <1>2, <2>2, <2>3 DEF Discover
<1>3. CASE LoadManifest(p)
  <2>1. Others(p) /\ run'[p].at = "plan" /\ run'[p].recs = manifest.recs /\ run'[p].list = run[p].list
    BY <1>3, LoadFields
  <2>2. UNCHANGED <<manifest, tmp>> /\ run[p].at # "idle"
    BY <1>3 DEF LoadManifest, Folder
  <2> QED
    BY <1>0, <1>1, <2>1, <2>2, RecordedBy DEF Listing, Checksum, Summing
<1>4. CASE Plan(p)
  <2>1. UNCHANGED <<manifest, tmp>> /\ run[p].at # "idle"
    BY <1>4 DEF Plan, Folder
  <2>2. CASE Over(p)
    BY <1>0, <1>1, <2>1, <2>2, OverRecorded
  <2>3. CASE ~Over(p)
    <3>1. Others(p) /\ run'[p].at = "next" /\ run'[p].recs = run[p].recs /\ run'[p].list = run[p].list
      BY <1>4, <2>3, PlanFields
    <3> QED
      BY <1>0, <1>1, <2>1, <3>1, RecordedBy DEF Listing, Checksum, Summing
  <2> QED
    BY <2>2, <2>3
<1>5. CASE RemoteSum(p)
  <2>1. UNCHANGED <<manifest, tmp>> /\ run[p].at = "sum"
    BY <1>5 DEF RemoteSum, Folder
  <2>2. CASE Over(p)
    BY <1>0, <1>1, <2>1, <2>2, OverRecorded
  <2>3. CASE ~Over(p)
    <3>1. /\ Others(p) /\ run'[p].at = "get" /\ run'[p].recs = run[p].recs /\ run'[p].list = run[p].list
          /\ phone[Current(p)] # Absent /\ run'[p].sum = phone[Current(p)] /\ Current(p)' = Current(p)
      BY <1>5, <2>3, SumFields
    <3>2. Current(p) \in Files
      BY <2>1, CurrentPending DEF IInv, PlanHolds, Pulling
    <3>3. run[p].list[Current(p)] <= phone[Current(p)]
      BY <1>0, <2>1, <3>1, <3>2 DEF Listing
    <3> QED
      BY <1>0, <1>1, <2>1, <3>1, <3>2, <3>3, RecordedBy DEF Listing, Checksum
  <2> QED
    BY <2>2, <2>3
<1>6. CASE WriteManifest(p)
  <2>1. UNCHANGED manifest /\ run[p].at \in {"record", "adopted", "first"}
    BY <1>6 DEF WriteManifest
  <2>2. CASE Over(p)
    <3>2. tmp' = new_manifest
      <4>1. CASE tmp' # new_manifest
        <5>1. run' = [run EXCEPT ![p] = [run[p] EXCEPT !.at = IF @ = "record" THEN "save" ELSE IF @ = "adopted" THEN "keep" ELSE "close",
                                   !.recs = IF run[p].at = "first" THEN run[p].recs ELSE Record(p)]]
          BY <1>6, <4>1 DEF WriteManifest, Set
        <5>2. run'[p].at # "idle"
          BY <5>1 DEF IInv, TypeInv, Process
        <5> QED
          BY <2>2, <5>2, OverFields
      <4> QED
        BY <4>1
    <3> QED
      BY <1>0, <1>1, <2>1, <2>2, <3>2, EmptyIsGood, OverRecorded
  <2>3. CASE ~Over(p)
    <3>1. /\ Others(p) /\ run'[p].at \in {"save", "keep", "close"}
          /\ run'[p].recs = IF run[p].at = "first" THEN run[p].recs ELSE Record(p)
          /\ tmp' = [there |-> TRUE, recs |-> run'[p].recs] /\ run'[p].list = run[p].list
      BY <1>6, <2>3, WriteFields
    <3>2. GoodRecs(run'[p].recs) /\ tmp'.recs = run'[p].recs
      BY <1>0, <2>1, <3>1, GoodRecord DEF Summing
    <3> QED
      BY <1>0, <1>1, <2>1, <3>1, <3>2, RecordedBy DEF Listing, Checksum, Summing
  <2> QED
    BY <2>2, <2>3
<1>7. CASE MoveManifest(p)
  <2>1. GoodRecs(manifest'.recs) /\ GoodRecs(tmp'.recs) /\ run[p].at # "idle"
    BY <1>0, <1>7, EmptyIsGood DEF MoveManifest
  <2>2. CASE Over(p)
    BY <1>1, <2>1, <2>2, OverRecorded
  <2>3. CASE ~Over(p)
    <3>1. /\ Others(p) /\ run'[p].at \in {"next", "adopt"} /\ run'[p].list = run[p].list /\ run'[p].recs = run[p].recs
      BY <1>7, <2>3, MoveFields
    <3> QED
      BY <1>0, <1>1, <2>1, <3>1, RecordedBy DEF Listing, Checksum, Summing
  <2> QED
    BY <2>2, <2>3
<1>8. CASE Adopt(p)
  <2>1. UNCHANGED <<manifest, tmp>>
    BY <1>8 DEF Adopt, Folder
  <2>2. CASE Over(p)
    BY <1>0, <1>1, <2>1, <2>2, OverRecorded
  <2>3. CASE ~Over(p)
    <3>1. /\ Others(p) /\ run[p].at = "adopt" /\ Current(p) \in Files
          /\ run'[p].list = run[p].list /\ run'[p].recs = run[p].recs
          /\ \/ run'[p].at = "adopt"
             \/ /\ run'[p].at = "adopted" /\ run'[p].sum = phone[Current(p)]
                /\ phone[Current(p)] # Absent /\ Current(p)' = Current(p)
      BY <1>8, <2>3, AdoptFields
    <3>2. phone[Current(p)] # Absent => run[p].list[Current(p)] <= phone[Current(p)]
      BY <1>0, <3>1 DEF Listing
    <3>3. Listing(p)'
      BY <1>0, <1>1, <3>1 DEF Listing
    <3>4. Checksum(p)'
      BY <3>1, <3>2 DEF Checksum, Summing
    <3> QED
      BY <1>0, <1>1, <2>1, <3>1, <3>3, <3>4, RecordedBy
  <2> QED
    BY <2>2, <2>3
<1>9. CASE NextFile(p) \/ PullBegins(p) \/ PullEnds(p) \/ Verify(p) \/ Publish(p) \/ PullFails(p) \/ Finish(p) \/ Crash(p)
  <2>1. UNCHANGED <<manifest, tmp>> /\ run[p].at # "idle"
    BY <1>9 DEF NextFile, PullBegins, PullEnds, Verify, Publish, PullFails, Finish, Crash, Folder, Active
  <2>2. CASE Over(p)
    BY <1>0, <1>1, <2>1, <2>2, OverRecorded
  <2>3. ASSUME ~Over(p) PROVE \E to : Goto(p, to) /\ (to \in Summing => run[p].at \in Summing)
    BY <1>9, <2>3 DEF NextFile, PullBegins, PullEnds, Verify, Publish, PullFails, Finish, Crash, Summing
  <2> QED
    BY <1>1, <2>1, <2>2, <2>3, GotoRecorded
<1> QED
  BY <1>2, <1>3, <1>4, <1>5, <1>6, <1>7, <1>8, <1>9 DEF Step

LEMMA NextRecorded == IInv /\ Recorded /\ [Next]_vars => Recorded'
<1> SUFFICES ASSUME IInv, Recorded, [Next]_vars PROVE Recorded'
  OBVIOUS
<1>1. ASSUME NEW f \in Files, PhoneEdits(f) \/ FolderEdits(f) PROVE Recorded'
  <2>1. UNCHANGED <<manifest, tmp, run>>
    BY <1>1 DEF PhoneEdits, FolderEdits, Folder
  <2>2. \A g \in Files : phone'[g] = Absent \/ phone[g] = phone'[g] \/ (phone[g] # Absent /\ phone[g] < phone'[g])
    BY <1>1 DEF PhoneEdits, FolderEdits, IInv, TypeInv, Absent
  <2>3. ASSUME NEW p \in Runs PROVE Listing(p)' /\ Checksum(p)'
    <3>1. Listing(p) /\ Checksum(p) /\ Current(p)' = Current(p)
      BY <2>1 DEF Recorded, Current
    <3>2. \A g \in Files : run[p].list[g] \in Nat /\ phone[g] \in Nat /\ phone'[g] \in Nat
      <4>1. phone' \in [Files -> Nat]
        BY <1>1, EditsHold DEF IInv, TypeInv
      <4> QED
        BY <4>1 DEF IInv, TypeInv, Process
    <3> QED
      BY <2>1, <2>2, <3>1, <3>2 DEF Listing, Checksum
  <2> QED
    BY <2>1, <2>3 DEF Recorded
<1>2. CASE UNCHANGED vars
  <2>1. UNCHANGED <<phone, manifest, tmp, run>>
    BY <1>2 DEF vars
  <2> QED
    BY <2>1 DEF Recorded, Listing, Checksum, Current
<1> QED
  BY <1>1, <1>2, StepRecorded DEF Next

\* A step by which p goes from planning to its first file is p's own plan.
LEMMA PlanStep ==
  ASSUME IInv, Next, NEW p \in Runs, run[p].at = "plan", run'[p].at = "next"
  PROVE  Plan(p) /\ ~Over(p)
<1>1. PICK q \in Runs : Step(q) \/ Crash(q)
  <2>1. ASSUME NEW f \in Files, PhoneEdits(f) \/ FolderEdits(f) PROVE FALSE
    BY <2>1 DEF PhoneEdits, FolderEdits, Folder
  <2> QED
    BY <2>1 DEF Next
<1>2. q = p
  <2>1. \E m : Set(q, m)
    BY <1>1, Zenon DEF Step, Crash, Discover, LoadManifest, Plan, NextFile, RemoteSum, PullBegins, PullEnds, Verify,
       Publish, PullFails, WriteManifest, MoveManifest, Adopt, Finish, Goto, Over
  <2> QED
    BY <2>1 DEF Set, IInv, TypeInv
<1>3. ~Over(p)
  BY OverFields
<1>4. ~Crash(p)
  BY <1>3 DEF Crash
<1> QED
  BY <1>1, <1>2, <1>3, <1>4 DEF Step, Discover, LoadManifest, NextFile, RemoteSum, PullBegins, PullEnds, Verify,
     Publish, PullFails, WriteManifest, MoveManifest, Adopt, Finish, Active

\* A file that a run skips as unchanged holds the version that run listed or a later one,
\* whatever crashed, overlapped or was edited before (is_unchanged): a record pairs a
\* listing with a checksum that was read after it, so it never names older bytes.
THEOREM SkippedFilesAreCurrent == Spec => SkippedIsCurrent
<1> DEFINE Skips ==
      \A p \in Runs :
        run[p].at = "plan" /\ run'[p].at = "next" =>
          \A f \in Listed(p) \ (run'[p].pend \union run'[p].untr) : Held(f) >= run[p].list[f]
<1>1. Init => IInv /\ Recorded
  BY InitIInv, InitRecorded
<1>2. IInv /\ Recorded /\ [Next]_vars => (IInv /\ Recorded)'
  BY NextIInv, NextRecorded
<1>3. IInv /\ Recorded /\ [Next]_vars => [Skips]_vars
  <2> SUFFICES ASSUME IInv, Recorded, Next, NEW p \in Runs, run[p].at = "plan", run'[p].at = "next",
                      NEW f \in Listed(p) \ (run'[p].pend \union run'[p].untr)
               PROVE  Held(f) >= run[p].list[f]
    OBVIOUS
  <2>1. Plan(p) /\ ~Over(p)
    BY PlanStep
  <2>2. run'[p].pend \union run'[p].untr = {g \in Listed(p) : ~is_unchanged(p, g)}
    BY <2>1, PlanFields
  <2>3. is_unchanged(p, f) /\ f \in Files
    BY <2>2 DEF Listed
  <2>4. GoodRecs(run[p].recs) /\ run[p].list[f] \in Nat /\ disk[f] \in Int
    BY <2>3 DEF Recorded, IInv, TypeInv, Process
  <2> QED
    BY <2>3, <2>4 DEF is_unchanged, GoodRecs
<1> QED
  BY <1>1, <1>2, <1>3, PTL DEF Spec, SkippedIsCurrent
(***************************************************************************)
(* One run at a time                                                       *)
(*                                                                         *)
(* While no run has crashed and no two have overlapped, what a run knows   *)
(* of the manifest is true, so what it leaves behind is recorded.          *)
(***************************************************************************)
Alone == \A p, q \in Runs : Active(p) /\ Active(q) => p = q

\* A part is the active run's.
Filling == {"filling", "verify", "publish", "unlink"}
PartsOwned == \A f \in Files : part[f] # Absent => \E p \in Runs : run[p].at \in Filling /\ f = Current(p)

\* What a run knows of the manifest is the manifest, but for the record it is saving.
Moving == {"save", "keep", "close"}
Knows(p) ==
  /\ run[p].at \notin {"idle", "load"} =>
       \A f \in Files : (run[p].at \in {"save", "keep"} /\ f = Current(p)) \/ run[p].recs[f] = manifest.recs[f]
  /\ run[p].at \in Moving => tmp.there /\ tmp.recs = run[p].recs
  /\ run[p].at \in {"adopt", "adopted", "keep", "first", "close"} => run[p].pend = {}
  /\ run[p].at \in {"adopted", "keep"} => run[p].untr # {}

\* The file a run records is what it has put there or found there, or another hand has been there.
Holds(p) ==
  /\ run[p].at = "publish" => part[Current(p)] = run[p].sum
  /\ run[p].at \in {"record", "save", "adopted", "keep"} =>
       /\ run[p].list[Current(p)] <= run[p].sum
       /\ Current(p) \in late[p] \/ disk[Current(p)] = run[p].sum
  /\ run[p].at \in {"save", "keep"} =>
       run[p].recs[Current(p)] = <<run[p].list[Current(p)], run[p].sum>>

\* The files a run has done with, or never had to do with, are up to date.
Settled(p) == Listed(p) \ (run[p].kept \union late[p] \union run[p].pend \union run[p].untr)
Settles(p) == run[p].at \notin {"idle", "load", "plan"} => \A f \in Settled(p) : UpToDate(p, f)

\* What a run pulled has a record, or it is the file that is being recorded.
NoOrphan == \A f \in Files :
  disk[f] > 1 => manifest.recs[f] # <<>> \/ \E p \in Runs : run[p].at \in Saving /\ f = Current(p)

Sequential == ~hurt => Alone /\ PartsOwned /\ NoOrphan /\ \A p \in Runs : Knows(p) /\ Holds(p) /\ Settles(p)

\* All of this as the only active run sees it.
PartOf(p) == \A f \in Files : part[f] # Absent => run[p].at \in Filling /\ f = Current(p)
OrphanOf(p) == \A f \in Files : disk[f] > 1 => manifest.recs[f] # <<>> \/ (run[p].at \in Saving /\ f = Current(p))
View(p) == PartOf(p) /\ OrphanOf(p) /\ Knows(p) /\ Holds(p) /\ Settles(p)
OnlyOne(p) == \A q \in Runs : q # p => run[q].at = "idle"

LEMMA InitSequential == Init => Sequential
<1> SUFFICES ASSUME Init PROVE Sequential
  OBVIOUS
<1>1. \A p \in Runs : run[p].at = "idle"
  BY DEF Init, Idle
<1>2. \A f \in Files : part[f] = Absent /\ ~(disk[f] > 1)
  BY DEF Init, Absent, Mine, Link
<1> QED
  BY <1>1, <1>2 DEF Sequential, Alone, Active, PartsOwned, NoOrphan, Knows, Moving, Holds, Settles

LEMMA Sees == ASSUME Sequential, ~hurt, NEW p \in Runs, OnlyOne(p) PROVE View(p)
<1>1. \A q \in Runs : run[q].at \in Filling \union Saving => q = p
  BY DEF OnlyOne, Filling, Saving
<1> QED
  BY <1>1 DEF Sequential, PartsOwned, NoOrphan, View, PartOf, OrphanOf

LEMMA Shows == ASSUME NEW p \in Runs, OnlyOne(p), Others(p), View(p)' PROVE Sequential'
<1>1. \A q \in Runs : q # p => run'[q].at = "idle"
  BY DEF OnlyOne, Others
<1>2. \A q \in Runs : q # p => Knows(q)' /\ Holds(q)' /\ Settles(q)'
  BY <1>1 DEF Knows, Moving, Holds, Settles
<1>3. Alone'
  BY <1>1 DEF Alone, Active
<1> QED
  BY <1>2, <1>3 DEF Sequential, PartsOwned, NoOrphan, View, PartOf, OrphanOf

\* A run that is over leaves nothing of its own.
LEMMA OverView ==
  ASSUME IInv, NEW p \in Runs, Over(p),
         \A f \in Files : part'[f] = Absent /\ (disk'[f] > 1 => manifest'.recs[f] # <<>>)
  PROVE  View(p)'
<1>1. run'[p].at = "idle"
  BY OverFields
<1> QED
  BY <1>1 DEF View, PartOf, OrphanOf, Knows, Moving, Holds, Settles

LEMMA OverQuiet ==
  ASSUME IInv, NEW p \in Runs, View(p), Over(p), UNCHANGED <<disk, part, manifest>>,
         run[p].at \notin Filling \union Saving
  PROVE  View(p)'
<1>1. \A f \in Files : part'[f] = Absent /\ (disk'[f] > 1 => manifest'.recs[f] # <<>>)
  BY DEF View, PartOf, OrphanOf
<1> QED
  BY <1>1, OverView

LEMMA SettlesStay ==
  ASSUME NEW p \in Runs, Settles(p), run[p].at \notin {"idle", "load", "plan"},
         run'[p].list = run[p].list, Settled(p)' \subseteq Settled(p),
         \A f \in Settled(p)' : disk'[f] = disk[f] /\ manifest'.recs[f] = manifest.recs[f]
  PROVE  Settles(p)'
BY DEF Settles, UpToDate, Held, IsLink

LEMMA GotoView ==
  ASSUME IInv, NEW p \in Runs, View(p), NEW to, Goto(p, to), UNCHANGED <<disk, manifest, late>>, PartOf(p)',
         run[p].at \notin {"idle", "load", "plan", "record", "save", "keep"},
         to \notin {"idle", "load", "plan", "record", "save", "adopted", "keep", "close"},
         to = "publish" => part'[Current(p)] = run[p].sum,
         to \in {"adopt", "first"} => run[p].pend = {}
  PROVE  View(p)'
<1>1. /\ run'[p].at = to
      /\ run'[p].list = run[p].list /\ run'[p].recs = run[p].recs /\ run'[p].sum = run[p].sum
      /\ run'[p].pend = run[p].pend /\ run'[p].untr = run[p].untr /\ run'[p].kept = run[p].kept
      /\ Current(p)' = Current(p)
  BY GotoFields
<1>2. OrphanOf(p)'
  BY <1>1 DEF View, OrphanOf, Saving
<1>3. Knows(p)'
  BY <1>1 DEF View, Knows, Moving
<1>4. Holds(p)'
  BY <1>1 DEF View, Holds
<1>5. Settled(p)' = Settled(p)
  BY <1>1 DEF Settled, Listed
<1>6. Settles(p)'
  BY <1>1, <1>5, SettlesStay DEF View
<1> QED
  BY <1>2, <1>3, <1>4, <1>6 DEF View

LEMMA DiscoverView ==
  ASSUME IInv, NEW p \in Runs, View(p), NEW dry \in BOOLEAN, UNCHANGED Folder, run[p].at = "idle",
         Set(p, [Idle EXCEPT !.at = "load", !.dry = dry, !.list = phone])
  PROVE  View(p)' /\ Others(p)
<1>1. run'[p].at = "load" /\ Others(p)
  BY DEF Set, Others, IInv, TypeInv, Idle
<1> QED
  BY <1>1 DEF View, PartOf, OrphanOf, Knows, Moving, Holds, Settles, Folder, Filling, Saving

LEMMA LoadView == ASSUME IInv, NEW p \in Runs, View(p), LoadManifest(p) PROVE View(p)' /\ Others(p)
<1>1. Others(p) /\ run'[p].at = "plan" /\ run'[p].recs = manifest.recs /\ run[p].at = "load" /\ UNCHANGED Folder
  BY LoadFields DEF LoadManifest
<1> QED
  BY <1>1 DEF View, PartOf, OrphanOf, Knows, Moving, Holds, Settles, Folder, Filling, Saving

\* What is skipped has a record of the bytes there, made for the version listed.
LEMMA PlanView ==
  ASSUME IInv, Recorded, NEW p \in Runs, View(p), Plan(p), ~Over(p) PROVE View(p)' /\ Others(p)
<1>1. /\ Others(p) /\ run'[p].at = "next" /\ run'[p].recs = run[p].recs /\ run'[p].list = run[p].list
      /\ run'[p].pend \union run'[p].untr = {f \in Listed(p) : ~is_unchanged(p, f)}
      /\ run[p].at = "plan" /\ UNCHANGED <<disk, part, manifest, tmp, late>>
  BY PlanFields DEF Plan, Folder
<1>2. PartOf(p)' /\ OrphanOf(p)' /\ Knows(p)' /\ Holds(p)'
  BY <1>1 DEF View, PartOf, OrphanOf, Knows, Moving, Holds, Filling, Saving
<1>3. ASSUME NEW f \in Settled(p)' PROVE UpToDate(p, f)'
  <2>1. is_unchanged(p, f) /\ f \in Files
    BY <1>1, <1>3 DEF Settled, Listed
  <2>2. run[p].recs[f] = manifest.recs[f]
    BY <1>1, <2>1 DEF View, Knows
  <2>3. /\ run[p].recs[f] \in Entry /\ run[p].recs[f] # <<>> /\ run[p].recs[f][1] = run[p].list[f]
        /\ run[p].recs[f][2] = Held(f) /\ run[p].recs[f][1] <= run[p].recs[f][2]
    BY <2>1 DEF is_unchanged, Recorded, GoodRecs, IInv, TypeInv, Process
  <2>4. run[p].recs[f] = <<run[p].list[f], Held(f)>> /\ run[p].list[f] \in Nat /\ Held(f) \in Int
    BY <2>1, <2>3 DEF Held, IsLink, Link, Entry, IInv, TypeInv, Process
  <2>5. Held(f) >= run[p].list[f]
    BY <2>3, <2>4
  <2> QED
    BY <1>1, <2>2, <2>4, <2>5 DEF UpToDate, Held, IsLink
<1> QED
  BY <1>1, <1>2, <1>3 DEF View, Settles

LEMMA SumView ==
  ASSUME IInv, NEW p \in Runs, View(p), RemoteSum(p), ~Over(p) PROVE View(p)' /\ Others(p)
<1>1. /\ Others(p) /\ run'[p].at = "get"
      /\ run'[p].list = run[p].list /\ run'[p].recs = run[p].recs
      /\ run'[p].pend = run[p].pend /\ run'[p].untr = run[p].untr /\ run'[p].kept = run[p].kept
      /\ Current(p)' = Current(p) /\ run[p].at = "sum" /\ UNCHANGED <<disk, part, manifest, tmp, late>>
  BY SumFields DEF RemoteSum, Folder
<1>2. PartOf(p)' /\ OrphanOf(p)' /\ Knows(p)' /\ Holds(p)'
  BY <1>1 DEF View, PartOf, OrphanOf, Knows, Moving, Holds, Filling, Saving
<1>3. Settled(p)' = Settled(p)
  BY <1>1 DEF Settled, Listed
<1> QED
  BY <1>1, <1>2, <1>3, SettlesStay DEF View

LEMMA NextFileView == ASSUME IInv, NEW p \in Runs, View(p), NextFile(p) PROVE View(p)' /\ Others(p)
<1>1. run[p].at = "next" /\ UNCHANGED <<disk, part, manifest, tmp, late>> /\ PartOf(p)
  BY DEF NextFile, Folder, View
<1>2. CASE Over(p)
  BY <1>1, <1>2, OverQuiet, OverFields DEF Filling, Saving
<1>3. CASE Goto(p, "sum")
  <2>1. Others(p) /\ PartOf(p)'
    BY <1>1, <1>3, GotoFields DEF PartOf, Filling
  <2> QED
    BY <1>1, <1>3, <2>1, GotoView
<1>4. CASE run[p].pend = {} /\ Goto(p, "adopt")
  <2>1. Others(p) /\ PartOf(p)'
    BY <1>1, <1>4, GotoFields DEF PartOf, Filling
  <2> QED
    BY <1>1, <1>4, <2>1, GotoView
<1> QED
  BY <1>2, <1>3, <1>4 DEF NextFile

LEMMA PullView ==
  ASSUME IInv, NEW p \in Runs, View(p), PullBegins(p) \/ PullEnds(p) \/ Verify(p) \/ PullFails(p)
  PROVE  View(p)' /\ Others(p)
<1>1. UNCHANGED <<disk, manifest, late>> /\ PartOf(p)
  BY DEF PullBegins, PullEnds, Verify, PullFails, Folder, View
<1>2. run[p].at \in Pulling => Current(p) \in Files
  BY CurrentPending DEF IInv, PlanHolds
<1>3. CASE PullBegins(p)
  <2>1. run[p].at = "get" /\ Goto(p, "filling") /\ part' = [part EXCEPT ![Current(p)] = Torn]
    BY <1>3 DEF PullBegins
  <2>2. Others(p) /\ run'[p].at = "filling" /\ Current(p)' = Current(p)
    BY <2>1, GotoFields
  <2>3. PartOf(p)'
    BY <1>1, <2>1, <2>2 DEF PartOf, Filling, IInv, TypeInv
  <2> QED
    BY <1>1, <2>1, <2>2, <2>3, GotoView
<1>4. CASE PullEnds(p)
  <2>1. PICK to \in {"verify", "unlink"} :
          /\ run[p].at = "filling" /\ Goto(p, to)
          /\ part' = part \/ part' = [part EXCEPT ![Current(p)] = phone[Current(p)]]
    BY <1>4 DEF PullEnds
  <2>2. Others(p) /\ run'[p].at = to /\ Current(p)' = Current(p)
    BY <2>1, GotoFields
  <2>3. PartOf(p)'
    BY <1>1, <2>1, <2>2 DEF PartOf, Filling, IInv, TypeInv
  <2> QED
    BY <1>1, <2>1, <2>2, <2>3, GotoView
<1>5. CASE Verify(p)
  <2>1. PICK to \in {"publish", "unlink"} :
          /\ run[p].at = "verify" /\ Goto(p, to) /\ part' = part
          /\ to = "publish" => part[Current(p)] = run[p].sum
    BY <1>5 DEF Verify, Verified, Folder
  <2>2. Others(p) /\ run'[p].at = to /\ Current(p)' = Current(p)
    BY <2>1, GotoFields
  <2>3. PartOf(p)'
    BY <1>1, <2>1, <2>2 DEF PartOf, Filling
  <2> QED
    BY <1>1, <2>1, <2>2, <2>3, GotoView
<1>6. CASE PullFails(p)
  <2>1. run[p].at = "unlink" /\ Over(p) /\ part' = [part EXCEPT ![Current(p)] = Absent]
    BY <1>6 DEF PullFails, Unlink
  <2>2. \A f \in Files : part'[f] = Absent
    BY <1>1, <2>1 DEF PartOf, IInv, TypeInv
  <2>3. \A f \in Files : disk'[f] > 1 => manifest'.recs[f] # <<>>
    BY <1>1, <2>1 DEF View, OrphanOf, Saving
  <2> QED
    BY <2>1, <2>2, <2>3, OverView, OverFields
<1> QED
  BY <1>3, <1>4, <1>5, <1>6

LEMMA PublishView ==
  ASSUME IInv, Recorded, NEW p \in Runs, View(p), Publish(p) PROVE View(p)' /\ Others(p)
<1>1. run[p].at = "publish" /\ Current(p) \in Files /\ Current(p) \in run[p].pend
  BY CurrentPending DEF Publish, IInv, PlanHolds, Pulling
<1>2. CASE Goto(p, "unlink") /\ UNCHANGED <<disk, part, late>>
  <2>1. Others(p) /\ run'[p].at = "unlink" /\ Current(p)' = Current(p) /\ UNCHANGED manifest
    BY <1>2, GotoFields DEF Publish
  <2>2. PartOf(p)'
    BY <1>1, <1>2, <2>1 DEF View, PartOf, Filling
  <2> QED
    BY <1>1, <1>2, <2>1, <2>2, GotoView
<1>3. CASE /\ disk' = [disk EXCEPT ![Current(p)] = part[Current(p)]]
           /\ part' = [part EXCEPT ![Current(p)] = Absent]
           /\ Goto(p, "record") /\ Meanwhile(Current(p), p)
  <2>1. /\ Others(p) /\ run'[p].at = "record"
        /\ run'[p].list = run[p].list /\ run'[p].recs = run[p].recs /\ run'[p].sum = run[p].sum
        /\ run'[p].pend = run[p].pend /\ run'[p].untr = run[p].untr /\ run'[p].kept = run[p].kept
        /\ Current(p)' = Current(p)
    BY <1>3, GotoFields
  <2>2. /\ UNCHANGED <<manifest, tmp>> /\ late'[p] = late[p]
        /\ part[Current(p)] = run[p].sum
    BY <1>1, <1>3 DEF Publish, Meanwhile, View, Holds
  <2>3. PartOf(p)'
    BY <1>1, <1>3 DEF View, PartOf, IInv, TypeInv
  <2>4. OrphanOf(p)'
    BY <1>1, <1>3, <2>1, <2>2 DEF View, OrphanOf, Saving, IInv, TypeInv
  <2>5. Knows(p)'
    BY <1>1, <2>1, <2>2 DEF View, Knows, Moving
  <2>6. Holds(p)'
    BY <1>1, <1>3, <2>1, <2>2 DEF Holds, Recorded, Checksum, Summing, IInv, TypeInv
  <2>7. Settled(p)' = Settled(p) /\ \A f \in Settled(p) : disk'[f] = disk[f]
    BY <1>1, <1>3, <2>1, <2>2 DEF Settled, Listed, IInv, TypeInv
  <2>8. Settles(p)'
    BY <1>1, <2>1, <2>2, <2>7, SettlesStay DEF View
  <2> QED
    BY <2>1, <2>3, <2>4, <2>5, <2>6, <2>8 DEF View
<1> QED
  BY <1>2, <1>3 DEF Publish

\* Only a manifest that could not be written ends a run here, and it leaves a mark.
LEMMA WriteOver == ASSUME IInv, NEW p \in Runs, WriteManifest(p), Over(p) PROVE hurt' = TRUE
<1> DEFINE recs == IF run[p].at = "first" THEN run[p].recs ELSE Record(p)
           to == IF run[p].at = "record" THEN "save" ELSE IF run[p].at = "adopted" THEN "keep" ELSE "close"
<1>1. CASE Set(p, [run[p] EXCEPT !.at = to, !.recs = recs])
  <2>1. run[p] \in Process /\ run'[p] = [run[p] EXCEPT !.at = to, !.recs = recs] /\ to # "idle"
    BY <1>1 DEF Set, IInv, TypeInv
  <2> HIDE DEF recs, to
  <2>2. run'[p].at # "idle"
    BY <2>1 DEF Process
  <2> QED
    BY <2>2, OverFields
<1> QED
  BY <1>1 DEF WriteManifest

LEMMA WriteView ==
  ASSUME IInv, NEW p \in Runs, View(p), WriteManifest(p), ~Over(p) PROVE View(p)' /\ Others(p)
<1>1. /\ Others(p)
      /\ run'[p].at = IF run[p].at = "record" THEN "save" ELSE IF run[p].at = "adopted" THEN "keep" ELSE "close"
      /\ run'[p].recs = IF run[p].at = "first" THEN run[p].recs ELSE Record(p)
      /\ tmp' = [there |-> TRUE, recs |-> run'[p].recs]
      /\ run'[p].list = run[p].list /\ run'[p].sum = run[p].sum
      /\ run'[p].pend = run[p].pend /\ run'[p].untr = run[p].untr /\ run'[p].kept = run[p].kept
      /\ Current(p)' = Current(p)
  BY WriteFields
<1>2. run[p].at \in {"record", "adopted", "first"} /\ UNCHANGED <<disk, part, manifest, late>>
  BY DEF WriteManifest
<1>3. PartOf(p)' /\ OrphanOf(p)'
  BY <1>1, <1>2 DEF View, PartOf, OrphanOf, Filling, Saving
<1>4. run[p].at # "first" => Current(p) \in Files
  <2>1. run[p].at = "record" => Current(p) \in Files
    BY CurrentPending DEF IInv, PlanHolds, Saving
  <2>2. run[p].at = "adopted" => Current(p) \in Files
    BY FirstName DEF Current, View, Knows, IInv, TypeInv, Process
  <2> QED
    BY <1>2, <2>1, <2>2
<1>5. run[p].recs \in [Files -> Entry]
  BY DEF IInv, TypeInv, Process
<1>6. tmp'.there /\ tmp'.recs = run'[p].recs
  BY <1>1
<1>7. Knows(p)'
  BY <1>1, <1>2, <1>4, <1>5, <1>6 DEF View, Knows, Moving, Record
<1>8. Holds(p)'
  BY <1>1, <1>2, <1>4, <1>5 DEF View, Holds, Record
<1>9. Settled(p)' = Settled(p)
  BY <1>1, <1>2 DEF Settled, Listed
<1> QED
  BY <1>1, <1>2, <1>3, <1>7, <1>8, <1>9, SettlesStay DEF View

\* The manifest now says of the current file what the run said of it.
LEMMA MoveView == ASSUME IInv, NEW p \in Runs, View(p), MoveManifest(p) PROVE View(p)' /\ Others(p)
<1>1. run[p].at \in Moving /\ UNCHANGED <<disk, part, late>>
  BY DEF MoveManifest, Moving
<1>2. /\ tmp.there /\ tmp.recs = run[p].recs
      /\ \A f \in Files : (run[p].at # "close" /\ f = Current(p)) \/ run[p].recs[f] = manifest.recs[f]
  BY <1>1 DEF View, Knows, Moving
<1>3. manifest' = tmp /\ Set(p, Done(p))
  BY <1>2 DEF MoveManifest
<1>4. CASE Over(p)
  <2>1. run[p].at = "close"
    <3>1. CASE run[p].at = "save"
      <4> DEFINE rest == run[p].pend \ {Current(p)}
      <4>1. run[p] \in Process /\ run'[p] = [run[p] EXCEPT !.at = "next", !.pend = rest]
        BY <1>3, <3>1 DEF Set, Done, IInv, TypeInv
      <4> HIDE DEF rest
      <4>2. run'[p].at = "next"
        BY <4>1 DEF Process
      <4> QED
        BY <1>4, <4>2, OverFields
    <3>2. CASE run[p].at = "keep"
      <4> DEFINE rest == run[p].untr \ {Current(p)}
      <4>1. run[p] \in Process /\ run'[p] = [run[p] EXCEPT !.at = "adopt", !.untr = rest]
        BY <1>3, <3>2 DEF Set, Done, IInv, TypeInv
      <4> HIDE DEF rest
      <4>2. run'[p].at = "adopt"
        BY <4>1 DEF Process
      <4> QED
        BY <1>4, <4>2, OverFields
    <3> QED
      BY <1>1, <3>1, <3>2 DEF Moving
  <2>2. \A f \in Files : part'[f] = Absent /\ (disk'[f] > 1 => manifest'.recs[f] # <<>>)
    BY <1>1, <1>2, <1>3, <2>1 DEF View, PartOf, OrphanOf, Filling, Saving
  <2> QED
    BY <1>4, <2>2, OverView, OverFields
<1>5. CASE ~Over(p)
  <2> DEFINE f == Current(p)
  <2>1. /\ Others(p) /\ run[p].at \in {"save", "keep"}
        /\ run'[p].at = IF run[p].at = "save" THEN "next" ELSE "adopt"
        /\ run'[p].list = run[p].list /\ run'[p].recs = run[p].recs /\ run'[p].kept = run[p].kept
        /\ run'[p].pend = IF run[p].at = "save" THEN run[p].pend \ {f} ELSE run[p].pend
        /\ run'[p].untr = IF run[p].at = "save" THEN run[p].untr ELSE run[p].untr \ {f}
    BY <1>5, MoveFields
  <2>2. /\ run[p].list[f] <= run[p].sum /\ (f \in late[p] \/ disk[f] = run[p].sum)
        /\ run[p].recs[f] = <<run[p].list[f], run[p].sum>>
    BY <2>1 DEF View, Holds
  <2>3. manifest'.recs = run[p].recs /\ \A g \in Files : g = f \/ manifest'.recs[g] = manifest.recs[g]
    BY <1>2, <1>3
  <2>4. PartOf(p)'
    BY <1>1, <2>1 DEF View, PartOf, Filling
  <2>5. OrphanOf(p)'
    <3>1. <<run[p].list[f], run[p].sum>> # <<>>
      OBVIOUS
    <3> QED
      BY <1>1, <2>1, <2>2, <2>3, <3>1 DEF View, OrphanOf, Saving
  <2>6. Knows(p)'
    BY <1>1, <2>1, <2>3 DEF View, Knows, Moving
  <2>7. Holds(p)'
    BY <2>1 DEF Holds
  <2>8. ASSUME NEW g \in Settled(p)' PROVE UpToDate(p, g)'
    <3>1. g \in Files /\ run[p].list[g] \in Nat /\ disk[g] \in Int
      BY <2>8, <2>1 DEF Settled, Listed, IInv, TypeInv, Process
    <3>2. CASE g = f
      <4>1. g \notin late[p]
        BY <2>8, <1>1 DEF Settled
      <4>2. disk[g] = run[p].sum /\ run[p].sum \in Nat
        BY <2>2, <3>2, <4>1 DEF IInv, TypeInv, Process
      <4>3. Held(g)' = run[p].sum
        BY <1>1, <4>2 DEF Held, IsLink, Link
      <4> QED
        BY <1>1, <2>1, <2>2, <2>3, <3>1, <3>2, <4>3 DEF UpToDate
    <3>3. CASE g # f
      <4>1. g \in Settled(p)
        BY <2>8, <1>1, <2>1, <3>3 DEF Settled, Listed
      <4> QED
        BY <1>1, <2>1, <2>3, <3>1, <3>3, <4>1 DEF View, Settles, UpToDate, Held, IsLink
    <3> QED
      BY <3>2, <3>3
  <2> QED
    BY <2>1, <2>4, <2>5, <2>6, <2>7, <2>8 DEF View, Settles
<1> QED
  BY <1>4, <1>5

LEMMA AdoptView ==
  ASSUME IInv, Recorded, NEW p \in Runs, View(p), Adopt(p), ~Over(p) PROVE View(p)' /\ Others(p)
<1>1. /\ Others(p) /\ run[p].at = "adopt" /\ run[p].untr # {} /\ Current(p) \in Files
      /\ run'[p].list = run[p].list /\ run'[p].recs = run[p].recs /\ run'[p].pend = run[p].pend
  BY AdoptFields
<1>2. UNCHANGED <<disk, part, manifest, tmp, late>>
  BY DEF Adopt, Folder
<1>3. CASE /\ run'[p].at = "adopt"
           /\ run'[p].untr = run[p].untr \ {Current(p)} /\ run'[p].kept = run[p].kept \union {Current(p)}
  <2>1. PartOf(p)' /\ OrphanOf(p)' /\ Knows(p)' /\ Holds(p)'
    BY <1>1, <1>2, <1>3 DEF View, PartOf, OrphanOf, Knows, Moving, Holds, Filling, Saving
  <2>2. Settled(p)' \subseteq Settled(p)
    BY <1>1, <1>2, <1>3 DEF Settled, Listed
  <2> QED
    BY <1>1, <1>2, <2>1, <2>2, SettlesStay DEF View
<1>4. CASE /\ run'[p].at = "adopted" /\ run'[p].sum = phone[Current(p)]
           /\ phone[Current(p)] # Absent /\ disk[Current(p)] = phone[Current(p)]
           /\ run'[p].untr = run[p].untr /\ run'[p].kept = run[p].kept
           /\ Current(p)' = Current(p)
  <2>1. PartOf(p)' /\ OrphanOf(p)' /\ Knows(p)'
    BY <1>1, <1>2, <1>4 DEF View, PartOf, OrphanOf, Knows, Moving, Filling, Saving
  <2>2. run[p].list[Current(p)] <= phone[Current(p)]
    BY <1>1, <1>4 DEF Recorded, Listing
  <2>3. Holds(p)'
    BY <1>1, <1>2, <1>4, <2>2 DEF Holds
  <2>4. Settled(p)' = Settled(p)
    BY <1>1, <1>2, <1>4 DEF Settled, Listed
  <2> QED
    BY <1>1, <1>2, <2>1, <2>3, <2>4, SettlesStay DEF View
<1> QED
  BY <1>3, <1>4, AdoptFields

LEMMA FinishView == ASSUME IInv, NEW p \in Runs, View(p), Finish(p) PROVE View(p)' /\ Others(p)
<1>1. run[p].at = "adopt" /\ UNCHANGED <<disk, part, manifest, tmp, late>> /\ PartOf(p) /\ run[p].pend = {}
  BY DEF Finish, Folder, View, Knows
<1>2. CASE Over(p)
  BY <1>1, <1>2, OverQuiet, OverFields DEF Filling, Saving
<1>3. CASE Goto(p, "first")
  <2>1. Others(p) /\ PartOf(p)'
    BY <1>1, <1>3, GotoFields DEF PartOf, Filling
  <2> QED
    BY <1>1, <1>3, <2>1, GotoView
<1> QED
  BY <1>2, <1>3 DEF Finish

\* A step that touches nothing of the folder and of the runs under way.
LEMMA KeptAlone ==
  ASSUME Sequential, UNCHANGED <<Folder, hurt>>,
         \A p \in Runs : \/ run'[p] = run[p] /\ late'[p] = late[p]
                         \/ run[p].at = "idle" /\ run'[p].at = "idle"
  PROVE  Sequential'
<1> SUFFICES ASSUME ~hurt' PROVE Sequential'
  BY DEF Sequential
<1>1. ~hurt /\ UNCHANGED <<disk, part, manifest, tmp>>
  BY DEF Folder
<1>2. \A p \in Runs : run'[p].at = run[p].at
  OBVIOUS
<1>3. ASSUME NEW p \in Runs PROVE Knows(p)' /\ Holds(p)' /\ Settles(p)'
  <2>1. CASE run'[p].at = "idle"
    BY <2>1 DEF Knows, Moving, Holds, Settles
  <2>2. CASE run'[p].at # "idle"
    <3>1. run'[p] = run[p] /\ late'[p] = late[p]
      BY <2>2
    <3>2. Current(p)' = Current(p) /\ Listed(p)' = Listed(p)
      BY <3>1 DEF Current, Listed
    <3>3. Settled(p)' = Settled(p)
      BY <3>1, <3>2 DEF Settled
    <3>4. Knows(p) /\ Holds(p) /\ Settles(p)
      BY <1>1 DEF Sequential
    <3>5. Knows(p)' /\ Holds(p)'
      BY <1>1, <3>1, <3>2, <3>4 DEF Knows, Holds
    <3> QED
      BY <1>1, <3>1, <3>3, <3>4, <3>5 DEF Settles, UpToDate, Held, IsLink
  <2> QED
    BY <2>1, <2>2
<1>4. Alone'
  BY <1>1, <1>2 DEF Sequential, Alone, Active
<1>5. \A p \in Runs : run[p].at # "idle" => Current(p)' = Current(p)
  BY DEF Current
<1>6. PartsOwned'
  BY <1>1, <1>2, <1>5 DEF Sequential, PartsOwned, Filling
<1>7. NoOrphan'
  BY <1>1, <1>2, <1>5 DEF Sequential, NoOrphan, Saving
<1> QED
  BY <1>3, <1>4, <1>6, <1>7 DEF Sequential

LEMMA DiscoverAlone == ASSUME IInv, Sequential, NEW p \in Runs, Discover(p) PROVE Sequential'
<1>1. run[p].at = "idle" /\ UNCHANGED Folder
  BY DEF Discover, Active
<1>2. CASE Over(p) /\ UNCHANGED hurt
  <2>1. Others(p) /\ run'[p].at = "idle" /\ \A q \in Runs : q # p => late'[q] = late[q]
    BY <1>2, OverFields DEF Discover, IInv, TypeInv
  <2> QED
    BY <1>1, <1>2, <2>1, KeptAlone DEF Others
<1>3. ASSUME NEW dry \in BOOLEAN, Set(p, [Idle EXCEPT !.at = "load", !.dry = dry, !.list = phone]),
             hurt' = (hurt \/ \E q \in Runs : Active(q))
      PROVE  Sequential'
  <2>1. CASE hurt'
    BY <2>1 DEF Sequential
  <2>2. CASE ~hurt'
    <3>1. ~hurt /\ OnlyOne(p)
      BY <1>3, <2>2 DEF OnlyOne, Active
    <3> QED
      BY <1>1, <1>3, <3>1, Sees, Shows, DiscoverView
  <2> QED
    BY <2>1, <2>2
<1> QED
  BY <1>2, <1>3 DEF Discover

LEMMA StepAlone ==
  ASSUME IInv, Recorded, Sequential, NEW p \in Runs, Step(p) \/ Crash(p)
  PROVE  Sequential'
<1>1. CASE hurt'
  BY <1>1 DEF Sequential
<1>2. CASE Discover(p)
  BY <1>2, DiscoverAlone
<1>3. CASE ~hurt' /\ ~Discover(p)
  <2>1. ~Crash(p)
    BY <1>3 DEF Crash
  <2>2. Active(p) /\ ~hurt
    BY <1>3, <2>1 DEF Step, LoadManifest, Plan, NextFile, RemoteSum, PullBegins, PullEnds, Verify, Publish,
       PullFails, WriteManifest, MoveManifest, Adopt, Finish, Active
  <2>3. OnlyOne(p)
    BY <2>2 DEF Sequential, Alone, Active, OnlyOne
  <2>4. View(p)
    BY <2>2, <2>3, Sees
  <2>5. CASE LoadManifest(p) \/ NextFile(p) \/ PullBegins(p) \/ PullEnds(p) \/ Verify(p) \/ PullFails(p)
             \/ Publish(p) \/ MoveManifest(p) \/ Finish(p)
    <3>1. View(p)' /\ Others(p)
      BY <2>4, <2>5, LoadView, NextFileView, PullView, PublishView, MoveView, FinishView
    <3> QED
      BY <2>3, <3>1, Shows
  <2>6. CASE (Plan(p) \/ RemoteSum(p) \/ Adopt(p)) /\ Over(p)
    <3>1. UNCHANGED <<disk, part, manifest>> /\ run[p].at \notin Filling \union Saving
      BY <2>6 DEF Plan, RemoteSum, Adopt, Folder, Filling, Saving
    <3> QED
      BY <2>3, <2>4, <2>6, <3>1, OverQuiet, OverFields, Shows
  <2>7. CASE (Plan(p) \/ RemoteSum(p) \/ Adopt(p) \/ WriteManifest(p)) /\ ~Over(p)
    <3>1. View(p)' /\ Others(p)
      BY <2>4, <2>7, PlanView, SumView, AdoptView, WriteView
    <3> QED
      BY <2>3, <3>1, Shows
  <2>8. CASE WriteManifest(p) /\ Over(p)
    BY <1>3, <2>8, WriteOver
  <2> QED
    BY <1>3, <2>1, <2>5, <2>6, <2>7, <2>8 DEF Step
<1> QED
  BY <1>1, <1>2, <1>3

\* The folder's owner puts nothing there that a backup would have pulled.
LEMMA FolderEditAlone == ASSUME IInv, Sequential, NEW f \in Files, FolderEdits(f) PROVE Sequential'
<1> SUFFICES ASSUME ~hurt' PROVE Sequential'
  BY DEF Sequential
<1>1. ~hurt /\ UNCHANGED <<part, manifest, tmp, run>> /\ \A p \in Runs : Current(p)' = Current(p)
  BY DEF FolderEdits, Current
<1>2. PICK what \in {Mine, Link} \union {Link - v : v \in {disk[f]} \intersect Versions} :
             disk' = [disk EXCEPT ![f] = what]
  BY DEF FolderEdits
<1>3. \A g \in Files : disk'[g] > 1 => disk'[g] = disk[g]
  <2>1. what \in Int /\ ~(what > 1)
    BY DEF Mine, Link, Versions, IInv, TypeInv
  <2> QED
    BY <1>2, <2>1 DEF IInv, TypeInv
<1>4. ASSUME NEW p \in Runs PROVE Knows(p)' /\ Holds(p)' /\ Settles(p)'
  <2>1. Knows(p) /\ Holds(p) /\ Settles(p)
    BY <1>1 DEF Sequential
  <2>2. run[p].at \notin {"idle", "load", "plan"} => late'[p] = late[p] \union {f}
    BY DEF FolderEdits
  <2>3. Knows(p)'
    BY <1>1, <2>1 DEF Knows
  <2>4. Holds(p)'
    <3>1. run[p].at \in {"record", "save", "adopted", "keep"} => Current(p) \in Files
      <4>1. run[p].at \in Saving => Current(p) \in Files
        BY CurrentPending DEF IInv, PlanHolds
      <4>2. run[p].at \in {"adopted", "keep"} => Current(p) \in Files
        BY <2>1, FirstName DEF Current, Knows, IInv, TypeInv, Process
      <4> QED
        BY <4>1, <4>2 DEF Saving
    <3>2. run[p].at \in {"record", "save", "adopted", "keep"} =>
             Current(p) \in late'[p] \/ disk'[Current(p)] = disk[Current(p)]
      BY <1>2, <2>2, <3>1 DEF IInv, TypeInv
    <3>3. run[p].at \in {"record", "save", "adopted", "keep"} => late[p] \subseteq late'[p]
      BY <2>2
    <3> QED
      BY <1>1, <2>1, <3>2, <3>3 DEF Holds
  <2>5. run[p].at \notin {"idle", "load", "plan"} => Settles(p)'
    <3> SUFFICES ASSUME run[p].at \notin {"idle", "load", "plan"} PROVE Settles(p)'
      OBVIOUS
    <3>1. Listed(p)' = Listed(p) /\ Listed(p) \subseteq Files
      BY <1>1 DEF Listed
    <3>2. Settled(p)' \subseteq Settled(p) /\ f \notin Settled(p)'
      BY <1>1, <2>2, <3>1 DEF Settled
    <3>3. \A g \in Settled(p)' : disk'[g] = disk[g]
      BY <1>2, <3>1, <3>2 DEF Settled, IInv, TypeInv
    <3> QED
      BY <1>1, <2>1, <3>2, <3>3, SettlesStay
  <2> QED
    BY <1>1, <2>3, <2>4, <2>5 DEF Settles
<1>5. Alone' /\ PartsOwned' /\ NoOrphan'
  BY <1>1, <1>3 DEF Sequential, Alone, Active, PartsOwned, NoOrphan
<1> QED
  BY <1>4, <1>5 DEF Sequential

LEMMA NextAlone == IInv /\ Recorded /\ Sequential /\ [Next]_vars => Sequential'
<1> SUFFICES ASSUME IInv, Recorded, Sequential, [Next]_vars PROVE Sequential'
  OBVIOUS
<1>1. ASSUME NEW f \in Files, PhoneEdits(f) PROVE Sequential'
  BY <1>1, KeptAlone DEF PhoneEdits
<1>2. CASE UNCHANGED vars
  BY <1>2, KeptAlone DEF vars, Folder
<1> QED
  BY <1>1, <1>2, StepAlone, FolderEditAlone DEF Next

LEMMA SequentialAlways == Spec => [](IInv /\ Sequential)
<1>1. Init => IInv /\ Recorded /\ Sequential
  BY InitIInv, InitRecorded, InitSequential
<1>2. IInv /\ Recorded /\ Sequential /\ [Next]_vars => (IInv /\ Recorded /\ Sequential)'
  BY NextIInv, NextRecorded, NextAlone
<1> QED
  BY <1>1, <1>2, PTL DEF Spec

\* A run that gets to its end has, of each file it listed, the version listed or a later
\* one, with the record by which the next run skips it, but for the files it reports as
\* preserved, unless a crash, an overlap or another hand came in between
\* (_backup_selected): what is settled stays so from the plan on.
THEOREM EndsComplete == Spec => []CompleteAtEnd
<1>1. IInv /\ Sequential => CompleteAtEnd
  BY DEF Sequential, CompleteAtEnd, Knows, Settles, Settled
<1> QED
  BY <1>1, SequentialAlways, PTL

\* When no run is active, what a run put in the folder has a record and no part is left,
\* however the runs ended, unless one crashed, failed to save, or two overlapped
\* (save_manifest after each file).
THEOREM OrphansNothing == Spec => []NothingOrphaned
<1>1. IInv /\ Sequential => NothingOrphaned
  <2> SUFFICES ASSUME Sequential, ~hurt, \A p \in Runs : ~Active(p)
               PROVE  \A f \in Files : part[f] = Absent /\ (disk[f] > 1 => manifest.recs[f] # <<>>)
    BY DEF NothingOrphaned
  <2>1. \A p \in Runs : run[p].at \notin Filling \union Saving
    BY DEF Active, Filling, Saving
  <2> QED
    BY <2>1 DEF Sequential, PartsOwned, NoOrphan
<1> QED
  BY <1>1, SequentialAlways, PTL
=============================================================================
