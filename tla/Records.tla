------------------------------ MODULE Records ------------------------------
(***************************************************************************)
(* The two files that are read, changed and saved whole without a lock:    *)
(* clients.json (src/linkplane/clients.py), written through one temporary  *)
(* name, and the rules file (src/linkplane/presets.py), written through a  *)
(* temporary of its own; and the daemon's cache of clients.json            *)
(* (ClientStore of src/linkplane/api/server.py).                           *)
(*                                                                         *)
(* A client is its id and its token, which is named by the command that    *)
(* made it.  desk.tick is the clock that modification times are read from: *)
(* two saves may fall into one tick.                                       *)
(***************************************************************************)
EXTENDS Commands

CONSTANTS Ids, Devices, Folders, NoFile

RecordRequests ==
  [op : {"create", "revoke"}, id : Ids]
  \union [op : {"enable"}, device : Devices, folder : Folders, dry : BOOLEAN]
  \union [op : {"disable"}, device : Devices, dry : BOOLEAN]
  \union [op : {"request"}, token : Commands]

\* Another command has read the file and not yet saved it.
Racing(c, file) == \E d \in Commands \ {c} : at[d] \in {"write", "move", "store"} /\ req[d].op \in file
Clients == {"create", "revoke"}
Rules == {"enable", "disable"}

(***************************************************************************)
(* clients.json                                                            *)
(***************************************************************************)
Holders(id) == {r \in desk.clients.all : r.id = id}

\* The file is read; one that cannot be is an error.
ClientRead(c, all) ==
  /\ Goto(c, "start", "write")
  /\ memo' = [memo EXCEPT ![c] = <<[was |-> desk.clients.all, all |-> all]>>]
  /\ desk' = [desk EXCEPT !.raced = @ \/ Racing(c, Clients)]

CreateStart(c) ==
  /\ req[c].op = "create"
  /\ \/ Answer(c, "start", "invalid") /\ UNCHANGED <<memo, desk>>
     \/ Holders(req[c].id) # {} /\ Answer(c, "start", "conflict") /\ UNCHANGED <<memo, desk>>
     \/ /\ Holders(req[c].id) = {}
        /\ ClientRead(c, desk.clients.all \union {[id |-> req[c].id, token |-> c]})
  /\ UNCHANGED phone

RevokeStart(c) ==
  /\ req[c].op = "revoke"
  /\ \/ Answer(c, "start", "invalid") /\ UNCHANGED <<memo, desk>>
     \/ Holders(req[c].id) = {} /\ Answer(c, "start", "not_found") /\ UNCHANGED <<memo, desk>>
     \/ Holders(req[c].id) # {} /\ ClientRead(c, desk.clients.all \ Holders(req[c].id))
  /\ UNCHANGED phone

\* _save: the shared temporary, then the rename; an OSError is raised as it is.
ClientWrite(c) ==
  /\ req[c].op \in Clients
  /\ \/ Goto(c, "write", "move") /\ desk' = [desk EXCEPT !.temporary = memo[c][1].all]
     \/ Answer(c, "write", "raised") /\ UNCHANGED desk
  /\ UNCHANGED <<memo, phone>>

ClientMove(c) ==
  /\ req[c].op \in Clients /\ at[c] = "move"
  /\ \/ Answer(c, "move", "raised") /\ UNCHANGED desk
     \/ /\ desk.temporary # NoFile
        /\ Answer(c, "move", "success")
        /\ desk' = [desk EXCEPT !.clients = [all |-> desk.temporary, mtime |-> desk.tick],
                                !.temporary = NoFile,
                                !.sameTick = @ \/ desk.clients.mtime = desk.tick,
                                !.revoked = @ \union (IF req[c].op = "revoke" THEN memo[c][1].was \ memo[c][1].all ELSE {})]
  /\ UNCHANGED <<memo, phone>>

(***************************************************************************)
(* ClientStore, and the authentication of a request                        *)
(***************************************************************************)
Stat(c) ==
  /\ req[c].op = "request" /\ Goto(c, "start", "look")
  /\ memo' = [memo EXCEPT ![c] = <<[mtime |-> desk.clients.mtime, revoked |-> desk.revoked]>>]
  /\ UNCHANGED <<phone, desk>>

Stale_First(c) == desk.cache.mtime = 0 /\ memo[c][1].mtime # 0  \* mutant: the file is read once
Stale(c) == memo[c][1].mtime # desk.cache.mtime

\* Under the store's lock: the file is read again when its time has changed.
Authenticate(c) ==
  LET fresh == IF Stale(c) THEN [all |-> desk.clients.all, mtime |-> memo[c][1].mtime] ELSE desk.cache
  IN /\ req[c].op = "request" /\ at[c] = "look"
     /\ desk' = [desk EXCEPT !.cache = fresh]
     /\ Answer(c, "look", IF \E r \in fresh.all : r.token = req[c].token THEN "accepted" ELSE "refused")
     /\ UNCHANGED <<memo, phone>>

(***************************************************************************)
(* The rules file                                                          *)
(***************************************************************************)
\* A device's rule is absent, or has a folder and is on or off.
NoRule == [folder |-> NoFile, on |-> FALSE]
Rule(device) == desk.rules[device]

\* The file has been read and the device's rule would become `rule`.
RulesRead(c, rule) ==
  LET same == rule = Rule(req[c].device) \/ req[c].dry IN
    \/ same /\ Answer(c, "start", "success") /\ UNCHANGED <<memo, desk>>
    \/ /\ ~same /\ Goto(c, "start", "store")
       /\ memo' = [memo EXCEPT ![c] = <<[desk.rules EXCEPT ![req[c].device] = rule]>>]
       /\ desk' = [desk EXCEPT !.raced = @ \/ Racing(c, Rules)]

\* enable_photo_backup: a folder belongs to one device.
Enable(c) ==
  LET taken == \E d \in Devices \ {req[c].device} : Rule(d).folder = req[c].folder
  IN /\ req[c].op = "enable"
     /\ \/ Answer(c, "start", "invalid") /\ UNCHANGED <<memo, desk>>  \* the file, or the folder
        \/ taken /\ Answer(c, "start", "invalid") /\ UNCHANGED <<memo, desk>>
        \/ ~taken /\ RulesRead(c, [folder |-> req[c].folder, on |-> TRUE])
     /\ UNCHANGED phone

Disable(c) ==
  /\ req[c].op = "disable"
  /\ \/ Answer(c, "start", "invalid") /\ UNCHANGED <<memo, desk>>
     \/ Rule(req[c].device) # NoRule /\ RulesRead(c, [Rule(req[c].device) EXCEPT !.on = FALSE])
  /\ UNCHANGED phone

\* _write_rules_file: the whole file, through a temporary of its own.
StoreRules(c) ==
  /\ req[c].op \in Rules
  /\ \/ Answer(c, "store", "unwritable") /\ UNCHANGED desk
     \/ Answer(c, "store", "success") /\ desk' = [desk EXCEPT !.rules = Head(memo[c])]
  /\ UNCHANGED <<memo, phone>>

RecordStep(c) ==
  \/ CreateStart(c) \/ RevokeStart(c) \/ ClientWrite(c) \/ ClientMove(c) \/ Stat(c) \/ Authenticate(c)
  \/ Enable(c) \/ Disable(c) \/ StoreRules(c)

Ticks ==
  /\ desk.tick < desk.ticks
  /\ desk' = [desk EXCEPT !.tick = @ + 1]
  /\ UNCHANGED <<req, at, reply, memo, phone>>
=============================================================================
