---------------------------- MODULE EventStream ----------------------------
(***************************************************************************)
(* The path of an event from the observer to the clients of the daemon:    *)
(* HistoryWriter (history.py), Daemon._sink and the subscriber list        *)
(* (daemon.py), and ApiHandler.stream_events (api/server.py), with the end *)
(* of the daemon, which must reach every stream, and its death, after      *)
(* which HistoryWriter resumes the sequence from the file.                 *)
(*                                                                         *)
(* Two threads call the sink: the tracker's pump and the main loop, whose  *)
(* last event is observer.stopped.  An event is its sequence number, its   *)
(* kind (what subscribers filter on) and an identity `id` that the code    *)
(* does not have, by which the properties tell two events apart.           *)
(*                                                                         *)
(* `self._seq += 1` and the reading of the new value are one step: CPython *)
(* 3.11 switches threads only at calls and jumps, and there is none in     *)
(* between.  A line of the file is complete or absent: a crash in the      *)
(* middle of a write leaves a fragment that the next HistoryWriter closes  *)
(* with a newline and every reader skips.  Client-side filters by device   *)
(* and frames other than events are left out.                              *)
(***************************************************************************)
EXTENDS Integers, Sequences, FiniteSets, SequencesExt

CONSTANTS
  Tracker, Main,  \* the two threads that produce events
  Clients,        \* each streams over HTTP or subscribes over the control socket
  Kinds,          \* event types other than observer.stopped
  Wanted,         \* the types every client asks for
  QueueSize,      \* maxsize of a subscriber's queue: 1000 in the code
  MaxStreams,     \* MAX_STREAMS
  MaxEvents,      \* bound on the number of events produced
  MaxConnects,    \* bound on the connections of one client
  MaxCrashes      \* bound on the number of times the process dies

Producers == {Tracker, Main}
Stopped == "observer.stopped"
None == -1
Sentinel == [seq |-> None, kind |-> "end", id |-> 0]

ASSUME StreamAssumption ==
  /\ Tracker # Main
  /\ {QueueSize, MaxStreams, MaxEvents, MaxConnects, MaxCrashes} \subseteq Nat
  /\ QueueSize > 0

VARIABLES
  seq,        \* HistoryWriter._seq
  lines,      \* the events in the history file, in file order
  made,       \* the number of events produced
  pc,         \* pc[p]: "idle", "stamped", "written" or "offering"
  cur,        \* cur[p]: the event producer p carries through the sink
  targets,    \* targets[p]: the subscribers p has still to offer it to
  phase,      \* the daemon: "up", "stopped", "closed", "closing"
  subs,       \* _subscribers
  queue,      \* queue[c]: the subscriber's queue
  conn,       \* conn[c]: "off", "open", "replay", "live", "socket" or "ended"
  after,      \* after[c]: the cursor of the request, None without one
  lastSent,   \* lastSent[c]: the dedup cursor of the connection
  pos,        \* pos[c]: how many lines of the file the replay has read
  got,        \* got[c]: the events written on the current connection
  received,   \* received[c]: what the client kept over all its connections
  connects,   \* connects[c]: how often the client connected
  crashes,
  overlapped, \* history: the two producers were in the sink at once
  dropped     \* history: dropped[c], a full queue refused an event

prodVars == <<seq, lines, made, pc, cur, targets, overlapped>>
connVars == <<conn, after, lastSent, pos, got, received, connects>>
vars == <<prodVars, connVars, phase, subs, queue, crashes, dropped>>

NoEvent == Sentinel

Init ==
  /\ seq = 0
  /\ lines = <<>>
  /\ made = 0
  /\ pc = [p \in Producers |-> "idle"]
  /\ cur = [p \in Producers |-> NoEvent]
  /\ targets = [p \in Producers |-> {}]
  /\ phase = "up"
  /\ subs = {}
  /\ queue = [c \in Clients |-> <<>>]
  /\ conn = [c \in Clients |-> "off"]
  /\ after = [c \in Clients |-> None]
  /\ lastSent = [c \in Clients |-> None]
  /\ pos = [c \in Clients |-> 0]
  /\ got = [c \in Clients |-> <<>>]
  /\ received = [c \in Clients |-> {}]
  /\ connects = [c \in Clients |-> 0]
  /\ crashes = 0
  /\ overlapped = FALSE
  /\ dropped = [c \in Clients |-> FALSE]

(***************************************************************************)
(* The sink                                                                *)
(***************************************************************************)
Other(p) == IF p = Main THEN Tracker ELSE Main

\* HistoryWriter.append takes the next number.
Stamp(p, kind) ==
  /\ pc[p] = "idle"
  /\ made < MaxEvents
  /\ made' = made + 1
  /\ seq' = seq + 1
  /\ cur' = [cur EXCEPT ![p] = [seq |-> seq', kind |-> kind, id |-> made']]
  /\ pc' = [pc EXCEPT ![p] = "stamped"]
  /\ overlapped' = (overlapped \/ pc[Other(p)] # "idle")
  /\ UNCHANGED <<lines, targets, connVars, phase, subs, queue, crashes, dropped>>

\* The tracker produces as long as the pump runs; the main loop until the stop.
Observe(p) ==
  /\ p = Main => phase = "up"
  /\ \E kind \in Kinds : Stamp(p, kind)

\* The line is written, flushed and synced.
Write(p) ==
  /\ pc[p] = "stamped"
  /\ lines' = Append(lines, cur[p])
  /\ pc' = [pc EXCEPT ![p] = "written"]
  /\ UNCHANGED <<seq, made, cur, targets, overlapped, connVars, phase, subs, queue, crashes, dropped>>

\* The subscribers are copied under their lock.
ListSubscribers(p) ==
  /\ pc[p] = "written"
  /\ targets' = [targets EXCEPT ![p] = {c \in subs : cur[p].kind \in Wanted}]
  /\ pc' = [pc EXCEPT ![p] = "offering"]
  /\ UNCHANGED <<seq, lines, made, cur, overlapped, connVars, phase, subs, queue, crashes, dropped>>

\* Subscriber.offer: a full queue drops the item.
Offered(c, e) == IF Len(queue[c]) < QueueSize THEN Append(queue[c], e) ELSE queue[c]

Offer(p) ==
  /\ pc[p] = "offering"
  /\ \E c \in targets[p] :
       /\ queue' = [queue EXCEPT ![c] = Offered(c, cur[p])]
       /\ dropped' = [dropped EXCEPT ![c] = @ \/ Len(queue[c]) >= QueueSize]
       /\ targets' = [targets EXCEPT ![p] = @ \ {c}]
  /\ UNCHANGED <<seq, lines, made, pc, cur, overlapped, connVars, phase, subs, crashes>>

SinkReturns(p) ==
  /\ pc[p] = "offering" /\ targets[p] = {}
  /\ pc' = [pc EXCEPT ![p] = "idle"]
  /\ cur' = [cur EXCEPT ![p] = NoEvent]
  /\ UNCHANGED <<seq, lines, made, targets, overlapped, connVars, phase, subs, queue, crashes, dropped>>

(***************************************************************************)
(* The end of the daemon                                                   *)
(***************************************************************************)

\* Observer.run joins the tracker for at most 3 s, then sinks observer.stopped.
ObserverStops ==
  /\ phase = "up"
  /\ phase' = "stopped"
  /\ made' = made + 1
  /\ seq' = seq + 1
  /\ pc[Main] = "idle"
  /\ cur' = [cur EXCEPT ![Main] = [seq |-> seq', kind |-> Stopped, id |-> made']]
  /\ pc' = [pc EXCEPT ![Main] = "stamped"]
  /\ overlapped' = (overlapped \/ pc[Tracker] # "idle")
  /\ UNCHANGED <<lines, targets, connVars, subs, queue, crashes, dropped>>

\* Daemon.run: the end-of-stream sentinel is offered to every subscriber.
CloseSubscribers ==
  /\ phase = "stopped" /\ pc[Main] = "idle"
  /\ phase' = "closed"
  /\ queue' = [c \in Clients |-> IF c \in subs THEN Offered(c, Sentinel) ELSE queue[c]]
  /\ UNCHANGED <<prodVars, connVars, subs, crashes, dropped>>

\* ApiServer.close: streams have drained, or the 2 s for it are over.
StartClosing ==
  /\ phase = "closed"
  /\ phase' = "closing"
  /\ UNCHANGED <<prodVars, connVars, subs, queue, crashes, dropped>>

(***************************************************************************)
(* Connections                                                             *)
(***************************************************************************)
Cursor(c) == LET ids == {e.seq : e \in received[c]}
             IN IF ids = {} THEN None ELSE CHOOSE n \in ids : \A m \in ids : m <= n

\* A connection is a subscriber of its own: what the sink still offers to the one
\* before it reaches nobody.
Subscribe(c, how) ==
  /\ conn[c] \in {"off", "ended"}
  /\ connects[c] < MaxConnects
  /\ connects' = [connects EXCEPT ![c] = @ + 1]
  /\ subs' = subs \union {c}
  /\ queue' = [queue EXCEPT ![c] = IF phase \in {"closed", "closing"} THEN <<Sentinel>> ELSE <<>>]
  /\ dropped' = [dropped EXCEPT ![c] = FALSE]
  /\ got' = [got EXCEPT ![c] = <<>>]
  /\ conn' = [conn EXCEPT ![c] = how]
  /\ pos' = [pos EXCEPT ![c] = 0]
  /\ targets' = [p \in Producers |-> targets[p] \ {c}]
  /\ UNCHANGED <<seq, lines, made, pc, cur, overlapped, received, phase, crashes>>

OpenStreams == {c \in Clients : conn[c] \in {"open", "replay", "live"}}

\* A client that received nothing yet asks for everything, for live events
\* only, or resumes from a history that was deleted since; later it resumes
\* after the last event it received.
Ahead == MaxEvents + MaxCrashes + 2

Connect(c) ==
  /\ Cardinality(OpenStreams) < MaxStreams
  /\ Subscribe(c, "open")
  /\ \/ Cursor(c) = None /\ \E n \in {0, Ahead} : after' = [after EXCEPT ![c] = n]
     \/ after' = [after EXCEPT ![c] = Cursor(c)]
  /\ UNCHANGED lastSent

ConnectSocket(c) ==
  /\ Subscribe(c, "socket")
  /\ after' = [after EXCEPT ![c] = None]
  /\ UNCHANGED lastSent

\* mutant: the dedup cursor starts at the last number given out.
Header_DedupsLastSeq(c) ==
  LET gap == after[c] > seq
      replay == after[c] # None /\ ~gap
  IN /\ conn[c] = "open"
     /\ lastSent' = [lastSent EXCEPT ![c] = IF replay THEN seq ELSE None]
     /\ conn' = [conn EXCEPT ![c] = IF replay THEN "replay" ELSE "live"]
     /\ UNCHANGED <<prodVars, after, pos, got, received, connects, phase, subs, queue, crashes, dropped>>

\* The header: a cursor ahead of the history is a gap, and then nothing is
\* replayed and nothing is filtered.
Header(c) ==
  LET gap == after[c] > seq
      replay == after[c] # None /\ ~gap
  IN /\ conn[c] = "open"
     /\ lastSent' = [lastSent EXCEPT ![c] = IF gap THEN None ELSE after[c]]
     /\ conn' = [conn EXCEPT ![c] = IF replay THEN "replay" ELSE "live"]
     /\ UNCHANGED <<prodVars, after, pos, got, received, connects, phase, subs, queue, crashes, dropped>>

Deliver(c, e) ==
  /\ got' = [got EXCEPT ![c] = Append(@, e)]
  /\ received' = [received EXCEPT ![c] = @ \union {e}]

\* One line of the history: written out if it is wanted and past the cursor.
Replay(c) ==
  LET e == lines[pos[c] + 1] IN
  /\ conn[c] = "replay" /\ pos[c] < Len(lines)
  /\ pos' = [pos EXCEPT ![c] = @ + 1]
  /\ IF e.seq > after[c] /\ e.kind \in Wanted
       THEN Deliver(c, e) /\ lastSent' = [lastSent EXCEPT ![c] = e.seq]
       ELSE UNCHANGED <<got, received, lastSent>>
  /\ UNCHANGED <<prodVars, conn, after, connects, phase, subs, queue, crashes, dropped>>

ReplayEnds(c) ==
  /\ conn[c] = "replay" /\ pos[c] = Len(lines)
  /\ conn' = [conn EXCEPT ![c] = "live"]
  /\ UNCHANGED <<prodVars, after, lastSent, pos, got, received, connects, phase, subs, queue, crashes, dropped>>

AlreadySent_Equal(c, e) == lastSent[c] # None /\ e.seq = lastSent[c]  \* mutant: only the last
AlreadySent(c, e) == lastSent[c] # None /\ e.seq <= lastSent[c]

\* An event from the queue: skipped if the dedup cursor is past it.
Live(c) ==
  /\ conn[c] = "live"
  /\ queue[c] # <<>> /\ Head(queue[c]) # Sentinel
  /\ queue' = [queue EXCEPT ![c] = Tail(@)]
  /\ IF AlreadySent(c, Head(queue[c]))
       THEN UNCHANGED <<got, received, lastSent>>
       ELSE /\ Deliver(c, Head(queue[c]))
            /\ lastSent' = [lastSent EXCEPT ![c] = Head(queue[c]).seq]
  /\ UNCHANGED <<prodVars, conn, after, pos, connects, phase, subs, crashes, dropped>>

\* A socket subscriber has no cursor: every queued event is written.
LiveSocket(c) ==
  /\ conn[c] = "socket"
  /\ queue[c] # <<>> /\ Head(queue[c]) # Sentinel
  /\ queue' = [queue EXCEPT ![c] = Tail(@)]
  /\ Deliver(c, Head(queue[c]))
  /\ UNCHANGED <<prodVars, conn, after, lastSent, pos, connects, phase, subs, crashes, dropped>>

\* The loop ends and the finally clause removes the subscriber.
Ends(c) ==
  /\ conn' = [conn EXCEPT ![c] = "ended"]
  /\ subs' = subs \ {c}
  /\ UNCHANGED <<prodVars, after, lastSent, pos, got, received, connects, phase, queue, crashes, dropped>>

SentinelEnds(c) ==
  /\ conn[c] \in {"live", "socket"}
  /\ queue[c] # <<>> /\ Head(queue[c]) = Sentinel
  /\ Ends(c)

BackstopEnds_SocketOnly(c) ==  \* mutant: no backstop for HTTP streams
  /\ queue[c] = <<>> /\ conn[c] = "socket" /\ phase \in {"closed", "closing"}
  /\ Ends(c)
\* The backstop: the queue is empty and the server is going away.
BackstopEnds(c) ==
  /\ queue[c] = <<>>
  /\ \/ conn[c] = "live" /\ phase = "closing"
     \/ conn[c] = "socket" /\ phase \in {"closed", "closing"}
  /\ Ends(c)

ClientLeaves(c) == conn[c] \in {"open", "replay", "live", "socket"} /\ Ends(c)

(***************************************************************************)
(* The process dies; the next daemon resumes the numbers from the file.    *)
(***************************************************************************)
LastSeq_First(file) == IF file = <<>> THEN 0 ELSE Head(file).seq  \* mutant: the first line
LastSeq(file) == LET ns == {e.seq : e \in Range(file)} \union {0}
                 IN CHOOSE n \in ns : \A m \in ns : m <= n

Crash ==
  /\ crashes < MaxCrashes
  /\ crashes' = crashes + 1
  /\ seq' = LastSeq(lines)
  /\ pc' = [p \in Producers |-> "idle"]
  /\ cur' = [p \in Producers |-> NoEvent]
  /\ targets' = [p \in Producers |-> {}]
  /\ phase' = "up"
  /\ subs' = {}
  /\ queue' = [c \in Clients |-> <<>>]
  /\ conn' = [c \in Clients |-> IF conn[c] = "off" THEN "off" ELSE "ended"]
  /\ UNCHANGED <<lines, made, after, lastSent, pos, got, received, connects, overlapped, dropped>>

SinkStep(p) == Write(p) \/ ListSubscribers(p) \/ Offer(p) \/ SinkReturns(p)

StreamStep(c) ==
  \/ Header(c) \/ Replay(c) \/ ReplayEnds(c)
  \/ Live(c) \/ LiveSocket(c)
  \/ SentinelEnds(c) \/ BackstopEnds(c)

Shutdown == CloseSubscribers \/ StartClosing

Next ==
  \/ \E p \in Producers : Observe(p) \/ SinkStep(p)
  \/ ObserverStops \/ Shutdown
  \/ \E c \in Clients : Connect(c) \/ ConnectSocket(c) \/ StreamStep(c) \/ ClientLeaves(c)
  \/ Crash

Spec == Init /\ [][Next]_vars

(***************************************************************************)
(* Threads run; the observer may observe for ever and clients may stay.    *)
(***************************************************************************)
Fairness ==
  /\ \A p \in Producers : WF_vars(SinkStep(p))
  /\ \A c \in Clients : WF_vars(StreamStep(c))
  /\ WF_vars(Shutdown)

FairSpec == Spec /\ Fairness

(***************************************************************************)
(* Properties                                                              *)
(***************************************************************************)

InOrder(c) == \A i, j \in 1 .. Len(got[c]) : i < j => got[c][i].seq < got[c][j].seq

\* "Within one connection every seq is delivered at most once, in increasing
\* order": replay and live queue overlap (the subscriber is added before the
\* history is read), and the dedup cursor takes the overlap out again.
\* It holds as long as the two producers were never in the sink together.
OncePerConnection == ~overlapped => \A c \in Clients : InOrder(c)

InFlight(c) ==
  {cur[p] : p \in {q \in Producers : pc[q] = "written" \/ (pc[q] = "offering" /\ c \in targets[q])}}

\* A connection that resumed after a cursor misses nothing past it: an event
\* of the history was delivered, is queued, or is about to be offered.  No
\* event falls between the replay of the file and the live queue, unless the
\* queue was full or the producers overlapped.
NoEventMissed ==
  \A c \in Clients :
    conn[c] = "live" /\ after[c] \notin {None, Ahead} /\ ~dropped[c] /\ ~overlapped =>
      \A e \in Range(lines) : e.kind \in Wanted /\ e.seq > after[c] =>
        e \in Range(got[c]) \union Range(queue[c]) \union InFlight(c)

\* A sequence number that a client saw names one event for ever: the event is
\* written before it is offered, and a daemon that starts after a crash
\* resumes from the file, so no number is given to a second event.
SeqNamesOneEvent ==
  \A c, d \in Clients : \A e \in received[c], f \in received[d] :
    e.seq = f.seq => e = f

\* Once the subscribers are closed every open stream ends, even one whose full
\* queue refused the sentinel.
StreamsEnd ==
  \A c \in Clients :
    phase = "closed" /\ conn[c] \in {"live", "socket"} ~> conn[c] = "ended" \/ phase = "up"
=============================================================================
