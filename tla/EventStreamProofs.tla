------------------------- MODULE EventStreamProofs -------------------------
(***************************************************************************)
(* Proofs about EventStream, for any clients, event types, queue size and  *)
(* number of events, connections and crashes.                              *)
(*                                                                         *)
(* Three layers, each proved from the ones before it:                      *)
(*   Numbered    a number names one line of the file, for ever, and all    *)
(*               that is queued or delivered is a line of the file;        *)
(*   Ordered     while the producers never met in the sink, the file, the  *)
(*               queues and what a connection was sent are in order;       *)
(*   Complete    what a connection that resumed was not sent yet is unread *)
(*               in the file, queued, or about to be offered.              *)
(***************************************************************************)
EXTENDS EventStream, NaturalsInduction, WellFoundedInduction, TLAPS

Event == [seq : Nat \ {0}, kind : Kinds \union {Stopped}, id : Nat]
Item == Event \union {Sentinel}

TypeInv ==
  /\ seq \in Nat /\ made \in Nat
  /\ lines \in Seq(Event)
  /\ pc \in [Producers -> {"idle", "stamped", "written", "offering"}]
  /\ cur \in [Producers -> Item]
  /\ \A p \in Producers : pc[p] # "idle" => cur[p] \in Event
  /\ targets \in [Producers -> SUBSET Clients]
  /\ subs \in SUBSET Clients
  /\ queue \in [Clients -> Seq(Item)]
  /\ conn \in [Clients -> {"off", "open", "replay", "live", "socket", "ended"}]
  /\ after \in [Clients -> Int] /\ lastSent \in [Clients -> Int]
  /\ pos \in [Clients -> Nat]
  /\ got \in [Clients -> Seq(Event)]
  /\ received \in [Clients -> SUBSET Event]
  /\ overlapped \in BOOLEAN
  /\ dropped \in [Clients -> BOOLEAN]

(***************************************************************************)
(* The invariants                                                          *)
(***************************************************************************)

\* The numbers given out: the lines have one each, a stamped event has one that
\* no line has, and what is past the write is in the file.
OneNumberEach ==
  /\ \A e \in Range(lines) : e.seq <= seq
  /\ \A e, f \in Range(lines) : e.seq = f.seq => e = f
  /\ \A p \in Producers : pc[p] = "stamped" =>
       cur[p].seq <= seq /\ \A e \in Range(lines) : e.seq # cur[p].seq
  /\ pc[Tracker] = "stamped" /\ pc[Main] = "stamped" => cur[Tracker].seq # cur[Main].seq
  /\ \A p \in Producers : pc[p] \in {"written", "offering"} => cur[p] \in Range(lines)

\* What a client has or will have comes from the file.
FromTheFile(c) ==
  /\ Range(queue[c]) \subseteq Range(lines) \union {Sentinel}
  /\ received[c] \subseteq Range(lines)
  /\ Range(got[c]) \subseteq Range(lines)

Numbered == OneNumberEach /\ \A c \in Clients : FromTheFile(c)

Rising(s) == \A i, j \in 1 .. Len(s) : i < j => s[i].seq < s[j].seq
QueueRising(s) == \A i, j \in 1 .. Len(s) : i < j => s[j] = Sentinel \/ s[i].seq < s[j].seq

\* The producers one at a time: the event in the sink is the newest.
OneProducer ==
  /\ pc[Tracker] = "idle" \/ pc[Main] = "idle"
  /\ Rising(lines)
  /\ \A p \in Producers : pc[p] # "idle" => \A e \in Range(lines) : e.seq <= cur[p].seq

\* Producer p has still to offer its event to c.
Coming(p, c) == pc[p] \in {"stamped", "written"} \/ (pc[p] = "offering" /\ c \in targets[p])

\* The order on one connection: what is queued rises and the event to come is past
\* it; what a socket was sent comes before both; what HTTP was sent is not past the
\* dedup cursor, nor past what the replay has still to read.
InLine(c) ==
  /\ QueueRising(queue[c])
  /\ \A p \in Producers : Coming(p, c) => \A e \in Range(queue[c]) : e.seq < cur[p].seq
  /\ Rising(got[c])
  /\ conn[c] = "socket" =>
       /\ \A g \in Range(got[c]), e \in Range(queue[c]) : e = Sentinel \/ g.seq < e.seq
       /\ \A p \in Producers : Coming(p, c) => \A g \in Range(got[c]) : g.seq < cur[p].seq
  /\ conn[c] = "open" => got[c] = <<>> /\ pos[c] = 0
  /\ conn[c] \in {"replay", "live"} =>
       \A g \in Range(got[c]) : lastSent[c] # None /\ g.seq <= lastSent[c]
  /\ conn[c] = "replay" =>
       \A g \in Range(got[c]), i \in 1 .. Len(lines) : pos[c] < i => g.seq < lines[i].seq

Ordered == ~overlapped => OneProducer /\ \A c \in Clients : InLine(c)

\* An event that a connection asked for.
Due(c, e) == e.kind \in Wanted /\ e.seq > after[c]

Streaming(c) == conn[c] \in {"open", "replay", "live"}

\* A resumed connection has what it is due, or what is due is on its way.
OnItsWay(c) ==
  /\ conn[c] = "open" => after[c] <= seq /\ pos[c] = 0
  /\ \A e \in Range(lines) : Due(c, e) =>
       \/ e \in Range(got[c]) \union Range(queue[c]) \union InFlight(c)
       \/ conn[c] \in {"open", "replay"} /\ \E i \in 1 .. Len(lines) : pos[c] < i /\ lines[i] = e
  /\ conn[c] = "replay" =>
       /\ pos[c] <= Len(lines)
       /\ \A i \in 1 .. Len(lines) : i <= pos[c] /\ Due(c, lines[i]) => lines[i] \in Range(got[c])
  /\ conn[c] \in {"replay", "live"} =>
       /\ lastSent[c] # None
       /\ lastSent[c] > after[c] => \E e \in Range(lines) : e.seq = lastSent[c]
  /\ conn[c] = "live" =>
       \A e \in Range(lines) : Due(c, e) /\ e.seq <= lastSent[c] => e \in Range(got[c])

Resumed(c) == Streaming(c) /\ after[c] \notin {None, Ahead} /\ ~dropped[c] /\ ~overlapped

Complete ==
  \A c \in Clients :
    /\ Streaming(c) \/ conn[c] = "socket" => c \in subs
    /\ Resumed(c) => OnItsWay(c)

(***************************************************************************)
(* Sequences and largest elements                                          *)
(***************************************************************************)
LEMMA RangeOf ==
  ASSUME NEW S, NEW s \in Seq(S)
  PROVE  /\ Range(s) \subseteq S
         /\ \A e : e \in Range(s) <=> \E i \in 1 .. Len(s) : s[i] = e
BY DEF Range

LEMMA RangeAppend ==
  ASSUME NEW S, NEW s \in Seq(S), NEW x \in S
  PROVE  Append(s, x) \in Seq(S) /\ Range(Append(s, x)) = Range(s) \union {x}
<1> DEFINE t == Append(s, x)
<1>1. /\ t \in Seq(S) /\ Len(t) = Len(s) + 1 /\ t[Len(s) + 1] = x
      /\ \A i \in 1 .. Len(s) : t[i] = s[i]
  OBVIOUS
<1> HIDE DEF t
<1>2. \A e : e \in Range(t) <=> \E i \in 1 .. Len(t) : t[i] = e
  BY <1>1, RangeOf
<1>3. \A e : e \in Range(s) <=> \E i \in 1 .. Len(s) : s[i] = e
  BY RangeOf
<1>4. Len(s) \in Nat
  OBVIOUS
<1>5. ASSUME NEW e \in Range(t) PROVE e \in Range(s) \union {x}
  BY <1>1, <1>2, <1>3, <1>4
<1>6. ASSUME NEW e \in Range(s) \union {x} PROVE e \in Range(t)
  BY <1>1, <1>2, <1>3, <1>4
<1>7. Range(t) = Range(s) \union {x}
  BY <1>5, <1>6
<1> QED
  BY <1>1, <1>7 DEF t

LEMMA RangeTail ==
  ASSUME NEW S, NEW s \in Seq(S), s # <<>>
  PROVE  /\ Tail(s) \in Seq(S) /\ Head(s) \in S
         /\ Range(s) = {Head(s)} \union Range(Tail(s))
<1> DEFINE t == Tail(s)
           h == Head(s)
<1>1. /\ t \in Seq(S) /\ h \in S /\ h = s[1]
      /\ Len(s) \in Nat \ {0} /\ Len(t) = Len(s) - 1
      /\ \A i \in 1 .. Len(s) - 1 : t[i] = s[i + 1]
  OBVIOUS
<1> HIDE DEF t, h
<1>2. \A e : e \in Range(t) <=> \E i \in 1 .. Len(t) : t[i] = e
  BY <1>1, RangeOf
<1>3. \A e : e \in Range(s) <=> \E i \in 1 .. Len(s) : s[i] = e
  BY RangeOf
<1>4. ASSUME NEW e \in Range(s) PROVE e \in {h} \union Range(t)
  <2>1. PICK i \in 1 .. Len(s) : s[i] = e
    BY <1>3
  <2>2. CASE i = 1
    BY <1>1, <2>1, <2>2
  <2>3. CASE i # 1
    <3>1. i - 1 \in 1 .. Len(s) - 1 /\ t[i - 1] = e
      BY <1>1, <2>1, <2>3
    <3> QED
      BY <1>1, <1>2, <3>1
  <2> QED
    BY <2>2, <2>3
<1>5. ASSUME NEW e \in {h} \union Range(t) PROVE e \in Range(s)
  <2>1. CASE e = h
    BY <1>1, <1>3, <2>1
  <2>2. CASE e \in Range(t)
    <3>1. PICK i \in 1 .. Len(s) - 1 : t[i] = e
      BY <1>1, <1>2, <2>2
    <3>2. i + 1 \in 1 .. Len(s) /\ s[i + 1] = e
      BY <1>1, <3>1
    <3> QED
      BY <1>3, <3>2
  <2> QED
    BY <2>1, <2>2
<1>6. Range(s) = {h} \union Range(t)
  BY <1>4, <1>5
<1> QED
  BY <1>1, <1>6 DEF t, h

\* An event at the end of a sequence that is past all before it keeps the order.
LEMMA RisingAppend ==
  ASSUME NEW s \in Seq(Event), NEW x \in Event, Rising(s), \A e \in Range(s) : e.seq < x.seq
  PROVE  Rising(Append(s, x))
<1>1. /\ Len(s) \in Nat /\ Len(Append(s, x)) = Len(s) + 1
      /\ Append(s, x)[Len(s) + 1] = x
      /\ \A i \in 1 .. Len(s) : Append(s, x)[i] = s[i]
  OBVIOUS
<1>2. \A i \in 1 .. Len(s) : s[i].seq < x.seq
  BY RangeOf
<1> DEFINE t == Append(s, x)
<1>3. ASSUME NEW i \in 1 .. Len(s) + 1, NEW j \in 1 .. Len(s) + 1, i < j PROVE t[i].seq < t[j].seq
  <2>1. i \in 1 .. Len(s) /\ t[i] = s[i]
    BY <1>1, <1>3
  <2>2. CASE j = Len(s) + 1
    BY <1>1, <1>2, <2>1, <2>2
  <2>3. CASE j # Len(s) + 1
    <3>1. j \in 1 .. Len(s) /\ t[j] = s[j]
      BY <1>1, <2>3
    <3> QED
      BY <1>3, <2>1, <3>1 DEF Rising
  <2> QED
    BY <2>2, <2>3
<1> QED
  BY <1>1, <1>3 DEF Rising

LEMMA QueueAppend ==
  ASSUME NEW s \in Seq(Item), NEW x \in Item, QueueRising(s),
         x = Sentinel \/ \A e \in Range(s) : e.seq < x.seq
  PROVE  QueueRising(Append(s, x))
<1>1. /\ Len(s) \in Nat /\ Len(Append(s, x)) = Len(s) + 1
      /\ Append(s, x)[Len(s) + 1] = x
      /\ \A i \in 1 .. Len(s) : Append(s, x)[i] = s[i]
  OBVIOUS
<1>2. \A i \in 1 .. Len(s) : x = Sentinel \/ s[i].seq < x.seq
  BY RangeOf
<1> DEFINE t == Append(s, x)
<1>3. ASSUME NEW i \in 1 .. Len(s) + 1, NEW j \in 1 .. Len(s) + 1, i < j
      PROVE  t[j] = Sentinel \/ t[i].seq < t[j].seq
  <2>1. i \in 1 .. Len(s) /\ t[i] = s[i]
    BY <1>1, <1>3
  <2>2. CASE j = Len(s) + 1
    BY <1>1, <1>2, <2>1, <2>2
  <2>3. CASE j # Len(s) + 1
    <3>1. j \in 1 .. Len(s) /\ t[j] = s[j]
      BY <1>1, <2>3
    <3> QED
      BY <1>3, <2>1, <3>1 DEF QueueRising
  <2> QED
    BY <2>2, <2>3
<1> QED
  BY <1>1, <1>3 DEF QueueRising

LEMMA QueueTail ==
  ASSUME NEW s \in Seq(Item), s # <<>>, QueueRising(s)
  PROVE  /\ QueueRising(Tail(s))
         /\ \A e \in Range(Tail(s)) : e = Sentinel \/ Head(s).seq < e.seq
<1>1. /\ Tail(s) \in Seq(Item) /\ Head(s) = s[1]
      /\ Len(s) \in Nat \ {0} /\ Len(Tail(s)) = Len(s) - 1
      /\ \A i \in 1 .. Len(s) - 1 : Tail(s)[i] = s[i + 1]
  OBVIOUS
<1>2. QueueRising(Tail(s))
  BY <1>1 DEF QueueRising
<1>3. ASSUME NEW e \in Range(Tail(s)) PROVE e = Sentinel \/ Head(s).seq < e.seq
  <2> DEFINE t == Tail(s)
  <2>0. t \in Seq(Item) /\ Len(t) = Len(s) - 1 /\ e \in Range(t)
    BY <1>1, <1>3
  <2> HIDE DEF t
  <2>3. PICK i \in 1 .. Len(s) - 1 : t[i] = e
    BY <2>0, RangeOf
  <2>1. i \in 1 .. Len(s) - 1 /\ Tail(s)[i] = e
    BY <2>3 DEF t
  <2>2. 1 \in 1 .. Len(s) /\ i + 1 \in 1 .. Len(s) /\ 1 < i + 1 /\ s[i + 1] = e
    BY <1>1, <2>1
  <2> QED
    BY <1>1, <2>2 DEF QueueRising
<1> QED
  BY <1>2, <1>3

\* A set of numbers that is not empty and has a bound has a largest one.
LEMMA Largest ==
  ASSUME NEW S \in SUBSET Nat, S # {}, NEW b \in Nat, \A n \in S : n <= b
  PROVE  \E n \in S : \A m \in S : m <= n
<1> DEFINE U == {n \in Nat : \A m \in S : m <= n}
           R == {ss \in Nat \X Nat : ss[1] < ss[2]}
<1>1. IsWellFoundedOn(R, Nat)
  BY NatLessThanWellFounded DEF OpToRel
<1>2. U \subseteq Nat /\ b \in U
  OBVIOUS
<1> HIDE DEF R
<1>3. PICK u \in U : \A y \in U : <<y, u>> \notin R
  BY <1>1, <1>2, WFMin
<1>4. u \in S
  <2> SUFFICES ASSUME u \notin S PROVE FALSE
    OBVIOUS
  <2>1. u \in Nat /\ \A m \in S : m \in Nat /\ m <= u /\ m # u
    BY <1>3
  <2>4. PICK x \in S : TRUE
    OBVIOUS
  <2>2. u # 0
    BY <2>1, <2>4
  <2>3. u - 1 \in U
    <3>1. \A m \in S : m <= u - 1
      BY <2>1
    <3>2. u - 1 \in Nat
      BY <2>1, <2>2
    <3> QED
      BY <3>1, <3>2
  <2>5. <<u - 1, u>> \in R
    BY <2>1, <2>2 DEF R
  <2> QED
    BY <1>3, <2>3, <2>5
<1> QED
  BY <1>3, <1>4

(***************************************************************************)
(* Types                                                                   *)
(***************************************************************************)
LEMMA EventFacts ==
  /\ \A e \in Event : e.seq \in Nat /\ e.seq > 0 /\ e \in Item
  /\ Sentinel \in Item /\ Sentinel \notin Event /\ Sentinel.seq = None /\ None = -1
  /\ \A e \in Item : e = Sentinel \/ e \in Event
<1>1. \A e \in Event : e.seq \in Nat /\ e.seq > 0
  BY DEF Event
<1>2. Sentinel.seq = -1
  BY DEF Sentinel, None
<1> QED
  BY <1>1, <1>2 DEF Item, None

LEMMA Carries ==
  ASSUME NEW n \in Nat \ {0}, NEW k \in Kinds \union {Stopped}, NEW i \in Nat
  PROVE  [seq |-> n, kind |-> k, id |-> i] \in Event
BY DEF Event

LEMMA LastLine ==
  ASSUME TypeInv, Numbered
  PROVE  LastSeq(lines) \in Nat /\ \A e \in Range(lines) : e.seq <= LastSeq(lines)
<1> DEFINE ns == {e.seq : e \in Range(lines)} \union {0}
<1>1. Range(lines) \subseteq Event /\ seq \in Nat
  BY RangeOf DEF TypeInv
<1>2. ns \in SUBSET Nat /\ ns # {} /\ \A n \in ns : n <= seq
  BY <1>1, EventFacts DEF Numbered, OneNumberEach
<1>3. \A e \in Range(lines) : e.seq \in ns
  OBVIOUS
<1>4. LastSeq(lines) = CHOOSE n \in ns : \A m \in ns : m <= n
  BY DEF LastSeq
<1> HIDE DEF ns
<1>5. \E n \in ns : \A m \in ns : m <= n
  BY <1>1, <1>2, Largest
<1> QED
  BY <1>2, <1>3, <1>4, <1>5

LEMMA CursorOf ==
  ASSUME TypeInv, Numbered, NEW c \in Clients
  PROVE  Cursor(c) = None \/ \E e \in received[c] : Cursor(c) = e.seq
<1> DEFINE ids == {e.seq : e \in received[c]}
<1>1. received[c] \subseteq Range(lines) /\ received[c] \subseteq Event /\ seq \in Nat
  BY DEF TypeInv, Numbered, FromTheFile
<1>2. ids \in SUBSET Nat /\ \A n \in ids : n <= seq
  BY <1>1, EventFacts DEF Numbered, OneNumberEach
<1>3. \A n \in ids : \E e \in received[c] : n = e.seq
  OBVIOUS
<1>4. Cursor(c) = IF ids = {} THEN None ELSE CHOOSE n \in ids : \A m \in ids : m <= n
  BY DEF Cursor
<1> HIDE DEF ids
<1>5. ids # {} => \E n \in ids : \A m \in ids : m <= n
  BY <1>1, <1>2, Largest
<1> QED
  BY <1>3, <1>4, <1>5

LEMMA InitType == Init => TypeInv
<1> SUFFICES ASSUME Init PROVE TypeInv
  OBVIOUS
<1>1. <<>> \in Seq(Event) /\ <<>> \in Seq(Item)
  OBVIOUS
<1>2. cur \in [Producers -> Item] /\ \A p \in Producers : pc[p] = "idle"
  BY EventFacts DEF Init, NoEvent
<1>3. queue \in [Clients -> Seq(Item)] /\ got \in [Clients -> Seq(Event)]
  BY <1>1 DEF Init
<1>4. after \in [Clients -> Int] /\ lastSent \in [Clients -> Int]
  BY DEF Init, None
<1> QED
  BY <1>1, <1>2, <1>3, <1>4 DEF Init, TypeInv

LEMMA Delivers ==
  ASSUME TypeInv, NEW c \in Clients, NEW e \in Event, Deliver(c, e)
  PROVE  /\ got' \in [Clients -> Seq(Event)] /\ received' \in [Clients -> SUBSET Event]
         /\ got'[c] = Append(got[c], e) /\ received'[c] = received[c] \union {e}
         /\ Range(got'[c]) = Range(got[c]) \union {e}
         /\ \A d \in Clients : d # c => got'[d] = got[d] /\ received'[d] = received[d]
<1>1. Append(got[c], e) \in Seq(Event) /\ Range(Append(got[c], e)) = Range(got[c]) \union {e}
  BY RangeAppend DEF TypeInv
<1>2. got'[c] = Append(got[c], e) /\ received'[c] = received[c] \union {e}
  BY DEF Deliver, TypeInv
<1>3. received' \in [Clients -> SUBSET Event]
  BY DEF Deliver, TypeInv
<1>4. got' \in [Clients -> Seq(Event)]
  BY <1>1 DEF Deliver, TypeInv
<1>5. \A d \in Clients : d # c => got'[d] = got[d] /\ received'[d] = received[d]
  BY DEF Deliver, TypeInv
<1> QED
  BY <1>1, <1>2, <1>3, <1>4, <1>5

LEMMA TypeStep == ASSUME TypeInv, Numbered, [Next]_vars PROVE TypeInv'
<1> USE EventFacts
<1>1. ASSUME NEW p \in Producers, Observe(p) PROVE TypeInv'
  <2>1. PICK k \in Kinds : Stamp(p, k)
    BY <1>1 DEF Observe
  <2>4. seq' \in Nat \ {0} /\ made' \in Nat /\ k \in Kinds \union {Stopped}
    BY <2>1 DEF Stamp, TypeInv
  <2>2. [seq |-> seq', kind |-> k, id |-> made'] \in Event
    BY <2>4, Carries
  <2>3. overlapped' \in BOOLEAN
    BY <2>1 DEF Stamp
  <2> QED
    BY <2>1, <2>2, <2>3 DEF Stamp, TypeInv, connVars
<1>2. ASSUME NEW p \in Producers, Write(p) PROVE TypeInv'
  <2>1. lines' \in Seq(Event)
    BY <1>2, RangeAppend DEF Write, TypeInv
  <2> QED
    BY <1>2, <2>1 DEF Write, TypeInv, connVars
<1>3. ASSUME NEW p \in Producers, ListSubscribers(p) PROVE TypeInv'
  BY <1>3 DEF ListSubscribers, TypeInv, connVars
<1>4. ASSUME NEW p \in Producers, Offer(p) PROVE TypeInv'
  <2>1. PICK c \in targets[p] : /\ queue' = [queue EXCEPT ![c] = Offered(c, cur[p])]
                                /\ dropped' = [dropped EXCEPT ![c] = @ \/ Len(queue[c]) >= QueueSize]
                                /\ targets' = [targets EXCEPT ![p] = @ \ {c}]
    BY <1>4 DEF Offer
  <2>2. c \in Clients /\ queue[c] \in Seq(Item) /\ cur[p] \in Item
    BY <2>1 DEF TypeInv
  <2>3. Offered(c, cur[p]) \in Seq(Item)
    BY <2>2, RangeAppend DEF Offered
  <2>4. dropped' \in [Clients -> BOOLEAN]
    BY <2>1, <2>2 DEF TypeInv
  <2> QED
    BY <1>4, <2>1, <2>2, <2>3, <2>4 DEF Offer, TypeInv, connVars
<1>5. ASSUME NEW p \in Producers, SinkReturns(p) PROVE TypeInv'
  BY <1>5 DEF SinkReturns, TypeInv, connVars, NoEvent
<1>6. ASSUME ObserverStops PROVE TypeInv'
  <2>1. Stopped \in Kinds \union {Stopped}
    OBVIOUS
  <2>4. seq' \in Nat \ {0} /\ made' \in Nat
    BY <1>6 DEF ObserverStops, TypeInv
  <2>2. [seq |-> seq', kind |-> Stopped, id |-> made'] \in Event
    BY <2>1, <2>4, Carries
  <2>3. overlapped' \in BOOLEAN /\ Main \in Producers
    BY <1>6 DEF ObserverStops, Producers
  <2> QED
    BY <1>6, <2>2, <2>3 DEF ObserverStops, TypeInv, connVars
<1>7. ASSUME CloseSubscribers PROVE TypeInv'
  <2>1. ASSUME NEW c \in Clients PROVE Offered(c, Sentinel) \in Seq(Item)
    <3>1. queue[c] \in Seq(Item)
      BY DEF TypeInv
    <3> QED
      BY <3>1, RangeAppend DEF Offered
  <2> QED
    BY <1>7, <2>1 DEF CloseSubscribers, TypeInv, connVars, prodVars
<1>8. ASSUME StartClosing PROVE TypeInv'
  BY <1>8 DEF StartClosing, TypeInv, connVars, prodVars
<1>9. ASSUME NEW c \in Clients, NEW how \in {"open", "socket"}, Subscribe(c, how),
             after' \in [Clients -> Int], lastSent' = lastSent
      PROVE  TypeInv'
  <2>1. <<Sentinel>> \in Seq(Item) /\ <<>> \in Seq(Item) /\ <<>> \in Seq(Event)
    OBVIOUS
  <2> QED
    BY <1>9, <2>1 DEF Subscribe, TypeInv
<1>10. ASSUME NEW c \in Clients, Connect(c) PROVE TypeInv'
  <2>1. after' \in [Clients -> Int]
    <3>1. CASE \E n \in {0, Ahead} : after' = [after EXCEPT ![c] = n]
      <4>1. Ahead \in Int
        BY StreamAssumption DEF Ahead
      <4> QED
        BY <3>1, <4>1 DEF TypeInv
    <3>2. CASE after' = [after EXCEPT ![c] = Cursor(c)]
      <4>1. Cursor(c) \in Int
        <5>1. received[c] \subseteq Event
          BY DEF TypeInv
        <5> QED
          BY <5>1, CursorOf
      <4> QED
        BY <3>2, <4>1 DEF TypeInv
    <3> QED
      BY <1>10, <3>1, <3>2 DEF Connect
  <2> QED
    BY <1>9, <1>10, <2>1 DEF Connect
<1>11. ASSUME NEW c \in Clients, ConnectSocket(c) PROVE TypeInv'
  <2>1. after' \in [Clients -> Int]
    BY <1>11 DEF ConnectSocket, TypeInv
  <2> QED
    BY <1>9, <1>11, <2>1 DEF ConnectSocket
<1>12. ASSUME NEW c \in Clients, Header(c) PROVE TypeInv'
  BY <1>12 DEF Header, TypeInv, prodVars
<1>13. ASSUME NEW c \in Clients, Replay(c) PROVE TypeInv'
  <2> DEFINE e == lines[pos[c] + 1]
  <2>1. e \in Event /\ e.seq \in Int
    BY <1>13 DEF Replay, TypeInv
  <2>2. /\ pos' = [pos EXCEPT ![c] = @ + 1]
        /\ \/ Deliver(c, e) /\ lastSent' = [lastSent EXCEPT ![c] = e.seq]
           \/ UNCHANGED <<got, received, lastSent>>
        /\ UNCHANGED <<prodVars, conn, after, subs, queue, dropped>>
    BY <1>13 DEF Replay
  <2> HIDE DEF e
  <2>3. got' \in [Clients -> Seq(Event)] /\ received' \in [Clients -> SUBSET Event]
    BY <2>1, <2>2, Delivers DEF TypeInv
  <2>4. lastSent' \in [Clients -> Int] /\ pos' \in [Clients -> Nat]
    BY <2>1, <2>2 DEF TypeInv
  <2> QED
    BY <2>2, <2>3, <2>4 DEF TypeInv, prodVars
<1>14. ASSUME NEW c \in Clients, ReplayEnds(c) PROVE TypeInv'
  BY <1>14 DEF ReplayEnds, TypeInv, prodVars
<1>15. ASSUME NEW c \in Clients, Live(c) PROVE TypeInv'
  <2> DEFINE e == Head(queue[c])
  <2>1. Tail(queue[c]) \in Seq(Item) /\ e \in Event /\ e.seq \in Int
    BY <1>15, RangeTail DEF Live, TypeInv
  <2>2. /\ queue' = [queue EXCEPT ![c] = Tail(@)]
        /\ \/ Deliver(c, e) /\ lastSent' = [lastSent EXCEPT ![c] = e.seq]
           \/ UNCHANGED <<got, received, lastSent>>
        /\ UNCHANGED <<prodVars, conn, after, pos, subs, dropped>>
    BY <1>15 DEF Live
  <2> HIDE DEF e
  <2>3. got' \in [Clients -> Seq(Event)] /\ received' \in [Clients -> SUBSET Event]
    BY <2>1, <2>2, Delivers DEF TypeInv
  <2>4. lastSent' \in [Clients -> Int] /\ queue' \in [Clients -> Seq(Item)]
    BY <2>1, <2>2 DEF TypeInv
  <2> QED
    BY <2>2, <2>3, <2>4 DEF TypeInv, prodVars
<1>16. ASSUME NEW c \in Clients, LiveSocket(c) PROVE TypeInv'
  <2> DEFINE e == Head(queue[c])
  <2>1. Tail(queue[c]) \in Seq(Item) /\ e \in Event
    BY <1>16, RangeTail DEF LiveSocket, TypeInv
  <2>2. /\ queue' = [queue EXCEPT ![c] = Tail(@)]
        /\ Deliver(c, e)
        /\ UNCHANGED <<prodVars, conn, after, lastSent, pos, subs, dropped>>
    BY <1>16 DEF LiveSocket
  <2> HIDE DEF e
  <2>3. got' \in [Clients -> Seq(Event)] /\ received' \in [Clients -> SUBSET Event]
    BY <2>1, <2>2, Delivers
  <2>4. queue' \in [Clients -> Seq(Item)]
    BY <2>1, <2>2 DEF TypeInv
  <2> QED
    BY <2>2, <2>3, <2>4 DEF TypeInv, prodVars
<1>17. ASSUME NEW c \in Clients, Ends(c) PROVE TypeInv'
  BY <1>17 DEF Ends, TypeInv, prodVars
<1>18. ASSUME Crash PROVE TypeInv'
  <2>1. LastSeq(lines) \in Nat
    BY LastLine
  <2> QED
    BY <1>18, <2>1 DEF Crash, TypeInv, NoEvent
<1>19. CASE UNCHANGED vars
  BY <1>19 DEF TypeInv, vars, prodVars, connVars
<1> QED
  BY <1>1, <1>2, <1>3, <1>4, <1>5, <1>6, <1>7, <1>8, <1>10, <1>11, <1>12, <1>13, <1>14, <1>15,
     <1>16, <1>17, <1>18, <1>19
  DEF Next, SinkStep, Shutdown, StreamStep, SentinelEnds, BackstopEnds, ClientLeaves

(***************************************************************************)
(* Numbered                                                                *)
(***************************************************************************)
LEMMA InitNumbered == Init => Numbered
<1> SUFFICES ASSUME Init PROVE Numbered
  OBVIOUS
<1>1. Range(<<>>) = {}
  BY DEF Range
<1>2. lines = <<>> /\ \A p \in Producers : pc[p] = "idle"
  BY DEF Init
<1>3. \A c \in Clients : queue[c] = <<>> /\ got[c] = <<>> /\ received[c] = {}
  BY DEF Init
<1>4. pc[Tracker] = "idle"
  BY <1>2 DEF Producers
<1> QED
  BY <1>1, <1>2, <1>3, <1>4 DEF Numbered, OneNumberEach, FromTheFile

\* A step that leaves the sink alone, or takes an event that is in the file further.
LEMMA SameNumbers ==
  ASSUME Numbered, UNCHANGED <<seq, lines>>,
         \A p \in Producers :
           \/ pc'[p] = pc[p] /\ cur'[p] = cur[p]
           \/ pc'[p] = "idle"
           \/ pc[p] = "written" /\ pc'[p] = "offering" /\ cur'[p] = cur[p]
  PROVE  OneNumberEach'
<1>1. Tracker \in Producers /\ Main \in Producers
  BY DEF Producers
<1> QED
  BY <1>1 DEF Numbered, OneNumberEach

LEMMA GivesNumber ==
  ASSUME TypeInv, Numbered, NEW p \in Producers, NEW e \in Event,
         e.seq = seq + 1, seq' = seq + 1, UNCHANGED lines,
         pc' = [pc EXCEPT ![p] = "stamped"], cur' = [cur EXCEPT ![p] = e]
  PROVE  OneNumberEach'
<1>1. seq \in Nat /\ Range(lines) \subseteq Event
  BY RangeOf DEF TypeInv
<1>2. Tracker \in Producers /\ Main \in Producers /\ Tracker # Main
  BY StreamAssumption DEF Producers
<1>3. pc'[p] = "stamped" /\ cur'[p] = e
  BY DEF TypeInv
<1>4. \A q \in Producers : q # p => pc'[q] = pc[q] /\ cur'[q] = cur[q]
  BY DEF TypeInv
<1>5. \A q \in Producers : pc[q] = "stamped" => cur[q].seq \in Nat
  BY EventFacts DEF TypeInv
<1>6. \A f \in Range(lines) : f.seq <= seq' /\ f.seq # e.seq
  BY <1>1, EventFacts DEF Numbered, OneNumberEach
<1>7. \A q \in Producers : pc'[q] = "stamped" =>
        cur'[q].seq <= seq' /\ \A f \in Range(lines) : f.seq # cur'[q].seq
  BY <1>1, <1>3, <1>4, <1>5, <1>6 DEF Numbered, OneNumberEach
<1>8. pc'[Tracker] = "stamped" /\ pc'[Main] = "stamped" => cur'[Tracker].seq # cur'[Main].seq
  BY <1>1, <1>2, <1>3, <1>4, <1>5 DEF Numbered, OneNumberEach, Producers
<1>9. \A q \in Producers : pc'[q] \in {"written", "offering"} => cur'[q] \in Range(lines)
  BY <1>3, <1>4 DEF Numbered, OneNumberEach
<1> QED
  BY <1>6, <1>7, <1>8, <1>9 DEF Numbered, OneNumberEach

LEMMA WritesLine ==
  ASSUME TypeInv, Numbered, NEW p \in Producers, Write(p)
  PROVE  /\ OneNumberEach'
         /\ Range(lines') = Range(lines) \union {cur[p]}
<1>1. seq \in Nat /\ Range(lines) \subseteq Event /\ cur[p] \in Event
  BY RangeOf DEF TypeInv, Write
<1>2. Range(lines') = Range(lines) \union {cur[p]}
  BY <1>1, RangeAppend DEF TypeInv, Write
<1>3. Tracker \in Producers /\ Main \in Producers /\ Producers = {Tracker, Main}
  BY DEF Producers
<1>4. pc'[p] = "written" /\ cur' = cur /\ seq' = seq /\ pc[p] = "stamped"
  BY DEF TypeInv, Write
<1>5. \A q \in Producers : q # p => pc'[q] = pc[q]
  BY DEF TypeInv, Write
<1>6. cur[p].seq <= seq /\ \A f \in Range(lines) : f.seq # cur[p].seq
  BY <1>4 DEF Numbered, OneNumberEach
<1>7. \A q \in Producers : q # p /\ pc[q] = "stamped" => cur[q].seq # cur[p].seq
  BY <1>3, <1>4 DEF Numbered, OneNumberEach
<1>8. \A e \in Range(lines') : e.seq <= seq'
  BY <1>2, <1>4, <1>6 DEF Numbered, OneNumberEach
<1>9. \A e, f \in Range(lines') : e.seq = f.seq => e = f
  BY <1>2, <1>6 DEF Numbered, OneNumberEach
<1>10. \A q \in Producers : pc'[q] = "stamped" =>
         cur'[q].seq <= seq' /\ \A e \in Range(lines') : e.seq # cur'[q].seq
  BY <1>2, <1>4, <1>5, <1>7 DEF Numbered, OneNumberEach
<1>11. pc'[Tracker] = "stamped" /\ pc'[Main] = "stamped" => cur'[Tracker].seq # cur'[Main].seq
  BY <1>3, <1>4, <1>5 DEF Numbered, OneNumberEach
<1>12. \A q \in Producers : pc'[q] \in {"written", "offering"} => cur'[q] \in Range(lines')
  BY <1>2, <1>4, <1>5 DEF Numbered, OneNumberEach
<1> QED
  BY <1>2, <1>8, <1>9, <1>10, <1>11, <1>12 DEF OneNumberEach

LEMMA NumberedStep == ASSUME TypeInv, Numbered, [Next]_vars PROVE Numbered'
<1>0. ASSUME NEW c \in Clients PROVE FromTheFile(c) /\ Range(<<>>) = {} /\ Range(<<Sentinel>>) = {Sentinel}
  BY DEF Numbered, Range
<1>1. ASSUME NEW p \in Producers, Observe(p) PROVE Numbered'
  <2>1. PICK k \in Kinds : Stamp(p, k)
    BY <1>1 DEF Observe
  <2> DEFINE e == [seq |-> seq', kind |-> k, id |-> made']
  <2>2. seq' \in Nat \ {0} /\ made' \in Nat /\ k \in Kinds \union {Stopped} /\ seq' = seq + 1
    BY <2>1 DEF Stamp, TypeInv
  <2>3. e \in Event /\ e.seq = seq + 1
    BY <2>2, Carries
  <2>4. cur' = [cur EXCEPT ![p] = e] /\ pc' = [pc EXCEPT ![p] = "stamped"] /\ UNCHANGED lines
    BY <2>1 DEF Stamp
  <2> HIDE DEF e
  <2>5. OneNumberEach'
    BY <2>2, <2>3, <2>4, GivesNumber
  <2>6. UNCHANGED <<lines, queue, received, got>>
    BY <2>1 DEF Stamp, connVars
  <2> QED
    BY <1>0, <2>5, <2>6 DEF Numbered, FromTheFile
<1>2. ASSUME NEW p \in Producers, Write(p) PROVE Numbered'
  <2>1. OneNumberEach' /\ Range(lines') = Range(lines) \union {cur[p]}
    BY <1>2, WritesLine
  <2>2. UNCHANGED <<queue, received, got>>
    BY <1>2 DEF Write, connVars
  <2> QED
    BY <1>0, <2>1, <2>2 DEF Numbered, FromTheFile
<1>3. ASSUME NEW p \in Producers, ListSubscribers(p) PROVE Numbered'
  <2>1. UNCHANGED <<seq, lines, cur, queue, received, got>>
    BY <1>3 DEF ListSubscribers, connVars
  <2>2. OneNumberEach'
    BY <1>3, <2>1, SameNumbers DEF ListSubscribers, TypeInv
  <2> QED
    BY <1>0, <2>1, <2>2 DEF Numbered, FromTheFile
<1>4. ASSUME NEW p \in Producers, Offer(p) PROVE Numbered'
  <2>1. UNCHANGED <<seq, lines, pc, cur, received, got>>
    BY <1>4 DEF Offer, connVars
  <2>2. OneNumberEach'
    BY <2>1, SameNumbers
  <2>3. PICK c \in targets[p] : queue' = [queue EXCEPT ![c] = Offered(c, cur[p])]
    BY <1>4 DEF Offer
  <2>4. cur[p] \in Range(lines) /\ queue[c] \in Seq(Item) /\ cur[p] \in Item
    BY <1>4, <2>3 DEF Offer, Numbered, OneNumberEach, TypeInv
  <2>5. Range(Offered(c, cur[p])) \subseteq Range(queue[c]) \union {cur[p]}
    BY <2>4, RangeAppend DEF Offered
  <2>6. \A d \in Clients : Range(queue'[d]) \subseteq Range(queue[d]) \union {cur[p]}
    BY <2>3, <2>5 DEF TypeInv
  <2> QED
    BY <1>0, <2>1, <2>2, <2>4, <2>6 DEF Numbered, FromTheFile
<1>5. ASSUME NEW p \in Producers, SinkReturns(p) PROVE Numbered'
  <2>1. UNCHANGED <<seq, lines, queue, received, got>>
    BY <1>5 DEF SinkReturns, connVars
  <2>2. OneNumberEach'
    BY <1>5, <2>1, SameNumbers DEF SinkReturns, TypeInv
  <2> QED
    BY <1>0, <2>1, <2>2 DEF Numbered, FromTheFile
<1>6. ASSUME ObserverStops PROVE Numbered'
  <2> DEFINE e == [seq |-> seq', kind |-> Stopped, id |-> made']
  <2>1. seq' \in Nat \ {0} /\ made' \in Nat /\ Stopped \in Kinds \union {Stopped} /\ seq' = seq + 1
    BY <1>6 DEF ObserverStops, TypeInv
  <2>2. e \in Event /\ e.seq = seq + 1
    BY <2>1, Carries
  <2>3. cur' = [cur EXCEPT ![Main] = e] /\ pc' = [pc EXCEPT ![Main] = "stamped"] /\ UNCHANGED lines
    BY <1>6 DEF ObserverStops
  <2>4. Main \in Producers
    BY DEF Producers
  <2> HIDE DEF e
  <2>5. OneNumberEach'
    BY <2>1, <2>2, <2>3, <2>4, GivesNumber
  <2>6. UNCHANGED <<lines, queue, received, got>>
    BY <1>6 DEF ObserverStops, connVars
  <2> QED
    BY <1>0, <2>5, <2>6 DEF Numbered, FromTheFile
<1>7. ASSUME CloseSubscribers PROVE Numbered'
  <2>1. UNCHANGED <<seq, lines, pc, cur, received, got>>
    BY <1>7 DEF CloseSubscribers, connVars, prodVars
  <2>2. OneNumberEach'
    BY <2>1, SameNumbers
  <2>3. ASSUME NEW d \in Clients PROVE Range(queue'[d]) \subseteq Range(queue[d]) \union {Sentinel}
    <3>1. queue[d] \in Seq(Item)
      BY DEF TypeInv
    <3>2. Range(Offered(d, Sentinel)) \subseteq Range(queue[d]) \union {Sentinel}
      BY <3>1, RangeAppend, EventFacts DEF Offered
    <3> QED
      BY <1>7, <3>2 DEF CloseSubscribers
  <2> QED
    BY <1>0, <2>1, <2>2, <2>3 DEF Numbered, FromTheFile
<1>8. ASSUME NEW c \in Clients, NEW how \in {"open", "socket"}, Subscribe(c, how) PROVE Numbered'
  <2>1. UNCHANGED <<seq, lines, pc, cur, received>>
    BY <1>8 DEF Subscribe
  <2>2. OneNumberEach'
    BY <2>1, SameNumbers
  <2>3. \A d \in Clients : /\ queue'[d] \in {queue[d], <<>>, <<Sentinel>>}
                           /\ got'[d] \in {got[d], <<>>}
    BY <1>8 DEF Subscribe, TypeInv
  <2> QED
    BY <1>0, <2>1, <2>2, <2>3 DEF Numbered, FromTheFile
<1>9. ASSUME UNCHANGED <<prodVars, queue, received, got>> PROVE Numbered'
  <2>1. UNCHANGED <<seq, lines, pc, cur>>
    BY <1>9 DEF prodVars
  <2>2. OneNumberEach'
    BY <2>1, SameNumbers
  <2> QED
    BY <1>0, <1>9, <2>1, <2>2 DEF Numbered, FromTheFile
<1>10. ASSUME NEW c \in Clients, NEW e \in Range(lines), UNCHANGED <<prodVars>>,
              Deliver(c, e) \/ UNCHANGED <<got, received>>,
              \A d \in Clients : Range(queue'[d]) \subseteq Range(queue[d])
       PROVE  Numbered'
  <2>1. UNCHANGED <<seq, lines, pc, cur>>
    BY <1>10 DEF prodVars
  <2>2. OneNumberEach'
    BY <2>1, SameNumbers
  <2>3. e \in Event
    BY RangeOf DEF TypeInv
  <2>4. \A d \in Clients : /\ received'[d] \subseteq received[d] \union {e}
                           /\ Range(got'[d]) \subseteq Range(got[d]) \union {e}
    BY <1>10, <2>3, Delivers
  <2> QED
    BY <1>0, <1>10, <2>1, <2>2, <2>4 DEF Numbered, FromTheFile
<1>11. ASSUME NEW c \in Clients, Replay(c) PROVE Numbered'
  <2>1. lines[pos[c] + 1] \in Range(lines)
    BY <1>11, RangeOf DEF Replay, TypeInv
  <2> QED
    BY <1>10, <1>11, <2>1 DEF Replay
<1>12. ASSUME NEW c \in Clients, queue[c] # <<>>, queue' = [queue EXCEPT ![c] = Tail(@)],
              Head(queue[c]) # Sentinel
       PROVE  /\ Head(queue[c]) \in Range(lines)
              /\ \A d \in Clients : Range(queue'[d]) \subseteq Range(queue[d])
  <2>1. Range(queue[c]) = {Head(queue[c])} \union Range(Tail(queue[c]))
    BY <1>12, RangeTail DEF TypeInv
  <2>2. Head(queue[c]) \in Range(lines)
    BY <1>0, <1>12, <2>1 DEF FromTheFile
  <2> QED
    BY <1>12, <2>1, <2>2 DEF TypeInv
<1>13. ASSUME NEW c \in Clients, Live(c) \/ LiveSocket(c) PROVE Numbered'
  <2>1. /\ Head(queue[c]) \in Range(lines)
        /\ \A d \in Clients : Range(queue'[d]) \subseteq Range(queue[d])
    BY <1>12, <1>13 DEF Live, LiveSocket
  <2> QED
    BY <1>10, <1>13, <2>1 DEF Live, LiveSocket
<1>14. ASSUME Crash PROVE Numbered'
  <2>1. seq' = LastSeq(lines) /\ UNCHANGED <<lines, received, got>>
    BY <1>14 DEF Crash
  <2>2. \A p \in Producers : pc'[p] = "idle"
    BY <1>14 DEF Crash
  <2>3. \A e \in Range(lines) : e.seq <= seq'
    BY <2>1, LastLine
  <2>4. pc'[Main] = "idle"
    BY <2>2 DEF Producers
  <2>5. OneNumberEach'
    BY <2>1, <2>2, <2>3, <2>4 DEF Numbered, OneNumberEach
  <2>6. \A c \in Clients : queue'[c] = <<>>
    BY <1>14 DEF Crash
  <2> QED
    BY <1>0, <2>1, <2>5, <2>6 DEF Numbered, FromTheFile
<1> QED
  <2>1. ASSUME NEW p \in Producers, Observe(p) \/ SinkStep(p) PROVE Numbered'
    BY <1>1, <1>2, <1>3, <1>4, <1>5, <2>1 DEF SinkStep
  <2>2. ASSUME ObserverStops \/ Shutdown \/ UNCHANGED vars PROVE Numbered'
    BY <1>6, <1>7, <1>9, <2>2 DEF Shutdown, StartClosing, connVars, vars
  <2>3. ASSUME NEW c \in Clients, Connect(c) \/ ConnectSocket(c) \/ StreamStep(c) \/ ClientLeaves(c) PROVE Numbered'
    BY <1>8, <1>9, <1>11, <1>13, <2>3
    DEF Connect, ConnectSocket, StreamStep, Header, ReplayEnds, SentinelEnds, BackstopEnds, ClientLeaves, Ends
  <2> QED
    BY <1>14, <2>1, <2>2, <2>3 DEF Next

\* The numbers, for ever.
LEMMA AlwaysNumbered == Spec => [](TypeInv /\ Numbered)
<1>1. Init => TypeInv /\ Numbered
  BY InitType, InitNumbered
<1>2. TypeInv /\ Numbered /\ [Next]_vars => (TypeInv /\ Numbered)'
  BY TypeStep, NumberedStep
<1> QED
  BY <1>1, <1>2, PTL DEF Spec

\* A sequence number that a client saw names one event for ever, over every
\* crash of the daemon (HistoryWriter.__init__ and append).
THEOREM NumbersAreUnique == Spec => []SeqNamesOneEvent
<1>1. TypeInv /\ Numbered => SeqNamesOneEvent
  BY DEF Numbered, OneNumberEach, FromTheFile, SeqNamesOneEvent
<1> QED
  BY <1>1, AlwaysNumbered, PTL

(***************************************************************************)
(* Ordered                                                                 *)
(***************************************************************************)
LEMMA OverlapStays == ASSUME TypeInv, [Next]_vars, overlapped PROVE overlapped'
BY DEF Next, Observe, Stamp, SinkStep, Write, ListSubscribers, Offer, SinkReturns, ObserverStops, Shutdown,
       CloseSubscribers, StartClosing, Connect, ConnectSocket, Subscribe, StreamStep, Header, Replay,
       ReplayEnds, Live, LiveSocket, SentinelEnds, BackstopEnds, ClientLeaves, Ends, Crash, prodVars, vars

LEMMA InitOrdered == Init => Ordered
<1> SUFFICES ASSUME Init PROVE Ordered
  OBVIOUS
<1>1. Range(<<>>) = {} /\ Rising(<<>>) /\ QueueRising(<<>>)
  BY DEF Range, Rising, QueueRising
<1>2. lines = <<>> /\ \A p \in Producers : pc[p] = "idle"
  BY DEF Init
<1>3. OneProducer
  BY <1>1, <1>2 DEF OneProducer, Producers
<1>4. ASSUME NEW c \in Clients PROVE InLine(c)
  <2>1. queue[c] = <<>> /\ got[c] = <<>> /\ conn[c] = "off"
    BY DEF Init
  <2> QED
    BY <1>1, <1>2, <2>1 DEF InLine, Coming
<1> QED
  BY <1>3, <1>4 DEF Ordered

\* A step that changes nothing on the connection of c, or ends it.
LEMMA QuietLine ==
  ASSUME NEW c \in Clients, InLine(c), queue'[c] \in {queue[c], <<>>}, got'[c] = got[c],
         conn'[c] \in {conn[c], "ended", "off"}, lastSent'[c] = lastSent[c], pos'[c] = pos[c],
         UNCHANGED lines,
         \A p \in Producers : Coming(p, c)' => Coming(p, c) /\ cur'[p] = cur[p]
  PROVE  InLine(c)'
<1>1. Range(<<>>) = {} /\ QueueRising(<<>>)
  BY DEF Range, QueueRising
<1>2. QueueRising(queue'[c]) /\ Range(queue'[c]) \subseteq Range(queue[c])
  BY <1>1 DEF InLine
<1>3. \A p \in Producers : Coming(p, c)' => \A e \in Range(queue'[c]) : e.seq < cur'[p].seq
  BY <1>2 DEF InLine
<1>4. conn'[c] = "socket" =>
        /\ \A g \in Range(got'[c]), e \in Range(queue'[c]) : e = Sentinel \/ g.seq < e.seq
        /\ \A p \in Producers : Coming(p, c)' => \A g \in Range(got'[c]) : g.seq < cur'[p].seq
  BY <1>2 DEF InLine
<1>5. conn'[c] \in {"replay", "live"} =>
        \A g \in Range(got'[c]) : lastSent'[c] # None /\ g.seq <= lastSent'[c]
  BY DEF InLine
<1>6. conn'[c] = "replay" =>
        \A g \in Range(got'[c]), i \in 1 .. Len(lines) : pos'[c] < i => g.seq < lines[i].seq
  BY DEF InLine
<1>7. Rising(got'[c]) /\ (conn'[c] = "open" => got'[c] = <<>> /\ pos'[c] = 0)
  BY DEF InLine
<1> QED
  BY <1>2, <1>3, <1>4, <1>5, <1>6, <1>7 DEF InLine

\* What is to come is an event that carries a number.
LEMMA ComingEvents ==
  ASSUME TypeInv, NEW c \in Clients, NEW p \in Producers, Coming(p, c)
  PROVE  cur[p] \in Event /\ cur[p].seq > None /\ pc[p] # "idle"
<1>1. pc[p] # "idle"
  BY DEF Coming
<1> QED
  BY <1>1, EventFacts DEF TypeInv

\* The newest number is past everything there is.
LEMMA NewestNumber ==
  ASSUME TypeInv, Numbered, Ordered, NEW p \in Producers, NEW e \in Event,
         e.seq = seq + 1, seq' = seq + 1, pc[p] = "idle", pc' = [pc EXCEPT ![p] = "stamped"],
         cur' = [cur EXCEPT ![p] = e], overlapped' = (overlapped \/ pc[Other(p)] # "idle"),
         UNCHANGED <<lines, targets, queue, got, conn, lastSent, pos>>
  PROVE  Ordered'
<1> SUFFICES ASSUME ~overlapped' PROVE OneProducer' /\ \A c \in Clients : InLine(c)'
  BY DEF Ordered
<1>1. OneProducer /\ \A c \in Clients : InLine(c)
  BY DEF Ordered
<1>2. pc'[p] = "stamped" /\ cur'[p] = e /\ \A q \in Producers : q # p => pc'[q] = "idle"
  BY StreamAssumption DEF TypeInv, Producers, Other
<1>3. seq \in Nat /\ Range(lines) \subseteq Event
  BY RangeOf DEF TypeInv
<1>4. \A f \in Range(lines) : f.seq < e.seq
  BY <1>3, EventFacts DEF Numbered, OneNumberEach
<1>5. OneProducer'
  BY <1>1, <1>2, <1>3, <1>4, EventFacts, StreamAssumption DEF OneProducer, Producers
<1>6. ASSUME NEW c \in Clients PROVE InLine(c)'
  <2>1. \A f \in Range(queue[c]) : f.seq < e.seq
    BY <1>4, EventFacts DEF Numbered, FromTheFile
  <2>2. \A f \in Range(got[c]) : f.seq < e.seq
    BY <1>4 DEF Numbered, FromTheFile
  <2>3. \A q \in Producers : Coming(q, c)' => q = p
    BY <1>2 DEF Coming
  <2>4. InLine(c)
    BY <1>1
  <2> QED
    BY <1>2, <2>1, <2>2, <2>3, <2>4 DEF InLine
<1> QED
  BY <1>5, <1>6

\* A producer that goes on through the sink, and a connection that goes on: nothing new is coming.
LEMMA SameProducer ==
  ASSUME TypeInv, OneProducer, UNCHANGED lines,
         \A p \in Producers :
           \/ pc'[p] = pc[p] /\ cur'[p] = cur[p]
           \/ pc'[p] = "idle"
           \/ pc[p] # "idle" /\ cur'[p] = cur[p]
  PROVE  OneProducer'
<1>1. Tracker \in Producers /\ Main \in Producers
  BY DEF Producers
<1>2. pc'[Tracker] = "idle" \/ pc'[Main] = "idle"
  BY <1>1 DEF OneProducer
<1>3. \A p \in Producers : pc'[p] # "idle" => pc[p] # "idle" /\ cur'[p] = cur[p]
  OBVIOUS
<1> QED
  BY <1>2, <1>3 DEF OneProducer

LEMMA WriteOrdered ==
  ASSUME TypeInv, Numbered, OneProducer, \A c \in Clients : InLine(c), NEW p \in Producers, Write(p)
  PROVE  OneProducer' /\ \A c \in Clients : InLine(c)'
<1>1. /\ pc[p] = "stamped" /\ pc'[p] = "written" /\ cur' = cur /\ lines' = Append(lines, cur[p])
      /\ UNCHANGED <<targets, queue, got, conn, lastSent, pos>>
      /\ \A q \in Producers : q # p => pc'[q] = pc[q]
  BY DEF Write, TypeInv, connVars
<1>2. \A q \in Producers : q # p => pc[q] = "idle"
  BY <1>1 DEF OneProducer, Producers
<1>3. cur[p] \in Event /\ Range(lines) \subseteq Event /\ lines \in Seq(Event)
  BY <1>1, RangeOf DEF TypeInv
<1>4. \A f \in Range(lines) : f.seq < cur[p].seq
  <2>1. \A f \in Range(lines) : f.seq <= cur[p].seq /\ f.seq # cur[p].seq
    BY <1>1 DEF OneProducer, Numbered, OneNumberEach
  <2> QED
    BY <1>3, <2>1, EventFacts
<1>5. Range(lines') = Range(lines) \union {cur[p]}
  BY WritesLine
<1>6. Rising(lines')
  BY <1>1, <1>3, <1>4, RisingAppend DEF OneProducer
<1>7. \A f \in Range(lines') : f.seq <= cur[p].seq
  BY <1>3, <1>4, <1>5, EventFacts
<1>8. OneProducer'
  BY <1>1, <1>2, <1>6, <1>7, StreamAssumption DEF OneProducer, Producers
<1>9. ASSUME NEW c \in Clients PROVE InLine(c)'
  <2>1. \A q \in Producers : Coming(q, c)' <=> Coming(q, c)
    BY <1>1 DEF Coming
  <2>2. InLine(c)
    OBVIOUS
  <2>3. ASSUME conn'[c] = "replay", NEW g \in Range(got'[c]), NEW i \in 1 .. Len(lines'), pos'[c] < i
        PROVE  g.seq < lines'[i].seq
    <3>1. Len(lines') = Len(lines) + 1 /\ lines'[Len(lines) + 1] = cur[p] /\ Len(lines) \in Nat
          /\ \A j \in 1 .. Len(lines) : lines'[j] = lines[j]
      BY <1>1, <1>3
    <3>2. g \in Range(lines)
      BY <1>1 DEF Numbered, FromTheFile
    <3>3. CASE i = Len(lines) + 1
      BY <1>4, <3>1, <3>2, <3>3
    <3>4. CASE i # Len(lines) + 1
      <4>1. i \in 1 .. Len(lines) /\ lines'[i] = lines[i]
        BY <3>1, <3>4
      <4> QED
        BY <1>1, <2>2, <2>3, <4>1 DEF InLine
    <3> QED
      BY <3>3, <3>4
  <2> QED
    BY <1>1, <2>1, <2>2, <2>3 DEF InLine
<1> QED
  BY <1>8, <1>9

LEMMA OfferOrdered ==
  ASSUME TypeInv, Numbered, OneProducer, \A c \in Clients : InLine(c), NEW p \in Producers, Offer(p)
  PROVE  OneProducer' /\ \A c \in Clients : InLine(c)'
<1>1. pc[p] = "offering" /\ UNCHANGED <<lines, pc, cur, got, conn, lastSent, pos>>
  BY DEF Offer, connVars
<1>2. PICK c \in targets[p] : /\ queue' = [queue EXCEPT ![c] = Offered(c, cur[p])]
                              /\ targets' = [targets EXCEPT ![p] = @ \ {c}]
  BY DEF Offer
<1>3. \A q \in Producers : q # p => pc[q] = "idle"
  BY <1>1 DEF OneProducer, Producers
<1>4. c \in Clients /\ targets'[p] = targets[p] \ {c} /\ cur[p] \in Event /\ cur[p] \in Item
  BY <1>1, <1>2 DEF TypeInv
<1>5. OneProducer'
  BY <1>1, SameProducer
<1>6. ASSUME NEW d \in Clients, d # c PROVE InLine(d)'
  <2>1. queue'[d] = queue[d]
    BY <1>2, <1>6 DEF TypeInv
  <2>2. \A q \in Producers : Coming(q, d)' => Coming(q, d) /\ cur'[q] = cur[q]
    BY <1>1, <1>3, <1>4 DEF Coming
  <2> QED
    BY <1>1, <2>1, <2>2, QuietLine
<1>7. InLine(c)'
  <2>1. InLine(c) /\ Coming(p, c) /\ queue[c] \in Seq(Item)
    BY <1>1, <1>2, <1>4 DEF Coming, TypeInv
  <2>2. \A q \in Producers : ~Coming(q, c)'
    BY <1>1, <1>3, <1>4 DEF Coming
  <2>3. queue'[c] = queue[c] \/ queue'[c] = Append(queue[c], cur[p])
    BY <1>2, <1>4 DEF Offered, TypeInv
  <2>4. QueueRising(Append(queue[c], cur[p]))
    BY <1>4, <2>1, QueueAppend DEF InLine
  <2>5. Range(Append(queue[c], cur[p])) = Range(queue[c]) \union {cur[p]}
    BY <1>4, <2>1, RangeAppend
  <2>6. QueueRising(queue'[c]) /\ Range(queue'[c]) \subseteq Range(queue[c]) \union {cur[p]}
    BY <2>1, <2>3, <2>4, <2>5 DEF InLine
  <2>7. conn[c] = "socket" => \A g \in Range(got[c]), e \in Range(queue'[c]) : e = Sentinel \/ g.seq < e.seq
    BY <2>1, <2>6 DEF InLine
  <2> QED
    BY <1>1, <2>1, <2>2, <2>6, <2>7 DEF InLine
<1> QED
  BY <1>5, <1>6, <1>7

\* A step of the connection of c alone.
LEMMA OwnStep ==
  ASSUME TypeInv, Ordered, NEW c \in Clients, UNCHANGED prodVars, InLine(c) => InLine(c)',
         \A d \in Clients : d # c =>
           /\ queue'[d] = queue[d] /\ got'[d] = got[d] /\ conn'[d] = conn[d]
           /\ lastSent'[d] = lastSent[d] /\ pos'[d] = pos[d]
  PROVE  Ordered'
<1> SUFFICES ASSUME ~overlapped' PROVE OneProducer' /\ \A d \in Clients : InLine(d)'
  BY DEF Ordered
<1>1. OneProducer /\ \A d \in Clients : InLine(d)
  BY DEF Ordered, prodVars
<1>2. UNCHANGED <<lines, pc, cur, targets>>
  BY DEF prodVars
<1>3. OneProducer'
  BY <1>1, <1>2, SameProducer
<1>4. ASSUME NEW d \in Clients, d # c PROVE InLine(d)'
  <2>1. \A p \in Producers : Coming(p, d)' => Coming(p, d) /\ cur'[p] = cur[p]
    BY <1>2 DEF Coming
  <2> QED
    BY <1>1, <1>2, <1>4, <2>1, QuietLine
<1> QED
  BY <1>1, <1>3, <1>4

LEMMA SubscribeOrdered ==
  ASSUME TypeInv, Ordered, NEW c \in Clients, NEW how \in {"open", "socket"}, Subscribe(c, how),
         UNCHANGED lastSent
  PROVE  Ordered'
<1> SUFFICES ASSUME ~overlapped' PROVE OneProducer' /\ \A d \in Clients : InLine(d)'
  BY DEF Ordered
<1>1. OneProducer /\ \A d \in Clients : InLine(d)
  BY DEF Ordered, Subscribe
<1>2. UNCHANGED <<lines, pc, cur>>
  BY DEF Subscribe
<1>3. OneProducer'
  BY <1>1, <1>2, SameProducer
<1>4. ASSUME NEW d \in Clients, d # c PROVE InLine(d)'
  <2>1. \A p \in Producers : Coming(p, d)' => Coming(p, d) /\ cur'[p] = cur[p]
    BY <1>2, <1>4 DEF Coming, Subscribe
  <2>2. /\ queue'[d] = queue[d] /\ got'[d] = got[d] /\ conn'[d] = conn[d]
        /\ lastSent'[d] = lastSent[d] /\ pos'[d] = pos[d]
    BY <1>4 DEF Subscribe, TypeInv
  <2> QED
    BY <1>1, <1>2, <2>1, <2>2, QuietLine
<1>5. InLine(c)'
  <2>1. /\ queue'[c] \in {<<>>, <<Sentinel>>} /\ got'[c] = <<>> /\ conn'[c] = how /\ pos'[c] = 0
    BY DEF Subscribe, TypeInv
  <2>2. Range(<<>>) = {} /\ Rising(<<>>) /\ Range(<<Sentinel>>) = {Sentinel}
    BY DEF Range, Rising
  <2>3. QueueRising(<<>>) /\ QueueRising(<<Sentinel>>)
    BY DEF QueueRising
  <2>5. \A p \in Producers : Coming(p, c)' => \A e \in Range(queue'[c]) : e.seq < cur'[p].seq
    <3>1. \A e \in Range(queue'[c]) : e.seq = -1
      BY <2>1, <2>2, EventFacts
    <3>2. \A p \in Producers : Coming(p, c)' => cur'[p].seq \in Nat
      <4>1. \A p \in Producers : Coming(p, c)' => pc[p] # "idle"
        BY <1>2 DEF Coming
      <4> QED
        BY <1>2, <4>1, EventFacts DEF TypeInv
    <3> QED
      BY <3>1, <3>2
  <2> QED
    BY <2>1, <2>2, <2>3, <2>5 DEF InLine
<1> QED
  BY <1>3, <1>4, <1>5

LEMMA CloseOrdered == ASSUME TypeInv, Ordered, CloseSubscribers PROVE Ordered'
<1> SUFFICES ASSUME ~overlapped' PROVE OneProducer' /\ \A c \in Clients : InLine(c)'
  BY DEF Ordered
<1>1. OneProducer /\ \A c \in Clients : InLine(c)
  BY DEF Ordered, CloseSubscribers, prodVars
<1>2. UNCHANGED <<lines, pc, cur, targets, got, conn, lastSent, pos>>
  BY DEF CloseSubscribers, prodVars, connVars
<1>3. OneProducer'
  BY <1>1, <1>2, SameProducer
<1>4. ASSUME NEW c \in Clients PROVE InLine(c)'
  <2>1. InLine(c) /\ queue[c] \in Seq(Item) /\ Sentinel \in Item
    BY <1>1, EventFacts DEF TypeInv
  <2>2. queue'[c] = queue[c] \/ queue'[c] = Append(queue[c], Sentinel)
    BY DEF CloseSubscribers, Offered
  <2>3. QueueRising(Append(queue[c], Sentinel))
    BY <2>1, QueueAppend DEF InLine
  <2>4. Range(Append(queue[c], Sentinel)) = Range(queue[c]) \union {Sentinel}
    BY <2>1, RangeAppend
  <2>5. QueueRising(queue'[c]) /\ Range(queue'[c]) \subseteq Range(queue[c]) \union {Sentinel}
    BY <2>1, <2>2, <2>3, <2>4 DEF InLine
  <2>6. \A p \in Producers : Coming(p, c)' => Coming(p, c)
    BY <1>2 DEF Coming
  <2>7. \A p \in Producers : Coming(p, c) => Sentinel.seq < cur[p].seq
    BY ComingEvents, EventFacts
  <2>8. \A p \in Producers : Coming(p, c)' => \A e \in Range(queue'[c]) : e.seq < cur'[p].seq
    BY <1>2, <2>1, <2>5, <2>6, <2>7 DEF InLine
  <2>9. conn[c] = "socket" => \A g \in Range(got[c]), e \in Range(queue'[c]) : e = Sentinel \/ g.seq < e.seq
    BY <2>1, <2>5 DEF InLine
  <2> QED
    BY <1>2, <2>1, <2>5, <2>6, <2>8, <2>9 DEF InLine
<1> QED
  BY <1>3, <1>4

LEMMA HeaderOrdered == ASSUME TypeInv, Ordered, NEW c \in Clients, Header(c) PROVE Ordered'
<1>1. /\ conn[c] = "open" /\ conn'[c] \in {"replay", "live"} /\ UNCHANGED <<prodVars, queue, got, pos>>
      /\ \A d \in Clients : d # c => conn'[d] = conn[d] /\ lastSent'[d] = lastSent[d]
  BY DEF Header, TypeInv
<1>2. ASSUME InLine(c) PROVE InLine(c)'
  <2>1. \A p \in Producers : Coming(p, c)' <=> Coming(p, c)
    BY <1>1 DEF Coming, prodVars
  <2>2. got[c] = <<>> /\ Range(<<>>) = {}
    BY <1>1, <1>2 DEF InLine, Range
  <2> QED
    BY <1>1, <1>2, <2>1, <2>2 DEF InLine, prodVars
<1> QED
  BY <1>1, <1>2, OwnStep

\* What is written to a client is past all that was written before.
LEMMA GotRises ==
  ASSUME TypeInv, NEW c \in Clients, NEW e \in Event, Deliver(c, e),
         Rising(got[c]), \A g \in Range(got[c]) : g.seq < e.seq
  PROVE  Rising(got'[c]) /\ \A g \in Range(got'[c]) : g.seq <= e.seq
<1>1. got[c] \in Seq(Event) /\ got'[c] = Append(got[c], e) /\ Range(got'[c]) = Range(got[c]) \union {e}
  BY Delivers DEF TypeInv
<1>2. Range(got[c]) \subseteq Event
  BY <1>1, RangeOf
<1>3. Rising(got'[c])
  BY <1>1, RisingAppend
<1> QED
  BY <1>1, <1>2, <1>3, EventFacts

LEMMA ReplayOrdered ==
  ASSUME TypeInv, Numbered, Ordered, ~overlapped, NEW c \in Clients, Replay(c)
  PROVE  Ordered'
<1> DEFINE e == lines[pos[c] + 1]
<1>1. conn[c] = "replay" /\ pos[c] \in Nat /\ Len(lines) \in Nat /\ pos[c] + 1 \in 1 .. Len(lines) /\ e \in Event
  BY DEF Replay, TypeInv
<1>2. /\ \/ Deliver(c, e) /\ lastSent' = [lastSent EXCEPT ![c] = e.seq]
         \/ UNCHANGED <<got, received, lastSent>>
      /\ UNCHANGED <<prodVars, conn, queue>>
      /\ pos' = [pos EXCEPT ![c] = @ + 1]
  BY DEF Replay
<1>3. pos'[c] = pos[c] + 1 /\ \A d \in Clients : d # c => pos'[d] = pos[d]
  BY <1>2 DEF TypeInv
<1>4. \A i \in 1 .. Len(lines) : pos[c] + 1 < i => e.seq < lines[i].seq
  BY <1>1 DEF Ordered, OneProducer, Rising
<1>5. ASSUME InLine(c), NEW g \in Range(got[c]) PROVE g.seq < e.seq
  BY <1>1, <1>5 DEF InLine
<1> HIDE DEF e
<1>6. \A d \in Clients : d # c => lastSent'[d] = lastSent[d] /\ got'[d] = got[d]
  BY <1>1, <1>2, Delivers DEF TypeInv
<1>7. ASSUME InLine(c) PROVE InLine(c)'
  <2>1. \A p \in Producers : Coming(p, c)' <=> Coming(p, c)
    BY <1>2 DEF Coming, prodVars
  <2>2. UNCHANGED <<lines, cur, queue, conn>>
    BY <1>2 DEF prodVars
  <2>3. CASE Deliver(c, e) /\ lastSent' = [lastSent EXCEPT ![c] = e.seq]
    <3>1. Rising(got'[c]) /\ \A g \in Range(got'[c]) : g.seq <= e.seq
      BY <1>1, <1>5, <1>7, <2>3, GotRises DEF InLine
    <3>2. lastSent'[c] = e.seq /\ e.seq # None /\ e.seq \in Nat
      BY <1>1, <2>3, EventFacts DEF TypeInv
    <3>3. Range(got'[c]) = Range(got[c]) \union {e} /\ Range(got[c]) \subseteq Event
      BY <1>1, <2>3, Delivers, RangeOf DEF TypeInv
    <3>4. \A i \in 1 .. Len(lines) : lines[i].seq \in Nat
      BY EventFacts DEF TypeInv
    <3>5. \A g \in Range(got'[c]), i \in 1 .. Len(lines) : pos'[c] < i => g.seq < lines[i].seq
      <4>1. \A g \in Range(got[c]), i \in 1 .. Len(lines) : pos[c] + 1 < i => g.seq < lines[i].seq
        BY <1>1, <1>7 DEF InLine
      <4> QED
        BY <1>3, <1>4, <3>3, <4>1
    <3> QED
      BY <1>1, <1>7, <2>1, <2>2, <3>1, <3>2, <3>5 DEF InLine
  <2>4. CASE UNCHANGED <<got, received, lastSent>>
    <3>1. \A g \in Range(got[c]), i \in 1 .. Len(lines) : pos[c] + 1 < i => g.seq < lines[i].seq
      BY <1>1, <1>7 DEF InLine
    <3> QED
      BY <1>1, <1>3, <1>7, <2>1, <2>2, <2>4, <3>1 DEF InLine
  <2> QED
    BY <1>2, <2>3, <2>4
<1> QED
  BY <1>2, <1>3, <1>6, <1>7, OwnStep

\* The head of a queue is taken off.
LEMMA TakesHead ==
  ASSUME TypeInv, NEW c \in Clients, InLine(c), queue[c] # <<>>, Head(queue[c]) # Sentinel,
         queue' = [queue EXCEPT ![c] = Tail(@)]
  PROVE  /\ Head(queue[c]) \in Event
         /\ QueueRising(queue'[c])
         /\ Range(queue[c]) = {Head(queue[c])} \union Range(queue'[c])
         /\ \A e \in Range(queue'[c]) : e = Sentinel \/ Head(queue[c]).seq < e.seq
         /\ \A d \in Clients : d # c => queue'[d] = queue[d]
<1>1. queue'[c] = Tail(queue[c]) /\ queue[c] \in Seq(Item)
  BY DEF TypeInv
<1>2. Range(queue[c]) = {Head(queue[c])} \union Range(Tail(queue[c])) /\ Head(queue[c]) \in Item
  BY <1>1, RangeTail
<1>3. /\ QueueRising(Tail(queue[c]))
      /\ \A e \in Range(Tail(queue[c])) : e = Sentinel \/ Head(queue[c]).seq < e.seq
  BY <1>1, QueueTail DEF InLine
<1>4. \A d \in Clients : d # c => queue'[d] = queue[d]
  BY DEF TypeInv
<1> QED
  BY <1>1, <1>2, <1>3, <1>4, EventFacts

LEMMA LiveOrdered == ASSUME TypeInv, Ordered, ~overlapped, NEW c \in Clients, Live(c) PROVE Ordered'
<1> DEFINE e == Head(queue[c])
<1>1. /\ conn[c] = "live" /\ queue[c] # <<>> /\ e # Sentinel
      /\ queue' = [queue EXCEPT ![c] = Tail(@)]
      /\ \/ /\ lastSent[c] = None \/ ~(e.seq <= lastSent[c])
            /\ Deliver(c, e) /\ lastSent' = [lastSent EXCEPT ![c] = e.seq]
         \/ UNCHANGED <<got, received, lastSent>>
      /\ UNCHANGED <<prodVars, conn, pos>>
  BY DEF Live, AlreadySent
<1>2. InLine(c)
  BY DEF Ordered
<1>3. /\ e \in Event /\ QueueRising(queue'[c]) /\ Range(queue'[c]) \subseteq Range(queue[c])
      /\ \A d \in Clients : d # c => queue'[d] = queue[d]
  BY <1>1, <1>2, TakesHead
<1> HIDE DEF e
<1>4. \A d \in Clients : d # c => lastSent'[d] = lastSent[d] /\ got'[d] = got[d]
  BY <1>1, <1>3, Delivers DEF TypeInv
<1>5. UNCHANGED <<lines, pc, cur, targets>>
  BY <1>1 DEF prodVars
<1>6. /\ \A p \in Producers : Coming(p, c)' => \A f \in Range(queue'[c]) : f.seq < cur'[p].seq
      /\ \A p \in Producers : Coming(p, c)' => Coming(p, c)
  BY <1>2, <1>3, <1>5 DEF InLine, Coming
<1>7. CASE Deliver(c, e) /\ (lastSent[c] = None \/ ~(e.seq <= lastSent[c])) /\ lastSent' = [lastSent EXCEPT ![c] = e.seq]
  <2>1. \A g \in Range(got[c]) : g.seq \in Nat /\ lastSent[c] # None /\ g.seq <= lastSent[c]
    <3>1. Range(got[c]) \subseteq Event
      BY RangeOf DEF TypeInv
    <3> QED
      BY <1>1, <1>2, <3>1, EventFacts DEF InLine
  <2>2. lastSent[c] \in Int /\ e.seq \in Nat /\ e.seq # None /\ lastSent'[c] = e.seq
    BY <1>3, <1>7, EventFacts DEF TypeInv
  <2>3. \A g \in Range(got[c]) : g.seq < e.seq
    BY <1>7, <2>1, <2>2
  <2>4. Rising(got'[c]) /\ \A g \in Range(got'[c]) : g.seq <= e.seq
    BY <1>2, <1>3, <1>7, <2>3, GotRises DEF InLine
  <2>5. InLine(c)'
    BY <1>1, <1>2, <1>3, <1>6, <2>2, <2>4 DEF InLine
  <2> QED
    BY <1>1, <1>3, <1>4, <2>5, OwnStep
<1>8. CASE UNCHANGED <<got, received, lastSent>>
  <2>1. InLine(c)'
    BY <1>1, <1>2, <1>3, <1>6, <1>8 DEF InLine
  <2> QED
    BY <1>1, <1>3, <1>4, <2>1, OwnStep
<1> QED
  BY <1>1, <1>7, <1>8

LEMMA LiveSocketOrdered ==
  ASSUME TypeInv, Ordered, ~overlapped, NEW c \in Clients, LiveSocket(c)
  PROVE  Ordered'
<1> DEFINE e == Head(queue[c])
<1>1. /\ conn[c] = "socket" /\ queue[c] # <<>> /\ e # Sentinel
      /\ queue' = [queue EXCEPT ![c] = Tail(@)]
      /\ Deliver(c, e)
      /\ UNCHANGED <<prodVars, conn, pos, lastSent>>
  BY DEF LiveSocket
<1>2. InLine(c)
  BY DEF Ordered
<1>3. /\ e \in Event /\ QueueRising(queue'[c]) /\ Range(queue[c]) = {e} \union Range(queue'[c])
      /\ \A f \in Range(queue'[c]) : f = Sentinel \/ e.seq < f.seq
      /\ \A d \in Clients : d # c => queue'[d] = queue[d]
  BY <1>1, <1>2, TakesHead
<1> HIDE DEF e
<1>4. /\ \A d \in Clients : d # c => got'[d] = got[d]
      /\ Range(got'[c]) = Range(got[c]) \union {e}
  BY <1>1, <1>3, Delivers
<1>5. UNCHANGED <<lines, pc, cur, targets>>
  BY <1>1 DEF prodVars
<1>6. \A p \in Producers : Coming(p, c)' => Coming(p, c)
  BY <1>5 DEF Coming
<1>7. \A p \in Producers : Coming(p, c) => \A f \in Range(got'[c]) \union Range(queue'[c]) : f.seq < cur[p].seq
  BY <1>1, <1>2, <1>3, <1>4 DEF InLine
<1>8. Rising(got'[c])
  BY <1>1, <1>2, <1>3, GotRises DEF InLine
<1>9. \A g \in Range(got'[c]), f \in Range(queue'[c]) : f = Sentinel \/ g.seq < f.seq
  BY <1>1, <1>2, <1>3, <1>4 DEF InLine
<1>10. InLine(c)'
  BY <1>1, <1>3, <1>5, <1>6, <1>7, <1>8, <1>9 DEF InLine
<1> QED
  BY <1>1, <1>3, <1>4, <1>10, OwnStep

LEMMA OrderedStep == ASSUME TypeInv, Numbered, Ordered, [Next]_vars PROVE Ordered'
<1> SUFFICES ASSUME ~overlapped' PROVE Ordered'
  BY DEF Ordered
<1>0. ~overlapped /\ OneProducer /\ \A c \in Clients : InLine(c)
  BY OverlapStays DEF Ordered
<1>1. ASSUME NEW p \in Producers, Observe(p) PROVE Ordered'
  <2>1. PICK k \in Kinds : Stamp(p, k)
    BY <1>1 DEF Observe
  <2> DEFINE e == [seq |-> seq', kind |-> k, id |-> made']
  <2>2. seq' \in Nat \ {0} /\ made' \in Nat /\ k \in Kinds \union {Stopped} /\ seq' = seq + 1
    BY <2>1 DEF Stamp, TypeInv
  <2>3. e \in Event /\ e.seq = seq + 1
    BY <2>2, Carries
  <2>4. /\ cur' = [cur EXCEPT ![p] = e] /\ pc' = [pc EXCEPT ![p] = "stamped"] /\ pc[p] = "idle"
        /\ overlapped' = (overlapped \/ pc[Other(p)] # "idle")
        /\ UNCHANGED <<lines, targets, queue, got, conn, lastSent, pos>>
    BY <2>1 DEF Stamp, connVars
  <2> HIDE DEF e
  <2> QED
    BY <2>2, <2>3, <2>4, NewestNumber
<1>2. ASSUME ObserverStops PROVE Ordered'
  <2> DEFINE e == [seq |-> seq', kind |-> Stopped, id |-> made']
  <2>1. seq' \in Nat \ {0} /\ made' \in Nat /\ Stopped \in Kinds \union {Stopped} /\ seq' = seq + 1
    BY <1>2 DEF ObserverStops, TypeInv
  <2>2. e \in Event /\ e.seq = seq + 1
    BY <2>1, Carries
  <2>3. Main \in Producers /\ Other(Main) = Tracker
    BY DEF Producers, Other
  <2>4. /\ cur' = [cur EXCEPT ![Main] = e] /\ pc' = [pc EXCEPT ![Main] = "stamped"] /\ pc[Main] = "idle"
        /\ overlapped' = (overlapped \/ pc[Other(Main)] # "idle")
        /\ UNCHANGED <<lines, targets, queue, got, conn, lastSent, pos>>
    BY <1>2, <2>3 DEF ObserverStops, connVars
  <2> HIDE DEF e
  <2> QED
    BY <2>1, <2>2, <2>3, <2>4, NewestNumber
<1>3. ASSUME NEW p \in Producers, Write(p) \/ Offer(p) PROVE Ordered'
  BY <1>0, <1>3, WriteOrdered, OfferOrdered DEF Ordered
<1>4. ASSUME NEW p \in Producers, ListSubscribers(p) \/ SinkReturns(p) PROVE Ordered'
  <2>1. /\ UNCHANGED <<lines, queue, got, conn, lastSent, pos>>
        /\ \A q \in Producers : q # p => pc'[q] = pc[q] /\ cur'[q] = cur[q] /\ targets'[q] = targets[q]
        /\ \/ pc'[p] = "idle"
           \/ pc[p] = "written" /\ pc'[p] = "offering" /\ cur'[p] = cur[p]
    BY <1>4 DEF ListSubscribers, SinkReturns, connVars, TypeInv
  <2>2. OneProducer'
    BY <1>0, <2>1, SameProducer
  <2>3. \A c \in Clients : \A q \in Producers : Coming(q, c)' => Coming(q, c) /\ cur'[q] = cur[q]
    BY <2>1 DEF Coming
  <2> QED
    BY <1>0, <2>1, <2>2, <2>3, QuietLine DEF Ordered
<1>5. ASSUME NEW c \in Clients, ReplayEnds(c) \/ Ends(c) PROVE Ordered'
  <2>1. /\ UNCHANGED <<prodVars, queue, got, lastSent, pos>>
        /\ \A d \in Clients : d # c => conn'[d] = conn[d]
        /\ conn'[c] = "ended" \/ (conn[c] = "replay" /\ conn'[c] = "live")
    BY <1>5 DEF ReplayEnds, Ends, TypeInv
  <2>2. \A p \in Producers : Coming(p, c)' => Coming(p, c) /\ cur'[p] = cur[p]
    BY <2>1 DEF Coming, prodVars
  <2>3. InLine(c)'
    BY <1>0, <2>1, <2>2 DEF InLine, prodVars
  <2> QED
    BY <2>1, <2>3, OwnStep
<1>6. ASSUME NEW c \in Clients, Connect(c) \/ ConnectSocket(c) PROVE Ordered'
  BY <1>6, SubscribeOrdered DEF Connect, ConnectSocket
<1>7. ASSUME NEW c \in Clients, Header(c) \/ Replay(c) \/ Live(c) \/ LiveSocket(c) PROVE Ordered'
  BY <1>0, <1>7, HeaderOrdered, ReplayOrdered, LiveOrdered, LiveSocketOrdered
<1>8. ASSUME StartClosing \/ UNCHANGED vars PROVE Ordered'
  <2>1. UNCHANGED <<lines, pc, cur, targets, queue, got, conn, lastSent, pos>>
    BY <1>8 DEF StartClosing, vars, prodVars, connVars
  <2>2. OneProducer'
    BY <1>0, <2>1, SameProducer
  <2>3. \A c \in Clients : \A q \in Producers : Coming(q, c)' => Coming(q, c) /\ cur'[q] = cur[q]
    BY <2>1 DEF Coming
  <2> QED
    BY <1>0, <2>1, <2>2, <2>3, QuietLine DEF Ordered
<1>9. ASSUME Crash PROVE Ordered'
  <2>1. /\ UNCHANGED <<lines, got, lastSent, pos>>
        /\ \A c \in Clients : queue'[c] = <<>> /\ conn'[c] \in {"off", "ended"}
        /\ \A p \in Producers : pc'[p] = "idle"
    BY <1>9 DEF Crash
  <2>2. OneProducer'
    BY <1>0, <2>1, SameProducer
  <2>3. \A c \in Clients : \A q \in Producers : ~Coming(q, c)'
    BY <2>1 DEF Coming
  <2> QED
    BY <1>0, <2>1, <2>2, <2>3, QuietLine DEF Ordered
<1> QED
  BY <1>1, <1>2, <1>3, <1>4, <1>5, <1>6, <1>7, <1>8, <1>9, CloseOrdered
  DEF Next, SinkStep, Shutdown, StreamStep, SentinelEnds, BackstopEnds, ClientLeaves

LEMMA AlwaysOrdered == Spec => [](TypeInv /\ Numbered /\ Ordered)
<1>1. Init => TypeInv /\ Numbered /\ Ordered
  BY InitType, InitNumbered, InitOrdered
<1>2. TypeInv /\ Numbered /\ Ordered /\ [Next]_vars => (TypeInv /\ Numbered /\ Ordered)'
  BY TypeStep, NumberedStep, OrderedStep
<1> QED
  BY <1>1, <1>2, PTL DEF Spec

\* Within one connection every number is delivered at most once and in order
\* (ApiHandler.stream_events), while the producers never met in the sink.
THEOREM DeliversInOrder == Spec => []OncePerConnection
<1>1. Ordered => OncePerConnection
  BY DEF Ordered, InLine, Rising, OncePerConnection, InOrder
<1> QED
  BY <1>1, AlwaysOrdered, PTL

(***************************************************************************)
(* Complete                                                                *)
(***************************************************************************)
LEMMA InitComplete == Init => Complete
BY DEF Init, Complete, Streaming, Resumed

\* A step that takes nothing that is due to c away and leaves its connection alone.
LEMMA QuietWay ==
  ASSUME NEW c \in Clients, TypeInv, OnItsWay(c), seq' \in Nat, seq <= seq', UNCHANGED lines,
         conn'[c] = conn[c], after'[c] = after[c], got'[c] = got[c], pos'[c] = pos[c],
         lastSent'[c] = lastSent[c],
         \A e \in Range(lines) : Due(c, e) /\ e \in Range(queue[c]) \union InFlight(c) =>
           e \in Range(queue'[c]) \union InFlight(c)'
  PROVE  OnItsWay(c)'
<1>1. \A e \in Range(lines) : Due(c, e)' <=> Due(c, e)
  BY DEF Due
<1>2. \A i \in 1 .. Len(lines) : lines[i] \in Range(lines)
  BY RangeOf DEF TypeInv
<1>3. conn'[c] = "open" => after'[c] <= seq' /\ pos'[c] = 0
  BY DEF OnItsWay, TypeInv
<1>4. \A e \in Range(lines) : Due(c, e)' =>
        \/ e \in Range(got'[c]) \union Range(queue'[c]) \union InFlight(c)'
        \/ conn'[c] \in {"open", "replay"} /\ \E i \in 1 .. Len(lines) : pos'[c] < i /\ lines[i] = e
  BY <1>1 DEF OnItsWay
<1>5. conn'[c] = "replay" =>
        /\ pos'[c] <= Len(lines)
        /\ \A i \in 1 .. Len(lines) : i <= pos'[c] /\ Due(c, lines[i])' => lines[i] \in Range(got'[c])
  BY <1>1, <1>2 DEF OnItsWay
<1>6. conn'[c] \in {"replay", "live"} =>
        /\ lastSent'[c] # None
        /\ lastSent'[c] > after'[c] => \E e \in Range(lines) : e.seq = lastSent'[c]
  BY DEF OnItsWay
<1>7. conn'[c] = "live" =>
        \A e \in Range(lines) : Due(c, e)' /\ e.seq <= lastSent'[c] => e \in Range(got'[c])
  BY <1>1 DEF OnItsWay
<1> QED
  BY <1>3, <1>4, <1>5, <1>6, <1>7 DEF OnItsWay, Due

\* A step of the sink or of the daemon: the connections stay what they are.
LEMMA SinkWay ==
  ASSUME TypeInv, Complete, seq' \in Nat, seq <= seq', UNCHANGED <<lines, connVars, subs>>,
         \A c \in Clients : ~dropped'[c] => ~dropped[c], overlapped => overlapped',
         \A c \in Clients : Resumed(c) /\ ~dropped'[c] => \A e \in Range(lines) :
           Due(c, e) /\ e \in Range(queue[c]) \union InFlight(c) =>
             e \in Range(queue'[c]) \union InFlight(c)'
  PROVE  Complete'
<1>1. ASSUME NEW c \in Clients PROVE /\ (Streaming(c) \/ conn[c] = "socket" => c \in subs)'
                                     /\ (Resumed(c) => OnItsWay(c))'
  <2>1. UNCHANGED <<conn, after, got, pos, lastSent>>
    BY DEF connVars
  <2>2. (Streaming(c) \/ conn[c] = "socket" => c \in subs)'
    BY <2>1 DEF Complete, Streaming
  <2>3. ASSUME Resumed(c)' PROVE OnItsWay(c)'
    <3>1. Resumed(c) /\ ~dropped'[c]
      BY <2>1, <2>3 DEF Resumed, Streaming
    <3> QED
      BY <2>1, <3>1, QuietWay DEF Complete
  <2> QED
    BY <2>2, <2>3
<1> QED
  BY <1>1 DEF Complete

LEMMA WriteWay ==
  ASSUME TypeInv, Numbered, Ordered, Complete, NEW p \in Producers, Write(p)
  PROVE  Complete'
<1>1. /\ pc[p] = "stamped" /\ pc'[p] = "written" /\ cur' = cur /\ lines' = Append(lines, cur[p])
      /\ UNCHANGED <<seq, targets, queue, got, conn, after, lastSent, pos, subs, dropped, overlapped>>
      /\ \A q \in Producers : q # p => pc'[q] = pc[q]
  BY DEF Write, TypeInv, connVars
<1>2. cur[p] \in Event /\ Range(lines) \subseteq Event /\ lines \in Seq(Event)
  BY <1>1, RangeOf DEF TypeInv
<1>3. Range(lines') = Range(lines) \union {cur[p]}
  BY WritesLine
<1>4. /\ Len(lines') = Len(lines) + 1 /\ lines'[Len(lines) + 1] = cur[p] /\ Len(lines) \in Nat
      /\ \A j \in 1 .. Len(lines) : lines'[j] = lines[j]
  BY <1>1, <1>2
<1>5. ASSUME NEW c \in Clients, Resumed(c) PROVE OnItsWay(c)'
  <2>1. OnItsWay(c) /\ pos[c] \in Nat
    BY <1>5 DEF Complete, TypeInv
  <2>2. \A e : Due(c, e)' <=> Due(c, e)
    BY <1>1 DEF Due
  <2>3. cur[p] \in InFlight(c)' /\ \A e \in InFlight(c) : e \in InFlight(c)'
    BY <1>1 DEF InFlight
  <2>4. \A e \in Range(lines') : Due(c, e) =>
          \/ e \in Range(got'[c]) \union Range(queue'[c]) \union InFlight(c)'
          \/ conn'[c] \in {"open", "replay"} /\ \E i \in 1 .. Len(lines') : pos'[c] < i /\ lines'[i] = e
    <3> SUFFICES ASSUME NEW e \in Range(lines'), Due(c, e)
                 PROVE  \/ e \in Range(got'[c]) \union Range(queue'[c]) \union InFlight(c)'
                        \/ conn'[c] \in {"open", "replay"} /\ \E i \in 1 .. Len(lines') : pos'[c] < i /\ lines'[i] = e
      OBVIOUS
    <3>1. CASE e = cur[p]
      BY <2>3, <3>1
    <3>2. CASE e \in Range(lines)
      <4>1. \/ e \in Range(got[c]) \union Range(queue[c]) \union InFlight(c)
            \/ conn[c] \in {"open", "replay"} /\ \E i \in 1 .. Len(lines) : pos[c] < i /\ lines[i] = e
        BY <2>1, <3>2 DEF OnItsWay
      <4>2. ASSUME NEW i \in 1 .. Len(lines), pos[c] < i, lines[i] = e
            PROVE  i \in 1 .. Len(lines') /\ pos'[c] < i /\ lines'[i] = e
        BY <1>1, <1>4, <4>2
      <4> QED
        BY <1>1, <2>3, <4>1, <4>2
    <3> QED
      BY <1>3, <3>1, <3>2
  <2>5. conn'[c] = "replay" =>
          /\ pos'[c] <= Len(lines')
          /\ \A i \in 1 .. Len(lines') : i <= pos'[c] /\ Due(c, lines'[i]) => lines'[i] \in Range(got'[c])
    <3>1. conn[c] = "replay" => pos[c] <= Len(lines)
      BY <2>1 DEF OnItsWay
    <3>2. ASSUME conn[c] = "replay", NEW i \in 1 .. Len(lines'), i <= pos[c]
          PROVE  i \in 1 .. Len(lines) /\ lines'[i] = lines[i]
      BY <1>4, <2>1, <3>1, <3>2
    <3> QED
      BY <1>1, <1>4, <2>1, <3>1, <3>2 DEF OnItsWay
  <2>6. conn'[c] \in {"replay", "live"} =>
          /\ lastSent'[c] # None
          /\ lastSent'[c] > after'[c] => \E e \in Range(lines') : e.seq = lastSent'[c]
    BY <1>1, <1>3, <2>1 DEF OnItsWay
  <2>7. ASSUME conn'[c] = "live", NEW e \in Range(lines'), Due(c, e), e.seq <= lastSent'[c]
        PROVE  e \in Range(got'[c])
    <3>1. CASE e \in Range(lines)
      BY <1>1, <2>1, <2>7, <3>1 DEF OnItsWay
    <3>2. CASE e = cur[p]
      <4>1. lastSent[c] > after[c]
        BY <1>1, <1>2, <2>7, <3>2, EventFacts DEF Due, TypeInv
      <4>2. PICK f \in Range(lines) : f.seq = lastSent[c]
        BY <1>1, <2>1, <2>7, <4>1 DEF OnItsWay
      <4>3. f.seq <= cur[p].seq /\ f.seq # cur[p].seq
        BY <1>1, <1>5 DEF Ordered, Resumed, OneProducer, Numbered, OneNumberEach
      <4>4. FALSE
        BY <1>1, <1>2, <2>7, <3>2, <4>2, <4>3, EventFacts
      <4> QED
        BY <4>4
    <3> QED
      BY <1>3, <2>7, <3>1, <3>2
  <2>8. conn'[c] = "open" => after'[c] <= seq' /\ pos'[c] = 0
    BY <1>1, <2>1 DEF OnItsWay
  <2> QED
    BY <2>2, <2>4, <2>5, <2>6, <2>7, <2>8 DEF OnItsWay
<1>6. ASSUME NEW c \in Clients PROVE (Streaming(c) \/ conn[c] = "socket" => c \in subs)'
  BY <1>1 DEF Complete, Streaming
<1>7. ASSUME NEW c \in Clients, Resumed(c)' PROVE Resumed(c)
  BY <1>1, <1>7 DEF Resumed, Streaming
<1> QED
  BY <1>5, <1>6, <1>7 DEF Complete

LEMMA OfferWay == ASSUME TypeInv, Numbered, Complete, NEW p \in Producers, Offer(p) PROVE Complete'
<1>1. pc[p] = "offering" /\ UNCHANGED <<seq, lines, pc, cur, overlapped, connVars, subs>>
  BY DEF Offer
<1>2. PICK c \in targets[p] : /\ queue' = [queue EXCEPT ![c] = Offered(c, cur[p])]
                              /\ dropped' = [dropped EXCEPT ![c] = @ \/ Len(queue[c]) >= QueueSize]
                              /\ targets' = [targets EXCEPT ![p] = @ \ {c}]
  BY DEF Offer
<1>3. c \in Clients /\ cur[p] \in Item /\ queue[c] \in Seq(Item)
  BY <1>2 DEF TypeInv
<1>4. /\ queue'[c] = Offered(c, cur[p]) /\ targets'[p] = targets[p] \ {c}
      /\ \A d \in Clients : d # c => queue'[d] = queue[d]
      /\ \A q \in Producers : q # p => targets'[q] = targets[q]
      /\ \A d \in Clients : ~dropped'[d] => ~dropped[d]
      /\ ~dropped'[c] => ~(Len(queue[c]) >= QueueSize)
  BY <1>2, <1>3 DEF TypeInv
<1>5. Range(Append(queue[c], cur[p])) = Range(queue[c]) \union {cur[p]}
  BY <1>3, RangeAppend
<1>6. ~dropped'[c] => Range(queue'[c]) = Range(queue[c]) \union {cur[p]}
  <2>1. Len(queue[c]) \in Nat /\ QueueSize \in Nat
    BY <1>3, StreamAssumption
  <2> QED
    BY <1>4, <1>5, <2>1 DEF Offered
<1>7. ASSUME NEW d \in Clients, d # c PROVE \A e \in InFlight(d) : e \in InFlight(d)'
  BY <1>1, <1>4, <1>7 DEF InFlight
<1>8. \A e \in InFlight(c) : e = cur[p] \/ e \in InFlight(c)'
  BY <1>1, <1>4 DEF InFlight
<1>9. ASSUME NEW d \in Clients, ~dropped'[d],
             NEW e \in Range(queue[d]) \union InFlight(d)
      PROVE  e \in Range(queue'[d]) \union InFlight(d)'
  BY <1>4, <1>6, <1>7, <1>8, <1>9
<1>10. seq' \in Nat /\ seq <= seq'
  BY <1>1 DEF TypeInv
<1> QED
  BY <1>1, <1>4, <1>9, <1>10, SinkWay

\* A step of the connection of c: the others are left alone.
LEMMA OwnWay ==
  ASSUME TypeInv, Complete, NEW c \in Clients, UNCHANGED <<seq, lines, pc, cur, overlapped>>,
         \A p \in Producers, d \in Clients : d # c => (d \in targets'[p] <=> d \in targets[p]),
         \A d \in Clients : d # c =>
           /\ queue'[d] = queue[d] /\ got'[d] = got[d] /\ conn'[d] = conn[d] /\ after'[d] = after[d]
           /\ lastSent'[d] = lastSent[d] /\ pos'[d] = pos[d] /\ dropped'[d] = dropped[d]
           /\ d \in subs => d \in subs',
         (Streaming(c) \/ conn[c] = "socket" => c \in subs)',
         (Resumed(c) => OnItsWay(c))'
  PROVE  Complete'
<1>1. seq' \in Nat /\ seq <= seq'
  BY DEF TypeInv
<1>2. ASSUME NEW d \in Clients, d # c PROVE /\ (Streaming(d) \/ conn[d] = "socket" => d \in subs)'
                                            /\ (Resumed(d) => OnItsWay(d))'
  <2>1. (Streaming(d) \/ conn[d] = "socket" => d \in subs)'
    BY <1>2 DEF Complete, Streaming
  <2>2. ASSUME Resumed(d)' PROVE OnItsWay(d)'
    <3>1. Resumed(d)
      BY <1>2, <2>2 DEF Resumed, Streaming
    <3>2. \A e \in InFlight(d) : e \in InFlight(d)'
      BY <1>2 DEF InFlight
    <3>3. OnItsWay(d)
      BY <3>1 DEF Complete
    <3> QED
      BY <1>1, <1>2, <3>2, <3>3, QuietWay
  <2> QED
    BY <2>1, <2>2
<1> QED
  BY <1>2 DEF Complete

LEMMA SubscribeWay ==
  ASSUME TypeInv, Complete, NEW c \in Clients, NEW how \in {"open", "socket"}, Subscribe(c, how),
         UNCHANGED lastSent, \A d \in Clients : d # c => after'[d] = after[d],
         how = "open" => after'[c] \in {None, Ahead} \/ after'[c] <= seq
  PROVE  Complete'
<1>1. /\ UNCHANGED <<seq, lines, pc, cur, overlapped>>
      /\ \A p \in Producers, d \in Clients : d # c => (d \in targets'[p] <=> d \in targets[p])
      /\ \A d \in Clients : d # c =>
           /\ queue'[d] = queue[d] /\ got'[d] = got[d] /\ conn'[d] = conn[d] /\ after'[d] = after[d]
           /\ lastSent'[d] = lastSent[d] /\ pos'[d] = pos[d] /\ dropped'[d] = dropped[d]
           /\ d \in subs => d \in subs'
  BY DEF Subscribe, TypeInv
<1>2. conn'[c] = how /\ pos'[c] = 0 /\ c \in subs'
  BY DEF Subscribe, TypeInv
<1>3. ASSUME Resumed(c)' PROVE OnItsWay(c)'
  <2>1. conn'[c] = "open" /\ after'[c] <= seq'
    BY <1>1, <1>2, <1>3 DEF Resumed, Streaming
  <2>2. \A e \in Range(lines) : \E i \in 1 .. Len(lines) : 0 < i /\ lines[i] = e
    BY RangeOf DEF TypeInv
  <2> QED
    BY <1>1, <1>2, <2>1, <2>2 DEF OnItsWay
<1>4. (Streaming(c) \/ conn[c] = "socket" => c \in subs)'
  BY <1>2
<1> QED
  BY <1>1, <1>3, <1>4, OwnWay

LEMMA ConnectWay == ASSUME TypeInv, Numbered, Complete, NEW c \in Clients, Connect(c) PROVE Complete'
<1>1. Subscribe(c, "open") /\ UNCHANGED lastSent
  BY DEF Connect
<1>2. \A d \in Clients : d # c => after'[d] = after[d]
  BY DEF Connect, TypeInv
<1>3. after'[c] \in {0, Ahead, Cursor(c)}
  BY DEF Connect, TypeInv
<1>4. Cursor(c) = None \/ Cursor(c) <= seq
  BY CursorOf DEF Numbered, OneNumberEach, FromTheFile
<1>5. after'[c] \in {None, Ahead} \/ after'[c] <= seq
  BY <1>3, <1>4 DEF TypeInv
<1> QED
  BY <1>1, <1>2, <1>5, SubscribeWay

LEMMA HeaderWay == ASSUME TypeInv, Complete, NEW c \in Clients, Header(c) PROVE Complete'
<1>1. /\ UNCHANGED <<prodVars, after, pos, got, subs, queue, dropped>>
      /\ conn[c] = "open" /\ conn'[c] \in {"replay", "live"}
      /\ \A d \in Clients : d # c => conn'[d] = conn[d] /\ lastSent'[d] = lastSent[d]
      /\ conn'[c] = IF after[c] # None /\ ~(after[c] > seq) THEN "replay" ELSE "live"
      /\ lastSent'[c] = IF after[c] > seq THEN None ELSE after[c]
  BY DEF Header, TypeInv
<1>2. UNCHANGED <<seq, lines, pc, cur, targets, overlapped>>
  BY <1>1 DEF prodVars
<1>3. ASSUME Resumed(c)' PROVE OnItsWay(c)'
  <2>1. Resumed(c) /\ after[c] # None
    BY <1>1, <1>2, <1>3 DEF Resumed, Streaming
  <2>2. OnItsWay(c) /\ after[c] <= seq /\ pos[c] = 0
    BY <1>1, <2>1 DEF Complete, OnItsWay
  <2>3. conn'[c] = "replay" /\ lastSent'[c] = after[c] /\ after[c] \in Int /\ seq \in Nat
    BY <1>1, <2>1, <2>2 DEF TypeInv
  <2>4. \A e : e \in InFlight(c)' <=> e \in InFlight(c)
    BY <1>2 DEF InFlight
  <2>5. \A e \in Range(lines) : Due(c, e)' =>
          \/ e \in Range(got'[c]) \union Range(queue'[c]) \union InFlight(c)'
          \/ conn'[c] \in {"open", "replay"} /\ \E i \in 1 .. Len(lines) : pos'[c] < i /\ lines[i] = e
    BY <1>1, <2>2, <2>3, <2>4 DEF OnItsWay, Due
  <2>6. Len(lines) \in Nat
    BY DEF TypeInv
  <2> QED
    BY <1>1, <1>2, <2>1, <2>2, <2>3, <2>5, <2>6 DEF OnItsWay, Due
<1>4. (Streaming(c) \/ conn[c] = "socket" => c \in subs)'
  BY <1>1 DEF Complete, Streaming
<1> QED
  BY <1>1, <1>2, <1>3, <1>4, OwnWay

LEMMA ReplayWay ==
  ASSUME TypeInv, Numbered, Ordered, Complete, NEW c \in Clients, Replay(c)
  PROVE  Complete'
<1> DEFINE e == lines[pos[c] + 1]
<1>1. conn[c] = "replay" /\ pos[c] \in Nat /\ Len(lines) \in Nat /\ pos[c] + 1 \in 1 .. Len(lines) /\ e \in Event
  BY DEF Replay, TypeInv
<1>2. /\ \/ Deliver(c, e) /\ lastSent' = [lastSent EXCEPT ![c] = e.seq] /\ Due(c, e)
         \/ UNCHANGED <<got, received, lastSent>> /\ ~Due(c, e)
      /\ UNCHANGED <<prodVars, conn, after, subs, queue, dropped>>
      /\ pos' = [pos EXCEPT ![c] = @ + 1]
  BY DEF Replay, Due
<1>3. UNCHANGED <<seq, lines, pc, cur, targets, overlapped>>
  BY <1>2 DEF prodVars
<1>4. /\ pos'[c] = pos[c] + 1
      /\ \A d \in Clients : d # c => pos'[d] = pos[d]
      /\ \A d \in Clients : d # c => got'[d] = got[d] /\ lastSent'[d] = lastSent[d]
  BY <1>1, <1>2, Delivers DEF TypeInv
<1>5. e \in Range(lines)
  BY <1>1, RangeOf DEF TypeInv
<1>6. \A i \in 1 .. Len(lines) : pos[c] < i => i = pos[c] + 1 \/ pos'[c] < i
  BY <1>1, <1>4
<1>7. \A i \in 1 .. Len(lines) : i <= pos'[c] => i = pos[c] + 1 \/ i <= pos[c]
  BY <1>1, <1>4
<1>8. lines[pos[c] + 1] = e
  OBVIOUS
<1> HIDE DEF e
<1>9. ASSUME Resumed(c)' PROVE OnItsWay(c)'
  <2>1. OnItsWay(c)
    BY <1>2, <1>3, <1>9 DEF Complete, Resumed, Streaming
  <2>0. UNCHANGED after
    BY <1>2
  <2>2. \A f : (f \in InFlight(c)' <=> f \in InFlight(c)) /\ (Due(c, f)' <=> Due(c, f))
    BY <1>3, <2>0 DEF InFlight, Due
  <2>3. (\A f \in Range(got[c]) : f \in Range(got'[c])) /\ (Due(c, e) => e \in Range(got'[c]))
    <3>1. CASE Deliver(c, e)
      <4>1. Range(got'[c]) = Range(got[c]) \union {e}
        BY <1>1, <3>1, Delivers
      <4> QED
        BY <4>1
    <3>2. CASE UNCHANGED got /\ ~Due(c, e)
      BY <3>2
    <3> QED
      BY <1>2, <3>1, <3>2
  <2>4. ASSUME NEW f \in Range(lines), Due(c, f)
        PROVE  \/ f \in Range(got'[c]) \union Range(queue'[c]) \union InFlight(c)'
               \/ \E i \in 1 .. Len(lines) : pos'[c] < i /\ lines[i] = f
    <3>1. \/ f \in Range(got[c]) \union Range(queue[c]) \union InFlight(c)
          \/ \E i \in 1 .. Len(lines) : pos[c] < i /\ lines[i] = f
      BY <2>1, <2>4 DEF OnItsWay
    <3>2. ASSUME NEW i \in 1 .. Len(lines), pos[c] < i, lines[i] = f
          PROVE  f \in Range(got'[c]) \/ pos'[c] < i
      BY <1>6, <1>8, <2>3, <2>4, <3>2
    <3> QED
      BY <1>2, <2>2, <2>3, <3>1, <3>2
  <2>5. \A i \in 1 .. Len(lines) : i <= pos'[c] /\ Due(c, lines[i]) => lines[i] \in Range(got'[c])
    BY <1>1, <1>7, <1>8, <2>1, <2>3 DEF OnItsWay
  <2>6. lastSent'[c] # None /\ (lastSent'[c] > after'[c] => \E f \in Range(lines) : f.seq = lastSent'[c])
    <3>1. CASE UNCHANGED lastSent
      BY <1>1, <1>2, <2>1, <3>1 DEF OnItsWay
    <3>2. CASE lastSent' = [lastSent EXCEPT ![c] = e.seq]
      <4>1. lastSent'[c] = e.seq
        BY <3>2 DEF TypeInv
      <4> QED
        BY <1>1, <1>5, <4>1, EventFacts
    <3> QED
      BY <1>2, <3>1, <3>2
  <2>7. pos'[c] <= Len(lines) /\ conn'[c] = "replay"
    BY <1>1, <1>2, <1>4
  <2> QED
    BY <1>3, <2>2, <2>4, <2>5, <2>6, <2>7 DEF OnItsWay
<1>10. (Streaming(c) \/ conn[c] = "socket" => c \in subs)'
  BY <1>2 DEF Complete, Streaming
<1> QED
  BY <1>2, <1>3, <1>4, <1>9, <1>10, OwnWay

LEMMA ReplayEndsWay == ASSUME TypeInv, Complete, NEW c \in Clients, ReplayEnds(c) PROVE Complete'
<1>1. /\ conn[c] = "replay" /\ conn'[c] = "live" /\ pos[c] = Len(lines)
      /\ UNCHANGED <<prodVars, after, lastSent, pos, got, subs, queue, dropped>>
      /\ \A d \in Clients : d # c => conn'[d] = conn[d]
  BY DEF ReplayEnds, TypeInv
<1>2. UNCHANGED <<seq, lines, pc, cur, targets, overlapped>>
  BY <1>1 DEF prodVars
<1>3. ASSUME Resumed(c)' PROVE OnItsWay(c)'
  <2>1. OnItsWay(c)
    BY <1>1, <1>2, <1>3 DEF Complete, Resumed, Streaming
  <2>2. \A f : (f \in InFlight(c)' <=> f \in InFlight(c)) /\ (Due(c, f)' <=> Due(c, f))
    BY <1>1, <1>2 DEF InFlight, Due
  <2>3. \A f \in Range(lines) : Due(c, f) => f \in Range(got[c])
    <3>1. Len(lines) \in Nat /\ \A f \in Range(lines) : \E i \in 1 .. Len(lines) : lines[i] = f
      BY RangeOf DEF TypeInv
    <3> QED
      BY <1>1, <2>1, <3>1 DEF OnItsWay
  <2> QED
    BY <1>1, <1>2, <2>1, <2>2, <2>3 DEF OnItsWay
<1>4. (Streaming(c) \/ conn[c] = "socket" => c \in subs)'
  BY <1>1 DEF Complete, Streaming
<1> QED
  BY <1>1, <1>2, <1>3, <1>4, OwnWay

LEMMA LiveWay == ASSUME TypeInv, Numbered, Ordered, Complete, NEW c \in Clients, Live(c) PROVE Complete'
<1> DEFINE e == Head(queue[c])
<1>1. /\ conn[c] = "live" /\ queue[c] # <<>> /\ e # Sentinel
      /\ queue' = [queue EXCEPT ![c] = Tail(@)]
      /\ \/ /\ lastSent[c] = None \/ ~(e.seq <= lastSent[c])
            /\ Deliver(c, e) /\ lastSent' = [lastSent EXCEPT ![c] = e.seq]
         \/ /\ lastSent[c] # None /\ e.seq <= lastSent[c]
            /\ UNCHANGED <<got, received, lastSent>>
      /\ UNCHANGED <<prodVars, conn, after, pos, subs, dropped>>
  BY DEF Live, AlreadySent
<1>2. UNCHANGED <<seq, lines, pc, cur, targets, overlapped>>
  BY <1>1 DEF prodVars
<1>3. /\ e \in Event /\ \A d \in Clients : d # c => queue'[d] = queue[d]
      /\ Range(queue[c]) = {e} \union Range(queue'[c])
  <2>1. queue[c] \in Seq(Item) /\ queue'[c] = Tail(queue[c]) /\ \A d \in Clients : d # c => queue'[d] = queue[d]
    BY <1>1 DEF TypeInv
  <2> QED
    BY <1>1, <2>1, RangeTail, EventFacts
<1>4. ASSUME ~overlapped
      PROVE  \A f \in Range(queue'[c]) : f = Sentinel \/ e.seq < f.seq
  <2>1. InLine(c)
    BY <1>4 DEF Ordered
  <2> QED
    BY <1>1, <2>1, TakesHead
<1> HIDE DEF e
<1>5. \A d \in Clients : d # c => lastSent'[d] = lastSent[d] /\ got'[d] = got[d]
  BY <1>1, <1>3, Delivers DEF TypeInv
<1>6. ASSUME Resumed(c)' PROVE OnItsWay(c)'
  <2>1. OnItsWay(c) /\ ~overlapped
    BY <1>1, <1>2, <1>6 DEF Complete, Resumed, Streaming
  <2>2. \A f : (f \in InFlight(c)' <=> f \in InFlight(c)) /\ (Due(c, f)' <=> Due(c, f))
    BY <1>1, <1>2 DEF InFlight, Due
  <2>3. lastSent[c] # None /\ lastSent[c] \in Int /\ after[c] \in Int /\ e.seq \in Nat /\ e.seq # None
    BY <1>1, <1>3, <2>1, EventFacts DEF OnItsWay, TypeInv
  <2>4. e \in Range(lines)
    BY <1>1, <1>3 DEF Numbered, FromTheFile
  <2>5. \A f \in Range(lines) : Due(c, f) => f \in Range(got[c]) \union Range(queue[c]) \union InFlight(c)
    BY <1>1, <2>1 DEF OnItsWay
  <2>6. CASE Deliver(c, e) /\ ~(e.seq <= lastSent[c]) /\ lastSent' = [lastSent EXCEPT ![c] = e.seq]
    <3>1. lastSent'[c] = e.seq /\ Range(got'[c]) = Range(got[c]) \union {e}
      BY <1>3, <2>6, Delivers DEF TypeInv
    <3>2. ASSUME NEW f \in Range(lines), Due(c, f), f.seq <= e.seq PROVE f \in Range(got'[c])
      <4>1. f \in Event /\ f # Sentinel /\ f.seq \in Nat
        BY <3>2, RangeOf, EventFacts DEF TypeInv
      <4>2. CASE f \in Range(got[c]) \union {e}
        BY <3>1, <4>2
      <4>3. CASE f \in Range(queue'[c])
        BY <1>4, <2>1, <2>3, <3>2, <4>1, <4>3
      <4>4. CASE f \in InFlight(c)
        <5>1. PICK p \in Producers : f = cur[p] /\ Coming(p, c)
          BY <4>4 DEF InFlight, Coming
        <5>2. e.seq < cur[p].seq
          BY <1>3, <2>1, <5>1 DEF Ordered, InLine
        <5> QED
          BY <2>3, <3>2, <4>1, <5>1, <5>2
      <4> QED
        BY <1>3, <2>5, <3>2, <4>2, <4>3, <4>4
    <3>3. \A f \in Range(lines) : Due(c, f) => f \in Range(got'[c]) \union Range(queue'[c]) \union InFlight(c)'
      BY <1>3, <2>2, <2>5, <3>1
    <3> QED
      BY <1>1, <1>2, <2>2, <2>3, <2>4, <3>1, <3>2, <3>3 DEF OnItsWay
  <2>7. CASE e.seq <= lastSent[c] /\ UNCHANGED <<got, received, lastSent>>
    <3>1. Due(c, e) => e \in Range(got[c])
      BY <1>1, <2>1, <2>4, <2>7 DEF OnItsWay
    <3>2. \A f \in Range(lines) : Due(c, f) => f \in Range(got'[c]) \union Range(queue'[c]) \union InFlight(c)'
      BY <1>3, <2>2, <2>5, <2>7, <3>1
    <3> QED
      BY <1>1, <1>2, <2>1, <2>2, <2>7, <3>2 DEF OnItsWay
  <2> QED
    BY <1>1, <2>3, <2>6, <2>7
<1>7. (Streaming(c) \/ conn[c] = "socket" => c \in subs)'
  BY <1>1 DEF Complete, Streaming
<1> QED
  BY <1>1, <1>2, <1>3, <1>5, <1>6, <1>7, OwnWay

LEMMA LiveSocketWay == ASSUME TypeInv, Complete, NEW c \in Clients, LiveSocket(c) PROVE Complete'
<1> DEFINE e == Head(queue[c])
<1>1. /\ conn[c] = "socket" /\ queue[c] # <<>> /\ e # Sentinel /\ Deliver(c, e)
      /\ UNCHANGED <<prodVars, conn, after, lastSent, pos, subs, dropped>>
      /\ \A d \in Clients : d # c => queue'[d] = queue[d]
  BY DEF LiveSocket, TypeInv
<1>2. e \in Event
  BY <1>1, RangeTail, EventFacts DEF TypeInv
<1> HIDE DEF e
<1>3. \A d \in Clients : d # c => got'[d] = got[d]
  BY <1>1, <1>2, Delivers
<1>4. ~Resumed(c)'
  BY <1>1 DEF Resumed, Streaming
<1>5. (Streaming(c) \/ conn[c] = "socket" => c \in subs)'
  BY <1>1 DEF Complete, Streaming
<1>6. UNCHANGED <<seq, lines, pc, cur, targets, overlapped>>
  BY <1>1 DEF prodVars
<1> QED
  BY <1>1, <1>3, <1>4, <1>5, <1>6, OwnWay

LEMMA CompleteStep == ASSUME TypeInv, Numbered, Ordered, Complete, [Next]_vars PROVE Complete'
<1>1. ASSUME NEW p \in Producers, (\E k \in Kinds : Stamp(p, k)) \/ (p = Main /\ ObserverStops) PROVE Complete'
  <2>1. /\ seq' = seq + 1 /\ pc[p] = "idle" /\ UNCHANGED <<lines, connVars, subs, queue, dropped, targets>>
        /\ overlapped => overlapped'
        /\ \A q \in Producers : q # p => pc'[q] = pc[q] /\ cur'[q] = cur[q]
    BY <1>1 DEF Stamp, ObserverStops, TypeInv
  <2>2. \A c \in Clients : \A e \in InFlight(c) : e \in InFlight(c)'
    BY <2>1 DEF InFlight
  <2>3. seq' \in Nat /\ seq <= seq'
    BY <2>1 DEF TypeInv
  <2> QED
    BY <2>1, <2>2, <2>3, SinkWay
<1>2. ASSUME NEW p \in Producers, ListSubscribers(p) PROVE Complete'
  <2>1. /\ pc[p] = "written" /\ UNCHANGED <<seq, lines, connVars, subs, queue, dropped, cur, overlapped>>
        /\ pc'[p] = "offering" /\ targets'[p] = {c \in subs : cur[p].kind \in Wanted}
        /\ \A q \in Producers : q # p => pc'[q] = pc[q] /\ targets'[q] = targets[q]
    BY <1>2 DEF ListSubscribers, TypeInv
  <2>2. ASSUME NEW c \in Clients, Resumed(c), NEW e \in InFlight(c), Due(c, e) PROVE e \in InFlight(c)'
    <3>1. PICK q \in Producers : e = cur[q] /\ (pc[q] = "written" \/ (pc[q] = "offering" /\ c \in targets[q]))
      BY DEF InFlight
    <3>2. c \in subs
      BY <2>2 DEF Complete, Resumed
    <3>3. q = p => c \in targets'[q]
      BY <2>1, <2>2, <3>1, <3>2 DEF Due
    <3> QED
      BY <2>1, <3>1, <3>3 DEF InFlight
  <2>3. seq' \in Nat /\ seq <= seq'
    BY <2>1 DEF TypeInv
  <2> QED
    BY <2>1, <2>2, <2>3, SinkWay
<1>3. ASSUME NEW p \in Producers, SinkReturns(p) PROVE Complete'
  <2>1. /\ pc[p] = "offering" /\ targets[p] = {}
        /\ UNCHANGED <<seq, lines, connVars, subs, queue, dropped, targets, overlapped>>
        /\ \A q \in Producers : q # p => pc'[q] = pc[q] /\ cur'[q] = cur[q]
    BY <1>3 DEF SinkReturns, TypeInv
  <2>2. \A c \in Clients : \A e \in InFlight(c) : e \in InFlight(c)'
    BY <2>1 DEF InFlight
  <2>3. seq' \in Nat /\ seq <= seq'
    BY <2>1 DEF TypeInv
  <2> QED
    BY <2>1, <2>2, <2>3, SinkWay
<1>4. ASSUME CloseSubscribers \/ StartClosing \/ UNCHANGED vars PROVE Complete'
  <2>1. UNCHANGED <<seq, lines, pc, cur, targets, connVars, subs, dropped, overlapped>>
    BY <1>4 DEF CloseSubscribers, StartClosing, vars, prodVars
  <2>2. \A c \in Clients : \A e \in InFlight(c) : e \in InFlight(c)'
    BY <2>1 DEF InFlight
  <2>3. ASSUME NEW c \in Clients, NEW e \in Range(queue[c]) PROVE e \in Range(queue'[c])
    <3>1. Range(Append(queue[c], Sentinel)) = Range(queue[c]) \union {Sentinel}
      BY RangeAppend, EventFacts DEF TypeInv
    <3>2. queue'[c] \in {queue[c], Append(queue[c], Sentinel)}
      BY <1>4 DEF CloseSubscribers, StartClosing, vars, Offered
    <3> QED
      BY <3>1, <3>2
  <2>4. seq' \in Nat /\ seq <= seq'
    BY <2>1 DEF TypeInv
  <2> QED
    BY <2>1, <2>2, <2>3, <2>4, SinkWay
<1>5. ASSUME NEW c \in Clients, ConnectSocket(c) PROVE Complete'
  <2>1. Subscribe(c, "socket") /\ UNCHANGED lastSent /\ \A d \in Clients : d # c => after'[d] = after[d]
    BY <1>5 DEF ConnectSocket, TypeInv
  <2> QED
    BY <2>1, SubscribeWay
<1>6. ASSUME NEW c \in Clients, Ends(c) PROVE Complete'
  <2>1. /\ UNCHANGED <<prodVars, after, lastSent, pos, got, queue, dropped>>
        /\ conn'[c] = "ended" /\ subs' = subs \ {c}
        /\ \A d \in Clients : d # c => conn'[d] = conn[d]
    BY <1>6 DEF Ends, TypeInv
  <2>2. UNCHANGED <<seq, lines, pc, cur, targets, overlapped>>
    BY <2>1 DEF prodVars
  <2>3. ~Resumed(c)' /\ ~(Streaming(c) \/ conn[c] = "socket")'
    BY <2>1 DEF Resumed, Streaming
  <2> QED
    BY <2>1, <2>2, <2>3, OwnWay
<1>7. ASSUME Crash PROVE Complete'
  <2>1. \A c \in Clients : conn'[c] \in {"off", "ended"}
    BY <1>7 DEF Crash
  <2> QED
    BY <2>1 DEF Complete, Resumed, Streaming
<1> QED
  <2>1. ASSUME NEW p \in Producers, Observe(p) \/ SinkStep(p) PROVE Complete'
    BY <1>1, <1>2, <1>3, <2>1, WriteWay, OfferWay DEF Observe, SinkStep
  <2>2. ASSUME ObserverStops \/ Shutdown \/ UNCHANGED vars PROVE Complete'
    BY <1>1, <1>4, <2>2 DEF Shutdown, Producers
  <2>3. ASSUME NEW c \in Clients, Connect(c) \/ ConnectSocket(c) \/ StreamStep(c) \/ ClientLeaves(c) PROVE Complete'
    BY <1>5, <1>6, <2>3, ConnectWay, HeaderWay, ReplayWay, ReplayEndsWay, LiveWay, LiveSocketWay
    DEF StreamStep, SentinelEnds, BackstopEnds, ClientLeaves
  <2> QED
    BY <1>7, <2>1, <2>2, <2>3 DEF Next

\* No event falls between the replay of the history and the live queue of a
\* connection that resumed after a cursor (ApiHandler.stream_events subscribes
\* before it reads the file), as long as the queue was never full and the
\* producers never met in the sink.
THEOREM NothingFallsBetween == Spec => []NoEventMissed
<1>1. Init => TypeInv /\ Numbered /\ Ordered /\ Complete
  BY InitType, InitNumbered, InitOrdered, InitComplete
<1>2. TypeInv /\ Numbered /\ Ordered /\ Complete /\ [Next]_vars
        => (TypeInv /\ Numbered /\ Ordered /\ Complete)'
  BY TypeStep, NumberedStep, OrderedStep, CompleteStep
<1>3. Complete => NoEventMissed
  <2>1. ASSUME Complete, NEW c \in Clients, conn[c] = "live", after[c] \notin {None, Ahead}, ~dropped[c], ~overlapped,
               NEW e \in Range(lines), e.kind \in Wanted, e.seq > after[c]
        PROVE  e \in Range(got[c]) \union Range(queue[c]) \union InFlight(c)
    BY <2>1 DEF Complete, Resumed, Streaming, OnItsWay, Due
  <2> QED
    BY <2>1 DEF NoEventMissed
<1> QED
  BY <1>1, <1>2, <1>3, PTL DEF Spec
=============================================================================
