-------------------------- MODULE KeyedStreamProofs --------------------------
(***************************************************************************)
(* Theorems about KeyedStream, for every value of its constants.           *)
(***************************************************************************)
EXTENDS KeyedStream, FiniteSetTheorems, WellFoundedInduction, TLAPS

-----------------------------------------------------------------------------
(* Indices and listings *)

\* A set of indices that is not empty has a greatest one.
LEMMA Greatest ==
  ASSUME NEW n \in Nat, NEW S \in SUBSET (1..n), S # {}
  PROVE  \E i \in S : \A k \in S : k <= i
<1> DEFINE T == {n - i : i \in S}
           R == {ss \in Nat \X Nat : ss[1] < ss[2]}
<1>1. IsWellFoundedOn(R, Nat)
  BY NatLessThanWellFounded DEF OpToRel
<1>2. T \subseteq Nat /\ T # {}
  <2>1. \A i \in S : n - i \in Nat
    OBVIOUS
  <2>2. PICK i \in S : TRUE
    OBVIOUS
  <2>3. n - i \in T
    BY <2>2
  <2> QED BY <2>1, <2>3
<1> HIDE DEF R
<1> HIDE DEF T
<1>3. PICK x \in T : \A y \in T : <<y, x>> \notin R
  BY <1>1, <1>2, WFMin
<1>4. \A y \in T : x <= y
  <2> SUFFICES ASSUME NEW y \in T, y < x
               PROVE  FALSE
    BY <1>2, <1>3
  <2>1. x \in Nat /\ y \in Nat
    BY <1>2, <1>3
  <2>2. <<y, x>> \in R
    BY <2>1 DEF R
  <2> QED BY <1>3, <2>2
<1>5. PICK i \in S : x = n - i
  BY <1>3 DEF T
<1>6. \A k \in S : k <= i
  BY <1>4, <1>5 DEF T
<1> QED BY <1>6

\* A finite set is listed whole.
LEMMA Listed ==
  ASSUME NEW S, IsFiniteSet(S)
  PROVE  /\ SetToSeq(S) \in Seq(S)
         /\ \A x \in S : \E i \in DOMAIN SetToSeq(S) : SetToSeq(S)[i] = x
<1> DEFINE n == Cardinality(S)
<1>1. n \in Nat /\ ExistsBijection(1..n, S)
  BY FS_CardinalityType
<1>2. \E f \in [1..n -> S] : IsInjective(f)
  BY <1>1 DEF ExistsBijection, Bijection, Injection, IsInjective
<1>3. SetToSeq(S) \in [1..n -> S] /\ IsInjective(SetToSeq(S))
  BY <1>2 DEF SetToSeq
<1>4. SetToSeq(S) \in Injection(1..n, S)
  BY <1>3 DEF Injection
<1>5. Cardinality(1..n) = n
  BY <1>1, FS_Interval
<1>6. SetToSeq(S) \in Surjection(1..n, S)
  BY <1>4, <1>5, FS_Injection
<1>7. SetToSeq(S) \in Seq(S)
  BY <1>1, <1>3
<1> QED BY <1>3, <1>6, <1>7 DEF Surjection

-----------------------------------------------------------------------------
(* Types *)

\* What a diff reports: every item that changed, with what it became
\* (keyed_stream.py, _diff_dict).
LEMMA DiffReports ==
  ASSUME StreamAssumption, NEW t \in Topics, NEW old \in Table, NEW new \in Table
  PROVE  /\ Diff(t, old, new) \in Seq(Event)
         /\ \A i \in DOMAIN Diff(t, old, new) :
              /\ Diff(t, old, new)[i].topic = t
              /\ Diff(t, old, new)[i].item \in Items
              /\ Diff(t, old, new)[i].content = new[Diff(t, old, new)[i].item]
         /\ \A x \in Items : old[x] # new[x] =>
              \E i \in DOMAIN Diff(t, old, new) : Diff(t, old, new)[i].item = x
<1> DEFINE S == {x \in Items : old[x] # new[x]}
           q == SetToSeq(S)
           d == Diff(t, old, new)
<1>1. IsFiniteSet(S)
  BY FS_Subset DEF StreamAssumption
<1>2. q \in Seq(S) /\ \A x \in S : \E i \in DOMAIN q : q[i] = x
  BY <1>1, Listed
<1>3. d = [i \in DOMAIN q |-> EventOf(t, q[i], old[q[i]], new[q[i]])]
  BY DEF Diff
<1> HIDE DEF q, d
<1>4. PICK n \in Nat : DOMAIN q = 1..n
  BY <1>2
<1>5. ASSUME NEW i \in DOMAIN q
      PROVE  /\ d[i] \in Event /\ d[i].topic = t /\ d[i].item = q[i] /\ q[i] \in Items
             /\ d[i].content = new[q[i]]
  <2>1. q[i] \in S
    BY <1>2, <1>5
  <2>2. d[i] = EventOf(t, q[i], old[q[i]], new[q[i]])
    BY <1>3, <1>5
  <2> QED BY <2>1, <2>2 DEF EventOf, Event, Kinds, Table
<1>6. DOMAIN d = 1..n /\ d \in [1..n -> Event]
  BY <1>3, <1>4, <1>5
<1>7. d \in Seq(Event)
  BY <1>6
<1> QED BY <1>2, <1>4, <1>5, <1>6, <1>7 DEF d

\* Events that are broadcast are queued well-typed.
LEMMA BroadcastTyped ==
  ASSUME queue \in [Clients -> Seq(Event)], NEW t, NEW events \in Seq(Event), Broadcast(t, events)
  PROVE  queue' \in [Clients -> Seq(Event)]
BY DEF Broadcast

\* A change of one cell leaves a table of topics well-typed.
LEMMA CellTyped ==
  ASSUME NEW f \in [Topics -> Table], NEW t \in Topics, NEW x \in Items, NEW v \in Cell
  PROVE  [f EXCEPT ![t][x] = v] \in [Topics -> Table]
BY DEF Table

\* The streams start well-typed.
LEMMA InitTyped ==
  ASSUME StreamAssumption, Init
  PROVE  TypeOK
BY DEF StreamAssumption, Init, TypeOK, Table, Empty, Cell, NobodyViews, Poll, Idle, Event

\* Writes keep the types (main.py, the write handlers).
LEMMA WriteTyped ==
  ASSUME StreamAssumption, TypeOK, Write
  PROVE  TypeOK'
<1> USE DEF TypeOK, pollVars
<1>1. PICK t \in Topics, x \in Items :
        \/ \E v \in Cell : Upsert(t, x, v) \/ Edit(t, x, v) \/ ChangeElsewhere(t, x, v)
        \/ Delete(t, x)
  BY DEF Write
<1>2. Gone \in Cell /\ (CountWrite => writes' \in 0..MaxWrites)
  BY DEF CountWrite, Cell, StreamAssumption
<1>3. \A v \in Cell : <<EventOf(t, x, cache[t][x], v)>> \in Seq(Event)
  BY DEF EventOf, Event, Kinds, Cell
\* A cell changes where it is kept, and in the cache with an event or not at all.
<1>4. ASSUME NEW v \in Cell, writes' \in 0..MaxWrites,
             source' = [source EXCEPT ![t][x] = v],
             \/ /\ cache' = [cache EXCEPT ![t][x] = v]
                /\ Broadcast(t, <<EventOf(t, x, cache[t][x], v)>>)
             \/ UNCHANGED <<cache, queue>>,
             UNCHANGED <<sweep, due, poller, failures, conn, backlog, view>>
      PROVE  TypeOK'
  <2>1. source' \in [Topics -> Table] /\ [cache EXCEPT ![t][x] = v] \in [Topics -> Table]
    BY <1>4, CellTyped
  <2>2. cache' \in [Topics -> Table] /\ queue' \in [Clients -> Seq(Event)]
    BY <1>3, <1>4, <2>1, BroadcastTyped
  <2> QED BY <1>4, <2>1, <2>2
<1>5. ASSUME NEW v \in Cell, Upsert(t, x, v) \/ Edit(t, x, v)
      PROVE  TypeOK'
  BY <1>2, <1>4, <1>5 DEF Upsert, Edit
<1>6. CASE Delete(t, x)
  BY <1>2, <1>4, <1>6 DEF Delete
<1>7. ASSUME NEW v \in Cell, ChangeElsewhere(t, x, v)
      PROVE  TypeOK'
  BY <1>2, <1>4, <1>7 DEF ChangeElsewhere, wireVars
<1> QED BY <1>1, <1>5, <1>6, <1>7

\* The steps of the polls keep the types (keyed_stream.py:188-232).
LEMMA PollTyped ==
  ASSUME StreamAssumption, TypeOK, PollStep
  PROVE  TypeOK'
<1> USE DEF TypeOK, dataVars, wireVars
<1>1. CASE SweepBegins
  BY <1>1 DEF SweepBegins
<1>2. Empty \in Table /\ Idle \in Poll
  BY DEF Empty, Table, Cell, Idle, Poll
<1>3. ASSUME NEW p \in Slots, NEW t \in Topics, Begin(p, t)
      PROVE  poller' \in [Slots -> Poll]
  <2>1. [pc |-> "polling", topic |-> t, before |-> cache[t], got |-> Empty] \in Poll
    BY <1>2 DEF Poll
  <2> QED BY <1>3, <2>1 DEF Begin
<1>4. ASSUME NEW t \in Topics, SweepPolls(t)
      PROVE  TypeOK'
  <2>1. poller' \in [Slots -> Poll]
    BY <1>3, <1>4 DEF SweepPolls, Slots, StreamAssumption
  <2> QED BY <1>4, <2>1 DEF SweepPolls, Begin
<1>5. ASSUME NEW t \in Topics, DuePolls(t)
      PROVE  TypeOK'
  <2>1. poller' \in [Slots -> Poll]
    BY <1>3, <1>5 DEF DuePolls
  <2>2. due' \in [Topics -> 0..MaxTasks]
    BY <1>5 DEF DuePolls, StreamAssumption
  <2> QED BY <1>5, <2>1, <2>2 DEF DuePolls, Begin
<1>6. \A p \in Slots : poller[p].pc # "idle" =>
        /\ poller[p].pc \in {"polling", "read"} /\ poller[p].topic \in Topics
        /\ poller[p].before \in Table /\ poller[p].got \in Table
  BY DEF Poll, Idle
<1>7. ASSUME NEW p \in Slots, PollReads(p)
      PROVE  TypeOK'
  <2>1. poller[p] \in [pc : {"polling", "read"}, topic : Topics, before : Table, got : Table]
    BY <1>7 DEF PollReads, Poll, Idle
  <2> DEFINE r == [poller[p] EXCEPT !.pc = "read", !.got = source[poller[p].topic]]
  <2>2. r \in Poll
    BY <2>1 DEF Poll
  <2>3. poller' = [poller EXCEPT ![p] = r]
    BY <1>7 DEF PollReads
  <2> HIDE DEF r
  <2>4. poller' \in [Slots -> Poll]
    BY <2>2, <2>3
  <2> QED BY <1>7, <2>4 DEF PollReads
<1>8. ASSUME NEW p \in Slots, PollFails(p)
      PROVE  TypeOK'
  BY <1>2, <1>8 DEF PollFails, StreamAssumption
<1>9. ASSUME NEW p \in Slots, PollDispatches(p)
      PROVE  TypeOK'
  <2>1. /\ poller[p].topic \in Topics /\ poller[p].got \in Table
        /\ poller' \in [Slots -> Poll]
    BY <1>2, <1>6, <1>9 DEF PollDispatches
  <2>2. cache' \in [Topics -> Table]
    BY <1>9, <2>1 DEF PollDispatches
  <2>3. queue' \in [Clients -> Seq(Event)]
    <3>1. CASE cache[poller[p].topic] = poller[p].before
      <4> DEFINE events == Diff(poller[p].topic, cache[poller[p].topic], poller[p].got)
      <4>1. events \in Seq(Event)
        BY <2>1, DiffReports
      <4>2. Broadcast(poller[p].topic, events)
        BY <1>9, <3>1 DEF PollDispatches
      <4> HIDE DEF events
      <4> QED BY <4>1, <4>2, BroadcastTyped
    <3>2. CASE cache[poller[p].topic] # poller[p].before
      BY <1>9, <3>2 DEF PollDispatches
    <3> QED BY <3>1, <3>2
  <2> QED BY <1>9, <2>1, <2>2, <2>3 DEF PollDispatches
<1> QED BY <1>1, <1>4, <1>5, <1>7, <1>8, <1>9 DEF PollStep

\* The steps of a connection keep the types (main.py, serve_websocket_multi).
LEMMA ServeTyped ==
  ASSUME StreamAssumption, TypeOK, NEW c \in Clients, Connect(c) \/ Serve(c) \/ Disconnect(c)
  PROVE  TypeOK'
<1> USE DEF TypeOK, dataVars, pollVars
<1>1. Empty \in Table /\ NobodyViews \in [Topics -> Table]
  BY DEF Empty, Table, Cell, NobodyViews
<1>2. CASE Connect(c)
  <2>1. backlog' \in [Clients -> [Topics -> Table]]
    <3>1. [t \in Topics |-> IF t \in Wants[c] THEN cache[t] ELSE Empty] \in [Topics -> Table]
      BY <1>1
    <3> QED BY <1>2, <3>1 DEF Connect
  <2>2. due' \in [Topics -> 0..MaxTasks]
    <3>1. \A t \in Topics : t \in {k \in Wants[c] : ~Listened(k)} => due[t] + 1 \in 0..MaxTasks
      BY <1>2 DEF Connect, StreamAssumption
    <3> QED BY <1>2, <3>1 DEF Connect
  <2> QED BY <1>2, <2>1, <2>2 DEF Connect
<1>3. CASE Replay(c)
  <2>1. PICK t \in Topics, x \in Items :
          /\ view' = [view EXCEPT ![c][t][x] = backlog[c][t][x]]
          /\ backlog' = [backlog EXCEPT ![c][t][x] = Gone]
    BY <1>3 DEF Replay
  <2>2. backlog[c][t][x] \in Cell /\ Gone \in Cell
    BY DEF Table, Cell
  <2>3. /\ [view[c] EXCEPT ![t][x] = backlog[c][t][x]] \in [Topics -> Table]
        /\ [backlog[c] EXCEPT ![t][x] = Gone] \in [Topics -> Table]
    BY <2>2, CellTyped
  <2>4. view' \in [Clients -> [Topics -> Table]] /\ backlog' \in [Clients -> [Topics -> Table]]
    BY <2>1, <2>3
  <2> QED BY <1>3, <2>4 DEF Replay
<1>5. CASE Forward(c)
  <2>1. Head(queue[c]) \in Event /\ Tail(queue[c]) \in Seq(Event)
    BY <1>5 DEF Forward
  <2> DEFINE e == Head(queue[c])
  <2>2. [view[c] EXCEPT ![e.topic][e.item] = e.content] \in [Topics -> Table]
    BY <2>1, CellTyped DEF Event
  <2>3. view' \in [Clients -> [Topics -> Table]] /\ queue' \in [Clients -> Seq(Event)]
    BY <1>5, <2>1, <2>2 DEF Forward
  <2> QED BY <1>5, <2>3 DEF Forward
<1>6. CASE Disconnect(c)
  <2>1. cache' \in [Topics -> Table]
    BY <1>1, <1>6 DEF Disconnect
  <2>2. queue' \in [Clients -> Seq(Event)]
    BY <1>6 DEF Disconnect
  <2> QED BY <1>1, <1>6, <2>1, <2>2 DEF Disconnect
<1> QED BY <1>2, <1>3, <1>5, <1>6 DEF Serve

\* The types are kept.
LEMMA NextTyped ==
  ASSUME StreamAssumption, TypeOK, [Next]_vars
  PROVE  TypeOK'
<1>1. CASE UNCHANGED vars
  BY <1>1 DEF TypeOK, vars, dataVars, pollVars, wireVars
<1> QED BY <1>1, WriteTyped, PollTyped, ServeTyped DEF Next

\* Every reachable state of the streams is well-typed.
THEOREM TypeCorrect == Spec => []TypeOK
<1>1. Init => TypeOK
  BY InitTyped, StreamAssumption
<1>2. TypeOK /\ [Next]_vars => TypeOK'
  BY NextTyped, StreamAssumption
<1> QED BY <1>1, <1>2, PTL DEF Spec

-----------------------------------------------------------------------------
(* What a queue of events brings about *)

Of(e, t, x) == e.topic = t /\ e.item = x
IsLast(q, t, x, i) == Of(q[i], t, x) /\ \A k \in DOMAIN q : Of(q[k], t, x) => k <= i

\* What comes of an item held as held once the events of q have arrived.
Reached(q, held, t, x) ==
  LET about == {i \in DOMAIN q : i <= Len(q) /\ q[i].topic = t /\ q[i].item = x}
  IN  IF about # {} THEN q[CHOOSE i \in about : \A k \in about : k <= i].content ELSE held

\* The last event about an item decides.
LEMMA LastDecides ==
  ASSUME NEW q \in Seq(Event), NEW held, NEW t, NEW x
  PROVE  /\ \A i \in DOMAIN q : IsLast(q, t, x, i) => Reached(q, held, t, x) = q[i].content
         /\ (\A i \in DOMAIN q : ~Of(q[i], t, x)) => Reached(q, held, t, x) = held
         /\ (\E i \in DOMAIN q : Of(q[i], t, x)) => \E i \in DOMAIN q : IsLast(q, t, x, i)
<1> DEFINE about == {i \in DOMAIN q : i <= Len(q) /\ q[i].topic = t /\ q[i].item = x}
<1>1. DOMAIN q = 1..Len(q) /\ Len(q) \in Nat
  OBVIOUS
<1>2. \A i \in DOMAIN q : i \in about <=> Of(q[i], t, x)
  BY <1>1 DEF Of
<1>3. Reached(q, held, t, x) =
        IF about # {} THEN q[CHOOSE i \in about : \A k \in about : k <= i].content ELSE held
  BY DEF Reached
<1>4. about \subseteq 1..Len(q)
  BY <1>1
<1> HIDE DEF about
<1>5. ASSUME NEW i \in DOMAIN q, IsLast(q, t, x, i)
      PROVE  Reached(q, held, t, x) = q[i].content
  <2>1. i \in about /\ \A k \in about : k <= i
    BY <1>1, <1>2, <1>4, <1>5 DEF IsLast
  <2>2. \A j \in about : (\A k \in about : k <= j) => j = i
    BY <1>4, <2>1
  <2>3. (CHOOSE j \in about : \A k \in about : k <= j) = i
    BY <2>1, <2>2
  <2> QED BY <1>3, <2>1, <2>3
<1>6. ASSUME NEW i \in DOMAIN q, Of(q[i], t, x)
      PROVE  \E j \in DOMAIN q : IsLast(q, t, x, j)
  <2>1. about # {}
    BY <1>2, <1>6
  <2>2. PICK j \in about : \A k \in about : k <= j
    BY <1>1, <1>4, <2>1, Greatest
  <2> QED BY <1>1, <1>2, <1>4, <2>2 DEF IsLast
<1>7. (\A i \in DOMAIN q : ~Of(q[i], t, x)) => about = {}
  BY <1>1, <1>2, <1>4
<1> QED BY <1>3, <1>5, <1>6, <1>7

\* Events behind a queue decide for the items they are about, and no others.
LEMMA Appended ==
  ASSUME NEW q \in Seq(Event), NEW events \in Seq(Event), NEW held, NEW t, NEW x
  PROVE  /\ (\A i \in DOMAIN events : ~Of(events[i], t, x))
              => Reached(q \o events, held, t, x) = Reached(q, held, t, x)
         /\ \A j \in DOMAIN events :
              /\ Of(events[j], t, x)
              /\ \A i \in DOMAIN events : Of(events[i], t, x) => events[i].content = events[j].content
              => Reached(q \o events, held, t, x) = events[j].content
<1> DEFINE s == q \o events
<1>1. /\ s \in Seq(Event) /\ DOMAIN s = 1..(Len(q) + Len(events)) /\ Len(q) \in Nat /\ Len(events) \in Nat
      /\ \A i \in 1..Len(q) : s[i] = q[i]
      /\ \A i \in 1..Len(events) : s[Len(q) + i] = events[i]
      /\ DOMAIN q = 1..Len(q) /\ DOMAIN events = 1..Len(events)
  OBVIOUS
<1>2. \A i \in DOMAIN s : i \in 1..Len(q) \/ (i - Len(q) \in DOMAIN events /\ s[i] = events[i - Len(q)])
  <2> SUFFICES ASSUME NEW i \in DOMAIN s, i \notin 1..Len(q)
               PROVE  i - Len(q) \in DOMAIN events /\ s[i] = events[i - Len(q)]
    OBVIOUS
  <2>1. i - Len(q) \in 1..Len(events) /\ i = Len(q) + (i - Len(q))
    BY <1>1
  <2> QED BY <1>1, <2>1
<1> HIDE DEF s
<1>3. ASSUME \A i \in DOMAIN events : ~Of(events[i], t, x)
      PROVE  Reached(s, held, t, x) = Reached(q, held, t, x)
  <2>1. CASE \E i \in DOMAIN q : Of(q[i], t, x)
    <3>1. PICK i \in DOMAIN q : IsLast(q, t, x, i)
      BY <2>1, LastDecides
    <3>2. i \in DOMAIN s /\ IsLast(s, t, x, i) /\ s[i] = q[i]
      BY <1>1, <1>2, <1>3, <3>1 DEF IsLast
    <3>3. Reached(q, held, t, x) = q[i].content
      BY <3>1, LastDecides
    <3>4. Reached(s, held, t, x) = s[i].content
      BY <1>1, <3>2, LastDecides
    <3> QED BY <3>2, <3>3, <3>4
  <2>2. CASE \A i \in DOMAIN q : ~Of(q[i], t, x)
    <3>1. \A i \in DOMAIN s : ~Of(s[i], t, x)
      BY <1>1, <1>2, <1>3, <2>2
    <3>2. Reached(q, held, t, x) = held
      BY <2>2, LastDecides
    <3>3. Reached(s, held, t, x) = held
      BY <1>1, <3>1, LastDecides
    <3> QED BY <3>2, <3>3
  <2> QED BY <2>1, <2>2
<1>4. ASSUME NEW j \in DOMAIN events, Of(events[j], t, x),
             \A i \in DOMAIN events : Of(events[i], t, x) => events[i].content = events[j].content
      PROVE  Reached(s, held, t, x) = events[j].content
  <2>1. Len(q) + j \in DOMAIN s /\ s[Len(q) + j] = events[j]
    BY <1>1
  <2>2. PICK i \in DOMAIN s : IsLast(s, t, x, i)
    BY <1>1, <1>4, <2>1, LastDecides
  <2>3. i >= Len(q) + j /\ Of(s[i], t, x)
    BY <1>1, <1>4, <2>1, <2>2 DEF IsLast
  <2>4. i - Len(q) \in DOMAIN events /\ s[i] = events[i - Len(q)]
    BY <1>1, <1>2, <2>3
  <2> QED BY <1>1, <1>4, <2>2, <2>3, <2>4, LastDecides
<1> QED BY <1>3, <1>4 DEF s

\* The first event of a queue, once it has arrived, leaves the rest to come.
LEMMA Taken ==
  ASSUME NEW q \in Seq(Event), q # <<>>, NEW held, NEW t, NEW x
  PROVE  Reached(Tail(q), IF Of(Head(q), t, x) THEN Head(q).content ELSE held, t, x)
           = Reached(q, held, t, x)
<1> DEFINE s == Tail(q)
           h == IF Of(Head(q), t, x) THEN Head(q).content ELSE held
<1>1. /\ s \in Seq(Event) /\ Len(s) = Len(q) - 1 /\ Len(q) \in Nat /\ Len(q) >= 1
      /\ DOMAIN q = 1..Len(q) /\ DOMAIN s = 1..Len(s) /\ Head(q) = q[1]
      /\ \A i \in 1..Len(s) : s[i] = q[i + 1]
  OBVIOUS
<1> HIDE DEF s
<1>2. CASE \E i \in DOMAIN s : Of(s[i], t, x)
  <2>1. PICK i \in DOMAIN s : IsLast(s, t, x, i)
    BY <1>1, <1>2, LastDecides
  <2>2. i + 1 \in DOMAIN q /\ q[i + 1] = s[i]
    BY <1>1
  <2>3. ASSUME NEW k \in DOMAIN q, Of(q[k], t, x)
        PROVE  k <= i + 1
    <3>1. CASE k = 1
      BY <1>1, <3>1
    <3>2. CASE k # 1
      <4>1. k - 1 \in 1..Len(s) /\ (k - 1) + 1 = k
        BY <1>1, <3>2
      <4>2. s[k - 1] = q[k]
        BY <1>1, <4>1
      <4>3. k - 1 <= i
        BY <1>1, <2>1, <2>3, <4>1, <4>2 DEF IsLast
      <4> QED BY <1>1, <4>3
    <3> QED BY <3>1, <3>2
  <2>4. IsLast(q, t, x, i + 1)
    BY <2>1, <2>2, <2>3 DEF IsLast
  <2>5. Reached(q, held, t, x) = q[i + 1].content
    BY <2>2, <2>4, LastDecides
  <2>6. Reached(s, h, t, x) = s[i].content
    BY <1>1, <2>1, LastDecides
  <2> QED BY <2>2, <2>5, <2>6 DEF s
<1>3. CASE \A i \in DOMAIN s : ~Of(s[i], t, x)
  <2>1. Reached(s, h, t, x) = h
    BY <1>1, <1>3, LastDecides
  <2>2. \A k \in DOMAIN q : k # 1 => ~Of(q[k], t, x)
    <3> SUFFICES ASSUME NEW k \in DOMAIN q, k # 1
                 PROVE  ~Of(q[k], t, x)
      OBVIOUS
    <3>1. k - 1 \in 1..Len(s) /\ (k - 1) + 1 = k
      BY <1>1
    <3>2. s[k - 1] = q[k]
      BY <1>1, <3>1
    <3> QED BY <1>1, <1>3, <3>1, <3>2
  <2>3. CASE Of(Head(q), t, x)
    <3>1. 1 \in DOMAIN q /\ IsLast(q, t, x, 1)
      BY <1>1, <2>2, <2>3 DEF IsLast
    <3> QED BY <1>1, <2>1, <2>3, <3>1, LastDecides DEF s
  <2>4. CASE ~Of(Head(q), t, x)
    <3>1. \A k \in DOMAIN q : ~Of(q[k], t, x)
      BY <1>1, <2>2, <2>4
    <3> QED BY <2>1, <2>4, <3>1, LastDecides DEF s
  <2> QED BY <2>3, <2>4
<1> QED BY <1>2, <1>3 DEF s

-----------------------------------------------------------------------------
(* The views follow the cache *)

\* What a client has of an item, or is to be replayed of it.
Held(c, t, x) == IF backlog[c][t][x] # Gone THEN backlog[c][t][x] ELSE view[c][t][x]

\* A connection that is off holds nothing.
Settled(c) ==
  conn[c] = "off" => queue[c] = <<>> /\ backlog[c] = NobodyViews /\ view[c] = NobodyViews
Follows(c) ==
  conn[c] # "off" =>
    \A t \in Wants[c], x \in Items : Reached(queue[c], Held(c, t, x), t, x) = cache[t][x]

\* The inductive invariant of the connections.
StreamInv == \A c \in Clients : Settled(c) /\ Follows(c)

\* The invariant is what ViewsFollowTheCache says, and what connections hold.
LEMMA FollowingIsAhead ==
  ASSUME StreamInv
  PROVE  ViewsFollowTheCache
BY DEF StreamInv, Follows, Reached, Held, ViewsFollowTheCache, Ahead, About

\* A client whose connection, and the cache of whose topics, stand still, follows
\* on.
LEMMA FollowsOn ==
  ASSUME NEW c \in Clients, Settled(c), Follows(c),
         conn'[c] = conn[c], backlog'[c] = backlog[c], view'[c] = view[c], queue'[c] = queue[c],
         conn[c] # "off" => \A t \in Wants[c] : cache'[t] = cache[t]
  PROVE  Settled(c)' /\ Follows(c)'
BY DEF Settled, Follows, Held

\* Events broadcast with the change of the cache they tell of keep every client
\* following (keyed_stream.py:17-23, 125-180).
LEMMA BroadcastFollows ==
  ASSUME StreamAssumption, TypeOK, StreamInv, NEW t \in Topics, NEW events \in Seq(Event),
         Broadcast(t, events), UNCHANGED <<conn, backlog, view>>,
         \A k \in Topics : k # t => cache'[k] = cache[k],
         \A i \in DOMAIN events : events[i].topic = t /\ events[i].content = cache'[t][events[i].item],
         \A x \in Items : cache'[t][x] # cache[t][x] => \E i \in DOMAIN events : events[i].item = x
  PROVE  StreamInv'
<1> SUFFICES ASSUME NEW c \in Clients
             PROVE  Settled(c)' /\ Follows(c)'
  BY DEF StreamInv
<1>1. Settled(c) /\ Follows(c) /\ Wants[c] \subseteq Topics /\ queue[c] \in Seq(Event)
  BY DEF StreamInv, StreamAssumption, TypeOK
<1>2. CASE c \notin Listeners(t)
  <2>1. queue'[c] = queue[c]
    BY <1>2 DEF Broadcast
  <2>2. conn[c] # "off" => t \notin Wants[c]
    BY <1>2 DEF Listeners
  <2> QED BY <1>1, <2>1, <2>2, FollowsOn
<1>3. CASE c \in Listeners(t)
  <2>1. queue'[c] = queue[c] \o events /\ conn[c] # "off"
    BY <1>3 DEF Broadcast, Listeners
  <2>2. Settled(c)'
    BY <1>1, <2>1 DEF Settled
  <2>3. ASSUME NEW k \in Wants[c], NEW x \in Items
        PROVE  Reached(queue'[c], Held(c, k, x), k, x) = cache'[k][x]
    <3>1. Reached(queue[c], Held(c, k, x), k, x) = cache[k][x] /\ k \in Topics
      BY <1>1, <2>1, <2>3 DEF Follows
    <3>2. CASE \A i \in DOMAIN events : ~Of(events[i], k, x)
      <4>1. Reached(queue[c] \o events, Held(c, k, x), k, x) = Reached(queue[c], Held(c, k, x), k, x)
        BY <1>1, <3>2, Appended
      <4>2. cache'[k][x] = cache[k][x]
        BY <3>1, <3>2 DEF Of
      <4> QED BY <2>1, <3>1, <4>1, <4>2
    <3>3. CASE \E i \in DOMAIN events : Of(events[i], k, x)
      <4>1. \A i \in DOMAIN events : Of(events[i], k, x) => events[i].content = cache'[k][x]
        BY DEF Of
      <4>2. Reached(queue[c] \o events, Held(c, k, x), k, x) = cache'[k][x]
        <5>1. PICK j \in DOMAIN events : Of(events[j], k, x)
          BY <3>3
        <5>2. events[j].content = cache'[k][x]
          BY <4>1, <5>1
        <5>3. \A i \in DOMAIN events : Of(events[i], k, x) => events[i].content = events[j].content
          BY <4>1, <5>2
        <5>4. Reached(queue[c] \o events, Held(c, k, x), k, x) = events[j].content
          BY <1>1, <5>1, <5>3, Appended
        <5> QED BY <5>2, <5>4
      <4> QED BY <2>1, <4>2
    <3> QED BY <3>2, <3>3
  <2> QED BY <2>2, <2>3 DEF Follows, Held
<1> QED BY <1>2, <1>3

\* A step that leaves the connections and the cache alone keeps the invariant.
LEMMA QuietFollows ==
  ASSUME StreamInv, UNCHANGED <<cache, wireVars>>
  PROVE  StreamInv'
BY FollowsOn DEF StreamInv, wireVars

\* A write handler tells what it does to the cache (main.py).
LEMMA WriteFollows ==
  ASSUME StreamAssumption, TypeOK, StreamInv, Write
  PROVE  StreamInv'
<1>1. PICK t \in Topics, x \in Items :
        \/ \E v \in Cell : Upsert(t, x, v) \/ Edit(t, x, v) \/ ChangeElsewhere(t, x, v)
        \/ Delete(t, x)
  BY DEF Write
\* One event, for the one cell that changes.
<1>2. ASSUME NEW v \in Cell, cache' = [cache EXCEPT ![t][x] = v],
             Broadcast(t, <<EventOf(t, x, cache[t][x], v)>>), UNCHANGED <<conn, backlog, view>>
      PROVE  StreamInv'
  <2> DEFINE e == EventOf(t, x, cache[t][x], v)
  <2>1. e \in Event /\ e.topic = t /\ e.item = x /\ e.content = v
    BY DEF EventOf, Event, Kinds
  <2> HIDE DEF e
  <2>2. <<e>> \in Seq(Event) /\ DOMAIN <<e>> = {1} /\ <<e>>[1] = e
    BY <2>1
  <2>3. cache'[t][x] = v /\ (\A y \in Items : y # x => cache'[t][y] = cache[t][y])
        /\ \A k \in Topics : k # t => cache'[k] = cache[k]
    BY <1>2 DEF TypeOK, Table
  <2>4. Broadcast(t, <<e>>)
    BY <1>2 DEF e
  <2>5. \A i \in DOMAIN <<e>> : <<e>>[i].topic = t /\ <<e>>[i].content = cache'[t][<<e>>[i].item]
    BY <2>1, <2>2, <2>3
  <2>6. \A y \in Items : cache'[t][y] # cache[t][y] => \E i \in DOMAIN <<e>> : <<e>>[i].item = y
    BY <2>1, <2>2, <2>3
  <2> QED BY <1>2, <2>2, <2>3, <2>4, <2>5, <2>6, BroadcastFollows
<1>3. ASSUME NEW v \in Cell, Upsert(t, x, v) \/ Edit(t, x, v)
      PROVE  StreamInv'
  BY <1>2, <1>3, QuietFollows DEF Upsert, Edit, wireVars
<1>4. CASE Delete(t, x)
  <2>1. Gone \in Cell
    BY DEF Cell
  <2> QED BY <1>2, <1>4, <2>1, QuietFollows DEF Delete, wireVars
<1>5. CASE \E v \in Cell : ChangeElsewhere(t, x, v)
  BY <1>5, QuietFollows DEF ChangeElsewhere
<1> QED BY <1>1, <1>3, <1>4, <1>5

\* A poll that is dispatched tells all that it changes (keyed_stream.py:217-232).
LEMMA PollFollows ==
  ASSUME StreamAssumption, TypeOK, StreamInv, PollStep
  PROVE  StreamInv'
<1>1. ASSUME NEW p \in Slots, PollDispatches(p)
      PROVE  StreamInv'
  <2> DEFINE t == poller[p].topic
             got == poller[p].got
  <2>1. t \in Topics /\ got \in Table /\ cache[t] \in Table
    BY <1>1 DEF PollDispatches, TypeOK, Poll, Idle
  <2>2. CASE cache[t] = poller[p].before
    <3>1. /\ cache' = [cache EXCEPT ![t] = got] /\ Broadcast(t, Diff(t, cache[t], got))
          /\ UNCHANGED <<conn, backlog, view>>
      BY <1>1, <2>2 DEF PollDispatches
    <3> HIDE DEF t, got
    <3>2. cache'[t] = got /\ \A k \in Topics : k # t => cache'[k] = cache[k]
      BY <2>1, <3>1 DEF TypeOK
    <3> DEFINE events == Diff(t, cache[t], got)
    <3>3. /\ events \in Seq(Event)
          /\ \A i \in DOMAIN events : events[i].topic = t /\ events[i].content = got[events[i].item]
          /\ \A x \in Items : cache[t][x] # got[x] => \E i \in DOMAIN events : events[i].item = x
      <4> DEFINE old == cache[t]
      <4>1. old \in Table
        BY <2>1
      <4>2. /\ Diff(t, old, got) \in Seq(Event)
            /\ \A i \in DOMAIN Diff(t, old, got) :
                 /\ Diff(t, old, got)[i].topic = t
                 /\ Diff(t, old, got)[i].item \in Items
                 /\ Diff(t, old, got)[i].content = got[Diff(t, old, got)[i].item]
            /\ \A x \in Items : old[x] # got[x] =>
                 \E i \in DOMAIN Diff(t, old, got) : Diff(t, old, got)[i].item = x
        <5> HIDE DEF old
        <5> QED BY <2>1, <4>1, DiffReports
      <4> QED BY <4>2
    <3>4. Broadcast(t, events)
      BY <3>1
    <3> HIDE DEF events
    <3> QED BY <2>1, <3>1, <3>2, <3>3, <3>4, BroadcastFollows
  <2>3. CASE cache[t] # poller[p].before
    BY <1>1, <2>3, QuietFollows DEF PollDispatches, wireVars
  <2> QED BY <2>2, <2>3
<1>2. CASE \/ SweepBegins
           \/ \E t \in Topics : SweepPolls(t) \/ DuePolls(t)
           \/ \E p \in Slots : PollReads(p) \/ PollFails(p)
  <2>1. UNCHANGED <<cache, wireVars>>
    BY <1>2 DEF SweepBegins, SweepPolls, DuePolls, Begin, PollReads, PollFails, dataVars
  <2> QED BY <2>1, QuietFollows
<1> QED BY <1>1, <1>2 DEF PollStep

\* A client that connects is to be replayed the cache; what it is sent brings it
\* nearer, and one that leaves takes only its own with it
\* (keyed_stream.py:90-123, main.py).
LEMMA ServeFollows ==
  ASSUME StreamAssumption, TypeOK, StreamInv, NEW c \in Clients,
         Connect(c) \/ Serve(c) \/ Disconnect(c)
  PROVE  StreamInv'
<1> USE DEF TypeOK
<1>1. Settled(c) /\ Follows(c) /\ Wants[c] \subseteq Topics /\ queue[c] \in Seq(Event)
  BY DEF StreamInv, StreamAssumption
<1>2. ASSUME NEW d \in Clients, d # c
      PROVE  Settled(d)' /\ Follows(d)'
  <2>1. Settled(d) /\ Follows(d) /\ Wants[d] \subseteq Topics
    BY DEF StreamInv, StreamAssumption
  <2>2. conn'[d] = conn[d] /\ backlog'[d] = backlog[d] /\ view'[d] = view[d] /\ queue'[d] = queue[d]
    BY <1>2 DEF Connect, Serve, Replay, Forward, Disconnect
  <2>3. CASE Disconnect(c)
    <3>1. \A t \in Wants[d] : conn[d] # "off" => d \in Listeners(t)
      BY DEF Listeners
    <3>2. conn[d] # "off" => \A t \in Wants[d] : cache'[t] = cache[t]
      BY <1>2, <2>1, <2>3, <3>1 DEF Disconnect
    <3> QED BY <2>1, <2>2, <3>2, FollowsOn
  <2>4. CASE Connect(c) \/ Serve(c)
    <3>1. cache' = cache
      BY <2>4 DEF Connect, Serve, Replay, Forward, dataVars
    <3> QED BY <2>1, <2>2, <3>1, FollowsOn
  <2> QED BY <2>3, <2>4
<1>3. ASSUME Settled(c)', Follows(c)'
      PROVE  StreamInv'
  BY <1>2, <1>3 DEF StreamInv
<1>4. CASE Connect(c)
  <2>1. /\ conn[c] = "off" /\ conn'[c] = "on" /\ queue' = queue /\ view' = view /\ cache' = cache
        /\ backlog'[c] = [t \in Topics |-> IF t \in Wants[c] THEN cache[t] ELSE Empty]
    BY <1>4 DEF Connect, dataVars
  <2>2. queue[c] = <<>> /\ view[c] = NobodyViews
    BY <1>1, <2>1 DEF Settled
  <2>3. ASSUME NEW t \in Wants[c], NEW x \in Items
        PROVE  Reached(queue'[c], Held(c, t, x)', t, x) = cache'[t][x]
    <3>1. t \in Topics /\ view'[c][t][x] = Gone /\ backlog'[c][t][x] = cache[t][x]
      BY <1>1, <2>1, <2>2 DEF NobodyViews, Empty
    <3>2. Held(c, t, x)' = cache[t][x]
      BY <3>1 DEF Held
    <3>3. Reached(<<>>, Held(c, t, x)', t, x) = Held(c, t, x)'
      BY DEF Reached
    <3> QED BY <2>1, <2>2, <3>2, <3>3
  <2>4. Settled(c)' /\ Follows(c)'
    BY <2>1, <2>3 DEF Settled, Follows, Held
  <2> QED BY <1>3, <2>4
<1>5. CASE Replay(c)
  <2>1. PICK k \in Topics, y \in Items :
          /\ backlog[c][k][y] # Gone
          /\ view' = [view EXCEPT ![c][k][y] = backlog[c][k][y]]
          /\ backlog' = [backlog EXCEPT ![c][k][y] = Gone]
    BY <1>5 DEF Replay
  <2>2. conn[c] = "on" /\ UNCHANGED <<cache, conn, queue>>
    BY <1>5 DEF Replay, dataVars
  <2>3. ASSUME NEW t \in Topics, NEW x \in Items
        PROVE  Held(c, t, x)' = Held(c, t, x)
    <3>1. /\ backlog'[c][t][x] = IF t = k /\ x = y THEN Gone ELSE backlog[c][t][x]
          /\ view'[c][t][x] = IF t = k /\ x = y THEN backlog[c][t][x] ELSE view[c][t][x]
      BY <2>1 DEF Table
    <3> QED BY <2>1, <3>1 DEF Held
  <2>4. Settled(c)'
    BY <2>2 DEF Settled
  <2>5. Follows(c)'
    BY <1>1, <2>2, <2>3 DEF Follows
  <2> QED BY <1>3, <2>4, <2>5
<1>7. CASE Forward(c)
  <2> DEFINE e == Head(queue[c])
  <2>1. /\ conn[c] = "on" /\ backlog[c] = NobodyViews /\ queue[c] # <<>> /\ queue'[c] = Tail(queue[c])
        /\ view' = [view EXCEPT ![c][e.topic][e.item] = e.content]
        /\ UNCHANGED <<cache, conn, backlog>>
    BY <1>7 DEF Forward, dataVars
  <2>2. e \in Event
    BY <1>1, <2>1
  <2>3. e.topic \in Topics /\ e.item \in Items
    BY <2>2 DEF Event
  <2> HIDE DEF e
  <2>5. ASSUME NEW t \in Wants[c], NEW x \in Items
        PROVE  Reached(queue'[c], Held(c, t, x)', t, x) = cache'[t][x]
    <3>1. t \in Topics /\ backlog[c][t][x] = Gone
      BY <1>1, <2>1 DEF NobodyViews, Empty
    <3>2. view'[c][t][x] = IF Of(e, t, x) THEN e.content ELSE view[c][t][x]
      BY <2>1, <2>3, <3>1 DEF Of, Table
    <3>3. /\ Held(c, t, x) = view[c][t][x]
          /\ Held(c, t, x)' = IF Of(e, t, x) THEN e.content ELSE Held(c, t, x)
      BY <2>1, <3>1, <3>2 DEF Held
    <3>4. Reached(Tail(queue[c]), Held(c, t, x)', t, x) = Reached(queue[c], Held(c, t, x), t, x)
      BY <1>1, <2>1, <3>3, Taken DEF e
    <3> QED BY <1>1, <2>1, <3>4 DEF Follows
  <2>6. Settled(c)' /\ Follows(c)'
    BY <1>1, <2>1, <2>5 DEF Settled, Follows, Held
  <2> QED BY <1>3, <2>6
<1>8. CASE Disconnect(c)
  <2>1. /\ conn'[c] = "off" /\ backlog'[c] = NobodyViews /\ queue'[c] = <<>> /\ view'[c] = NobodyViews
    BY <1>8 DEF Disconnect
  <2> QED BY <1>3, <2>1 DEF Settled, Follows
<1> QED BY <1>4, <1>5, <1>7, <1>8 DEF Serve

\* The types and the connections' invariant hold.
LEMMA StreamsHold == Spec => [](TypeOK /\ StreamInv)
<1>1. Init => TypeOK /\ StreamInv
  BY InitTyped, StreamAssumption DEF Init, StreamInv, Settled, Follows
<1>2. TypeOK /\ StreamInv /\ [Next]_vars => (TypeOK /\ StreamInv)'
  <2> SUFFICES ASSUME TypeOK, StreamInv, [Next]_vars
               PROVE  TypeOK' /\ StreamInv'
    OBVIOUS
  <2>1. TypeOK'
    BY NextTyped, StreamAssumption
  <2>2. CASE UNCHANGED vars
    BY <2>1, <2>2, QuietFollows DEF vars, dataVars
  <2>3. CASE Next
    BY <2>1, <2>3, WriteFollows, PollFollows, ServeFollows, StreamAssumption DEF Next
  <2> QED BY <2>2, <2>3
<1> QED BY <1>1, <1>2, PTL DEF Spec

\* A subscriber is never sent half a poll or twice an event: what it holds and
\* what is under way to it come to the cache of its topics, however polls, writes
\* and other clients come and go (keyed_stream.py:17-23).
THEOREM ViewsFollow == Spec => []ViewsFollowTheCache
<1>1. TypeOK /\ StreamInv => ViewsFollowTheCache
  BY FollowingIsAhead
<1> QED BY <1>1, StreamsHold, PTL

-----------------------------------------------------------------------------
(* The cache never goes back *)

\* The contents of a stamped item are numbered as they are written: one that is
\* there both times has not gone back.
NotAfter(a, b) == a # Gone /\ b # Gone => a <= b
Written(a) == a # Gone => a \in 0..writes

\* What is cached is no later than what is in the source.
CacheIsNoLater ==
  \A t \in Stamped, x \in Items :
    Written(source[t][x]) /\ Written(cache[t][x]) /\ NotAfter(cache[t][x], source[t][x])
\* What a poll has found in the cache is no later than what it reads, and that no
\* later than the source.
PollIsNoLater(p) ==
  LET t == poller[p].topic
  IN  \A x \in Items :
        /\ poller[p].pc \in {"polling", "read"} /\ t \in Stamped =>
             Written(poller[p].before[x]) /\ NotAfter(poller[p].before[x], source[t][x])
        /\ poller[p].pc = "read" /\ t \in Stamped =>
             /\ Written(poller[p].got[x]) /\ NotAfter(poller[p].got[x], source[t][x])
             /\ NotAfter(poller[p].before[x], poller[p].got[x])

\* The inductive invariant of the ages of what is cached and read.
AgeInv == CacheIsNoLater /\ \A p \in Slots : PollIsNoLater(p)

NoCellGoesBack ==
  \A t \in Stamped, x \in Items : NotAfter(cache[t][x], cache'[t][x])

\* What is stored anew is later than all that was written.
LEMMA SourceGrows ==
  ASSUME StreamAssumption, TypeOK, Write
  PROVE  /\ writes' = writes + 1 /\ writes \in Nat
         /\ \A t \in Stamped, x \in Items : source'[t][x] \in {source[t][x], Gone, writes + 1}
         /\ \A t \in Stamped, x \in Items :
              \/ cache'[t][x] = cache[t][x]
              \/ cache'[t][x] = source'[t][x] /\ source'[t][x] \in {Gone, writes + 1}
<1> USE DEF TypeOK
<1>1. PICK t \in Topics, x \in Items :
        \/ \E v \in Cell : Upsert(t, x, v) \/ Edit(t, x, v) \/ ChangeElsewhere(t, x, v)
        \/ Delete(t, x)
  BY DEF Write
<1>2. writes' = writes + 1 /\ writes \in Nat
  <2>1. CountWrite
    BY <1>1 DEF Upsert, Edit, Delete, ChangeElsewhere
  <2> QED BY <2>1 DEF CountWrite
<1>3. PICK v \in NewContents(t) \cup {Gone} :
        /\ source' = [source EXCEPT ![t][x] = v]
        /\ cache' = cache \/ cache' = [cache EXCEPT ![t][x] = v]
  BY <1>1 DEF Upsert, Edit, Delete, ChangeElsewhere
<1>4. t \in Stamped => v \in {writes + 1, Gone}
  BY <1>3 DEF NewContents, ContentsOf
<1>5. \A k \in Topics, y \in Items :
        /\ source'[k][y] = IF k = t /\ y = x THEN v ELSE source[k][y]
        /\ \/ cache'[k][y] = cache[k][y]
           \/ cache'[k][y] = v /\ k = t /\ y = x
  BY <1>3 DEF Table
<1>6. \A k \in Stamped : k \in Topics
  BY DEF StreamAssumption
<1>7. ASSUME NEW k \in Stamped, NEW y \in Items
      PROVE  source'[k][y] \in {source[k][y], Gone, writes + 1}
  BY <1>4, <1>5, <1>6, <1>7
<1>8. ASSUME NEW k \in Stamped, NEW y \in Items
      PROVE  \/ cache'[k][y] = cache[k][y]
             \/ cache'[k][y] = source'[k][y] /\ source'[k][y] \in {Gone, writes + 1}
  BY <1>4, <1>5, <1>6, <1>8
<1> QED BY <1>2, <1>7, <1>8

\* A write takes nothing back, in the cache or beside the polls under way.
LEMMA WriteAges ==
  ASSUME StreamAssumption, TypeOK, AgeInv, Write
  PROVE  AgeInv' /\ NoCellGoesBack
<1>1. /\ writes' = writes + 1 /\ writes \in Nat
      /\ \A t \in Stamped, x \in Items : source'[t][x] \in {source[t][x], Gone, writes + 1}
      /\ \A t \in Stamped, x \in Items :
           \/ cache'[t][x] = cache[t][x]
           \/ cache'[t][x] = source'[t][x] /\ source'[t][x] \in {Gone, writes + 1}
  BY SourceGrows
\* What was no later than the source stays so.
<1>2. ASSUME NEW a, NEW t \in Stamped, NEW x \in Items, Written(a), NotAfter(a, source[t][x])
      PROVE  Written(a)' /\ NotAfter(a, source'[t][x]) /\ NotAfter(a, writes + 1)
  BY <1>1, <1>2 DEF Written, NotAfter
<1>3. ASSUME NEW t \in Stamped, NEW x \in Items
      PROVE  /\ Written(source[t][x])' /\ Written(cache[t][x])'
             /\ NotAfter(cache[t][x], source[t][x])' /\ NotAfter(cache[t][x], cache'[t][x])
  <2>1. Written(source[t][x]) /\ Written(cache[t][x]) /\ NotAfter(cache[t][x], source[t][x])
    BY DEF AgeInv, CacheIsNoLater
  <2>2. Written(source[t][x])'
    BY <1>1, <2>1 DEF Written
  <2>3. /\ NotAfter(cache[t][x], source'[t][x]) /\ NotAfter(cache[t][x], writes + 1)
        /\ cache[t][x] # Gone => cache[t][x] \in 0..(writes + 1)
    BY <1>1, <2>1 DEF Written, NotAfter
  <2>4. CASE cache'[t][x] = cache[t][x]
    BY <1>1, <2>2, <2>3, <2>4 DEF Written, NotAfter
  <2>5. CASE cache'[t][x] = source'[t][x] /\ source'[t][x] \in {Gone, writes + 1}
    BY <1>1, <2>2, <2>3, <2>5 DEF Written, NotAfter
  <2> QED BY <1>1, <2>4, <2>5
<1>4. poller' = poller
  <2>1. \A t \in Topics, x \in Items, v \in Cell :
          Upsert(t, x, v) \/ Edit(t, x, v) \/ Delete(t, x) \/ ChangeElsewhere(t, x, v) => UNCHANGED pollVars
    BY DEF Upsert, Edit, Delete, ChangeElsewhere, pollVars
  <2>2. Gone \in Cell
    BY DEF Cell
  <2> QED BY <2>1, <2>2 DEF Write, pollVars
<1>5. ASSUME NEW p \in Slots
      PROVE  PollIsNoLater(p)'
  <2>1. PollIsNoLater(p)
    BY DEF AgeInv
  <2> SUFFICES ASSUME NEW x \in Items, poller[p].pc \in {"polling", "read"},
                      poller[p].topic \in Stamped
               PROVE  /\ Written(poller[p].before[x])' /\ NotAfter(poller[p].before[x], source'[poller[p].topic][x])
                      /\ poller[p].pc = "read" =>
                           /\ Written(poller[p].got[x])'
                           /\ NotAfter(poller[p].got[x], source'[poller[p].topic][x])
                           /\ NotAfter(poller[p].before[x], poller[p].got[x])
    BY <1>4 DEF PollIsNoLater
  <2>2. /\ Written(poller[p].before[x]) /\ NotAfter(poller[p].before[x], source[poller[p].topic][x])
        /\ poller[p].pc = "read" =>
             /\ Written(poller[p].got[x]) /\ NotAfter(poller[p].got[x], source[poller[p].topic][x])
             /\ NotAfter(poller[p].before[x], poller[p].got[x])
    BY <2>1 DEF PollIsNoLater
  <2>3. Written(poller[p].before[x])' /\ NotAfter(poller[p].before[x], source'[poller[p].topic][x])
    BY <1>2, <1>4, <2>2
  <2>4. poller[p].pc = "read" =>
          Written(poller[p].got[x])' /\ NotAfter(poller[p].got[x], source'[poller[p].topic][x])
    BY <1>2, <1>4, <2>2
  <2> QED BY <2>2, <2>3, <2>4
<1>6. CacheIsNoLater' /\ NoCellGoesBack
  BY <1>3 DEF CacheIsNoLater, NoCellGoesBack
<1> QED BY <1>5, <1>6 DEF AgeInv

\* A poll takes nothing back: what it read before a write, or before another poll,
\* is dropped, for the cache is not what it found (keyed_stream.py:217-232).
LEMMA PollAges ==
  ASSUME StreamAssumption, TypeOK, AgeInv, PollStep
  PROVE  AgeInv' /\ NoCellGoesBack
<1>0. writes \in Nat
  BY DEF TypeOK, StreamAssumption
<1>1. \A a : Written(a) => NotAfter(a, a)
  BY <1>0 DEF NotAfter, Written
<1>2. \A t \in Stamped, x \in Items : Written(cache[t][x]) /\ Written(source[t][x])
  BY DEF AgeInv, CacheIsNoLater
<1>3. UNCHANGED <<source, writes>>
  BY DEF PollStep, SweepBegins, SweepPolls, DuePolls, Begin, PollReads, PollFails, PollDispatches,
         dataVars
<1>4. ASSUME NEW p \in Slots, poller'[p] = poller[p]
      PROVE  PollIsNoLater(p)'
  <2>1. PollIsNoLater(p)
    BY DEF AgeInv
  <2> QED BY <1>3, <1>4, <2>1 DEF PollIsNoLater, Written, NotAfter
<1>5. ASSUME cache' = cache
      PROVE  CacheIsNoLater' /\ NoCellGoesBack
  BY <1>1, <1>2, <1>3, <1>5 DEF AgeInv, CacheIsNoLater, NoCellGoesBack, Written, NotAfter
\* The slot of one poll moves.
<1>6. ASSUME NEW p \in Slots, \A q \in Slots : q # p => poller'[q] = poller[q], PollIsNoLater(p)',
             CacheIsNoLater', NoCellGoesBack
      PROVE  AgeInv' /\ NoCellGoesBack
  BY <1>4, <1>6 DEF AgeInv
<1>7. CASE SweepBegins
  BY <1>4, <1>5, <1>7 DEF SweepBegins, dataVars, AgeInv
<1>8. ASSUME NEW p \in Slots, NEW t \in Topics, Begin(p, t)
      PROVE  AgeInv' /\ NoCellGoesBack
  <2>1. /\ poller'[p] = [pc |-> "polling", topic |-> t, before |-> cache[t], got |-> Empty]
        /\ \A q \in Slots : q # p => poller'[q] = poller[q]
        /\ cache' = cache
    BY <1>8 DEF Begin, TypeOK, dataVars
  <2>2. PollIsNoLater(p)'
    BY <1>3, <2>1 DEF PollIsNoLater, AgeInv, CacheIsNoLater, Written, NotAfter
  <2> QED BY <1>5, <1>6, <2>1, <2>2
<1>9. \A t \in Topics : SweepPolls(t) \/ DuePolls(t) => \E p \in Slots : Begin(p, t)
  BY DEF SweepPolls, DuePolls, Slots, StreamAssumption
<1>10. ASSUME NEW p \in Slots, PollReads(p)
       PROVE  AgeInv' /\ NoCellGoesBack
  <2>1. poller[p] \in [pc : {"polling", "read"}, topic : Topics, before : Table, got : Table]
        /\ poller[p].pc = "polling"
    BY <1>10 DEF PollReads, TypeOK, Poll, Idle
  <2>2. /\ poller'[p] = [poller[p] EXCEPT !.pc = "read", !.got = source[poller[p].topic]]
        /\ \A q \in Slots : q # p => poller'[q] = poller[q]
        /\ cache' = cache
    BY <1>10 DEF PollReads, TypeOK, dataVars
  <2>3. /\ poller'[p].topic = poller[p].topic /\ poller'[p].before = poller[p].before
        /\ poller'[p].got = source[poller[p].topic] /\ poller[p].topic \in Topics
    BY <2>1, <2>2
  <2>4. PollIsNoLater(p)
    BY DEF AgeInv
  <2>5. PollIsNoLater(p)'
    <3> DEFINE t == poller[p].topic
               b == poller[p].before
    <3>1. t \in Stamped =>
            \A x \in Items : /\ Written(b[x]) /\ NotAfter(b[x], source[t][x]) /\ Written(source[t][x])
                             /\ NotAfter(source[t][x], source[t][x])
      BY <1>1, <1>2, <2>1, <2>4 DEF PollIsNoLater
    <3> HIDE DEF t, b
    <3>2. poller'[p].topic = t /\ poller'[p].before = b /\ poller'[p].got = source[t]
      BY <2>3 DEF t, b
    <3> QED BY <1>3, <3>1, <3>2 DEF PollIsNoLater, Written, NotAfter
  <2> QED BY <1>5, <1>6, <2>2, <2>5
<1>11. ASSUME NEW p \in Slots, PollFails(p)
       PROVE  AgeInv' /\ NoCellGoesBack
  <2>1. poller'[p] = Idle /\ (\A q \in Slots : q # p => poller'[q] = poller[q]) /\ cache' = cache
    BY <1>11 DEF PollFails, TypeOK, dataVars
  <2>2. PollIsNoLater(p)'
    BY <2>1 DEF PollIsNoLater, Idle
  <2> QED BY <1>5, <1>6, <2>1, <2>2
<1>12. ASSUME NEW p \in Slots, PollDispatches(p)
       PROVE  AgeInv' /\ NoCellGoesBack
  <2> DEFINE t == poller[p].topic
             got == poller[p].got
             before == poller[p].before
  <2>1. poller[p].pc = "read" /\ t \in Topics /\ got \in Table
    BY <1>12 DEF PollDispatches, TypeOK, Poll, Idle
  <2>2. poller'[p] = Idle /\ \A q \in Slots : q # p => poller'[q] = poller[q]
    BY <1>12 DEF PollDispatches, TypeOK
  <2>3. PollIsNoLater(p)'
    BY <2>2 DEF PollIsNoLater, Idle
  <2>4. t \in Stamped =>
          \A x \in Items : /\ Written(got[x]) /\ NotAfter(got[x], source[t][x])
                           /\ NotAfter(before[x], got[x])
    BY <2>1 DEF AgeInv, PollIsNoLater
  <2>5. \/ cache' = cache
        \/ cache' = [cache EXCEPT ![t] = got] /\ cache[t] = before
    BY <1>12 DEF PollDispatches
  <2> HIDE DEF t, got, before
  <2>6. CASE cache' = [cache EXCEPT ![t] = got] /\ cache[t] = before
    <3>1. \A k \in Topics : cache'[k] = IF k = t THEN got ELSE cache[k]
      BY <2>1, <2>6 DEF TypeOK
    <3>2. CacheIsNoLater'
      BY <1>3, <2>4, <3>1 DEF AgeInv, CacheIsNoLater, Written, NotAfter, StreamAssumption
    <3>3. NoCellGoesBack
      BY <1>1, <1>2, <2>4, <2>6, <3>1 DEF NoCellGoesBack, StreamAssumption
    <3> QED BY <1>6, <2>2, <2>3, <3>2, <3>3
  <2> QED BY <1>5, <1>6, <2>2, <2>3, <2>5, <2>6
<1> QED BY <1>7, <1>8, <1>9, <1>10, <1>11, <1>12 DEF PollStep

\* Connections take nothing back: at most, an item leaves the cache.
LEMMA ServeAges ==
  ASSUME StreamAssumption, TypeOK, AgeInv, NEW c \in Clients, Connect(c) \/ Serve(c) \/ Disconnect(c)
  PROVE  AgeInv' /\ NoCellGoesBack
<1>1. UNCHANGED <<source, writes, poller>>
  BY DEF Connect, Serve, Replay, Forward, Disconnect, dataVars, pollVars
<1>2. \A t \in Topics : cache'[t] = cache[t] \/ cache'[t] = Empty
  BY DEF Connect, Serve, Replay, Forward, Disconnect, dataVars
<1>3. \A t \in Topics, x \in Items : cache'[t][x] = cache[t][x] \/ cache'[t][x] = Gone
  BY <1>2 DEF Empty
<1>4. writes \in Nat /\ \A t \in Stamped, x \in Items : Written(cache[t][x])
  BY DEF TypeOK, StreamAssumption, AgeInv, CacheIsNoLater
<1>5. \A t \in Stamped, x \in Items : NotAfter(cache[t][x], cache[t][x])
  BY <1>4 DEF NotAfter, Written
<1>6. NoCellGoesBack
  BY <1>3, <1>5 DEF NoCellGoesBack, NotAfter, StreamAssumption
<1>7. CacheIsNoLater'
  BY <1>1, <1>3 DEF AgeInv, CacheIsNoLater, Written, NotAfter, StreamAssumption
<1>8. \A p \in Slots : PollIsNoLater(p)'
  BY <1>1 DEF AgeInv, PollIsNoLater, Written, NotAfter
<1> QED BY <1>6, <1>7, <1>8 DEF AgeInv

\* A stamped item that stays in the cache never goes back to an older one: no poll
\* that read before a write, or before another poll, is dispatched over it
\* (keyed_stream.py:217-232).
THEOREM NeverGoesBack == Spec => CacheNeverGoesBack
<1>1. Init => AgeInv
  <2> SUFFICES ASSUME Init
               PROVE  AgeInv
    OBVIOUS
  <2>1. \A t \in Stamped, x \in Items : source[t][x] \in {0, Gone} /\ cache[t][x] = Gone
    BY StreamAssumption DEF Init, StreamAssumption, ContentsOf, Empty
  <2>2. writes = 0 /\ \A p \in Slots : poller[p].pc = "idle"
    BY DEF Init, Idle
  <2>3. CacheIsNoLater
    BY <2>1, <2>2 DEF CacheIsNoLater, Written, NotAfter
  <2> QED BY <2>2, <2>3 DEF AgeInv, PollIsNoLater
<1>2. TypeOK /\ AgeInv /\ [Next]_vars => AgeInv' /\ NoCellGoesBack
  <2> SUFFICES ASSUME TypeOK, AgeInv, [Next]_vars
               PROVE  AgeInv' /\ NoCellGoesBack
    OBVIOUS
  <2>1. CASE UNCHANGED vars
    <3>1. UNCHANGED <<source, cache, writes, poller>>
      BY <2>1 DEF vars, dataVars, pollVars
    <3>2. AgeInv'
      BY <3>1 DEF AgeInv, CacheIsNoLater, PollIsNoLater, Written, NotAfter
    <3>3. writes \in Nat /\ \A t \in Stamped, x \in Items : Written(cache[t][x])
      BY StreamAssumption DEF TypeOK, StreamAssumption, AgeInv, CacheIsNoLater
    <3>4. NoCellGoesBack
      BY <3>1, <3>3 DEF NoCellGoesBack, NotAfter, Written
    <3> QED BY <3>2, <3>4
  <2>2. CASE Next
    BY <2>2, WriteAges, PollAges, ServeAges, StreamAssumption DEF Next
  <2> QED BY <2>1, <2>2
<1>3. NoCellGoesBack =>
        \A t \in Stamped, x \in Items :
          cache[t][x] # Gone /\ cache'[t][x] # Gone => cache[t][x] <= cache'[t][x]
  BY DEF NoCellGoesBack, NotAfter
<1>4. [NoCellGoesBack]_vars =>
        [\A t \in Stamped, x \in Items :
           cache[t][x] # Gone /\ cache'[t][x] # Gone => cache[t][x] <= cache'[t][x]]_vars
  BY <1>3
<1> QED BY <1>1, <1>2, <1>4, TypeCorrect, PTL DEF Spec, CacheNeverGoesBack
=============================================================================
