----------------------------- MODULE KeyedStream -----------------------------
(***************************************************************************)
(* The live streams of the UI backend: a Refresher polls the source of the *)
(* topics somebody listens to, keeps what it read in a cache, and sends    *)
(* each WebSocket what the cache held when it connected and every change   *)
(* since.  Write handlers change the source and the cache together.        *)
(* Source: cortexgrid_ui/backend/utils/keyed_stream.py and main.py.        *)
(*                                                                         *)
(* The backend is one asyncio event loop.  No section under the dispatch   *)
(* lock suspends (a listener puts into an unbounded queue), so each one is *)
(* a single step, and so is a disconnection, which takes no lock.  What a  *)
(* poll reads it reads in a thread, at a moment of its own.                *)
(***************************************************************************)
EXTENDS Integers, Sequences, SequencesExt

CONSTANTS
  Topics,
  Pinned,       \* topics kept in the sweep for good
  Items,        \* item ids, within a topic
  Clients,      \* WebSocket connections
  Wants,        \* Wants[c]: the topics c subscribes to
  Stamped,      \* topics whose items tell when they were written (notes)
  Recurring,    \* what an item of another topic may hold, again and again
  Before,       \* Before[t]: the items of t when the backend starts
  Gone,         \* no such item
  MaxWrites,    \* changes of the source (a bound)
  MaxFailures,  \* polls that fail (a bound)
  MaxTasks      \* polls beside the sweep's, at a time (a bound)

\* The content of a stamped item is the write it comes of; 0 is before them all.
Stamps == 0..MaxWrites
Contents == Stamps \cup Recurring
Cell == Contents \cup {Gone}
Table == [Items -> Cell]
Empty == [x \in Items |-> Gone]

\* What write n may leave in an item of t.
ContentsOf(t, n) == IF t \in Stamped THEN {n} ELSE Recurring

ASSUME StreamAssumption ==
  /\ Pinned \subseteq Topics
  /\ Wants \in [Clients -> SUBSET Topics]
  /\ Stamped \subseteq Topics
  /\ Before \in [Topics -> Table]
  /\ \A t \in Topics, x \in Items : Before[t][x] \in ContentsOf(t, 0) \cup {Gone}
  /\ Gone \notin Contents
  /\ IsFiniteSet(Items) \* a topic's items are the keys of a dict
  /\ MaxWrites \in Nat /\ MaxFailures \in Nat /\ MaxTasks \in Nat

VARIABLES
  source,    \* source[t]: the items of t where they are kept
  cache,     \* cache[t]: KeyedCache
  sweep,     \* topics _loop has still to poll in this round
  due,       \* due[t]: polls scheduled by a first subscriber, not begun
  poller,    \* poller[0]: the poll of _loop; the others: scheduled polls
  conn,      \* conn[c]: whether c is connected
  backlog,   \* backlog[c]: initial items not sent yet
  queue,     \* queue[c]: live events not sent yet
  view,      \* view[c]: what the client has made of what it was sent
  writes, failures

dataVars == <<source, cache, writes>>
pollVars == <<sweep, due, poller, failures>>
wireVars == <<conn, backlog, queue, view>>
vars == <<dataVars, pollVars, wireVars>>

Slots == 0..MaxTasks
Kinds == {"added", "updated", "removed"}
Event == [topic : Topics, item : Items, kind : Kinds, content : Cell]
NobodyViews == [t \in Topics |-> Empty]

Idle == [pc |-> "idle"]
Poll == {Idle} \cup
        [pc : {"polling", "read"}, topic : Topics, before : Table, got : Table]

Listeners(t) == {c \in Clients : conn[c] # "off" /\ t \in Wants[c]}
Listened(t) == t \in Pinned \/ Listeners(t) # {}

-----------------------------------------------------------------------------
Init ==
  /\ source = Before
  /\ cache = [t \in Topics |-> Empty]
  /\ sweep = {}
  /\ due = [t \in Topics |-> 0]
  /\ poller = [p \in Slots |-> Idle]
  /\ conn = [c \in Clients |-> "off"]
  /\ backlog = [c \in Clients |-> NobodyViews]
  /\ queue = [c \in Clients |-> <<>>]
  /\ view = [c \in Clients |-> NobodyViews]
  /\ writes = 0
  /\ failures = 0

-----------------------------------------------------------------------------
(* Events *)

EventOf(t, x, old, new) ==
  [topic |-> t, item |-> x, content |-> new,
   kind |-> IF old = Gone THEN "added" ELSE IF new = Gone THEN "removed" ELSE "updated"]

\* _diff_dict; events about different items commute, so any order will do.
Diff(t, old, new) ==
  LET changed == SetToSeq({x \in Items : old[x] # new[x]})
  IN  [i \in DOMAIN changed |-> EventOf(t, changed[i], old[changed[i]], new[changed[i]])]

Broadcast(t, events) ==
  queue' = [c \in Clients |-> IF c \in Listeners(t) THEN queue[c] \o events ELSE queue[c]]

-----------------------------------------------------------------------------
(* Writers *)

NewContents(t) == ContentsOf(t, writes + 1)

CountWrite == writes < MaxWrites /\ writes' = writes + 1

\* A note is written where it is kept, then update_or_insert.
Upsert(t, x, v) ==
  /\ v \in NewContents(t) /\ CountWrite
  /\ t \in Stamped
  /\ source' = [source EXCEPT ![t][x] = v]
  /\ IF Listened(t)
       THEN /\ cache' = [cache EXCEPT ![t][x] = v]
            /\ Broadcast(t, <<EventOf(t, x, cache[t][x], v)>>)
       ELSE UNCHANGED <<cache, queue>>
  /\ UNCHANGED <<pollVars, conn, backlog, view>>

\* A model is edited in the registry, and then in the cache if it is there.
Edit(t, x, v) ==
  /\ v \in NewContents(t) /\ CountWrite
  /\ t \notin Stamped
  /\ source[t][x] # Gone
  /\ source' = [source EXCEPT ![t][x] = v]
  /\ IF Listened(t) /\ cache[t][x] # Gone
       THEN /\ cache' = [cache EXCEPT ![t][x] = v]
            /\ Broadcast(t, <<EventOf(t, x, cache[t][x], v)>>)
       ELSE UNCHANGED <<cache, queue>>
  /\ UNCHANGED <<pollVars, conn, backlog, view>>

\* A handler deletes the item where it is kept, then remove.
Delete(t, x) ==
  /\ CountWrite
  /\ source[t][x] # Gone
  /\ source' = [source EXCEPT ![t][x] = Gone]
  /\ IF Listened(t) /\ cache[t][x] # Gone
       THEN /\ cache' = [cache EXCEPT ![t][x] = Gone]
            /\ Broadcast(t, <<EventOf(t, x, cache[t][x], Gone)>>)
       ELSE UNCHANGED <<cache, queue>>
  /\ UNCHANGED <<pollVars, conn, backlog, view>>

\* The source changes without the backend.
ChangeElsewhere(t, x, v) ==
  /\ v \in NewContents(t) \cup {Gone} /\ CountWrite
  /\ source[t][x] # v
  /\ source' = [source EXCEPT ![t][x] = v]
  /\ UNCHANGED <<cache, pollVars, wireVars>>

-----------------------------------------------------------------------------
(* _loop and _poll_and_dispatch *)

SweepBegins ==
  /\ sweep = {}
  /\ poller[0].pc = "idle"
  /\ sweep' = {t \in Topics : Listened(t)}
  /\ UNCHANGED <<dataVars, due, poller, failures, wireVars>>

Begin(p, t) ==
  /\ poller[p].pc = "idle"
  /\ poller' = [poller EXCEPT ![p] = [pc |-> "polling", topic |-> t, before |-> cache[t], got |-> Empty]]
  /\ UNCHANGED <<dataVars, failures, wireVars>>

SweepPolls(t) ==
  /\ t \in sweep
  /\ Begin(0, t)
  /\ sweep' = sweep \ {t}
  /\ UNCHANGED due

DuePolls(t) ==
  /\ due[t] > 0
  /\ \E p \in Slots \ {0} :
       /\ \A q \in Slots \ {0} : poller[q].pc = "idle" => p <= q
       /\ Begin(p, t)
  /\ due' = [due EXCEPT ![t] = @ - 1]
  /\ UNCHANGED sweep

\* poll_fn, in its thread.
PollReads(p) ==
  /\ poller[p].pc = "polling"
  /\ poller' = [poller EXCEPT ![p].pc = "read", ![p].got = source[poller[p].topic]]
  /\ UNCHANGED <<dataVars, sweep, due, failures, wireVars>>

\* A mutant: the exception ends the loop, or the task.
PollFailsForGood(p) ==
  /\ poller[p].pc = "polling"
  /\ failures < MaxFailures
  /\ failures' = failures + 1
  /\ poller' = [poller EXCEPT ![p].pc = "dead"]
  /\ UNCHANGED <<dataVars, sweep, due, wireVars>>

PollFails(p) ==
  /\ poller[p].pc = "polling"
  /\ failures < MaxFailures
  /\ failures' = failures + 1
  /\ poller' = [poller EXCEPT ![p] = Idle]
  /\ UNCHANGED <<dataVars, sweep, due, wireVars>>

\* A mutant: what was read always counts.
PollDispatchesAnyway(p) ==
  LET t == poller[p].topic
  IN  /\ poller[p].pc = "read"
      /\ poller' = [poller EXCEPT ![p] = Idle]
      /\ cache' = [cache EXCEPT ![t] = poller[p].got]
      /\ Broadcast(t, Diff(t, cache[t], poller[p].got))
      /\ UNCHANGED <<source, writes, sweep, due, failures, conn, backlog, view>>

\* What was read is dropped if the cache is not what it was when the poll began.
PollDispatches(p) ==
  LET t == poller[p].topic
  IN  /\ poller[p].pc = "read"
      /\ poller' = [poller EXCEPT ![p] = Idle]
      /\ IF cache[t] = poller[p].before
           THEN /\ cache' = [cache EXCEPT ![t] = poller[p].got]
                /\ Broadcast(t, Diff(t, cache[t], poller[p].got))
           ELSE UNCHANGED <<cache, queue>>
      /\ UNCHANGED <<source, writes, sweep, due, failures, conn, backlog, view>>

-----------------------------------------------------------------------------
(* serve_websocket_multi *)

\* subscribe_and_snapshot, once per topic; the first listener of a topic
\* schedules a poll.
Connect(c) ==
  LET first == {t \in Wants[c] : ~Listened(t)}
  IN  /\ conn[c] = "off"
      /\ \A t \in first : due[t] < MaxTasks
      /\ conn' = [conn EXCEPT ![c] = "on"]
      /\ backlog' = [backlog EXCEPT ![c] =
                       [t \in Topics |-> IF t \in Wants[c] THEN cache[t] ELSE Empty]]
      /\ due' = [t \in Topics |-> IF t \in first THEN due[t] + 1 ELSE due[t]]
      /\ UNCHANGED <<dataVars, sweep, poller, failures, queue, view>>

\* The initial items are sent one by one, and changes queue up behind them.
Replay(c) ==
  /\ conn[c] = "on"
  /\ \E t \in Topics, x \in Items :
       /\ backlog[c][t][x] # Gone
       /\ view' = [view EXCEPT ![c][t][x] = backlog[c][t][x]]
       /\ backlog' = [backlog EXCEPT ![c][t][x] = Gone]
  /\ UNCHANGED <<dataVars, pollVars, conn, queue>>

\* Once they are all sent, what has queued up is drained in order.
Forward(c) ==
  /\ conn[c] = "on"
  /\ backlog[c] = NobodyViews /\ queue[c] # <<>>
  /\ LET e == Head(queue[c])
     IN  view' = [view EXCEPT ![c][e.topic][e.item] = e.content]
  /\ queue' = [queue EXCEPT ![c] = Tail(@)]
  /\ UNCHANGED <<dataVars, pollVars, conn, backlog>>

\* A mutant: whoever leaves clears the cache.
DisconnectClears(c) ==
  /\ conn[c] # "off"
  /\ conn' = [conn EXCEPT ![c] = "off"]
  /\ cache' = [t \in Topics |-> IF t \in Wants[c] \ Pinned THEN Empty ELSE cache[t]]
  /\ backlog' = [backlog EXCEPT ![c] = NobodyViews]
  /\ queue' = [queue EXCEPT ![c] = <<>>]
  /\ view' = [view EXCEPT ![c] = NobodyViews]
  /\ UNCHANGED <<source, writes, pollVars>>

\* unsubscribe from every topic; the last listener of a topic clears its cache.
Disconnect(c) ==
  /\ conn[c] # "off"
  /\ conn' = [conn EXCEPT ![c] = "off"]
  /\ cache' = [t \in Topics |-> IF t \in Wants[c] \ Pinned /\ Listeners(t) = {c}
                                  THEN Empty ELSE cache[t]]
  /\ backlog' = [backlog EXCEPT ![c] = NobodyViews]
  /\ queue' = [queue EXCEPT ![c] = <<>>]
  /\ view' = [view EXCEPT ![c] = NobodyViews]
  /\ UNCHANGED <<source, writes, pollVars>>

-----------------------------------------------------------------------------
Write ==
  \E t \in Topics, x \in Items :
    \/ \E v \in Cell : Upsert(t, x, v) \/ Edit(t, x, v) \/ ChangeElsewhere(t, x, v)
    \/ Delete(t, x)

PollStep ==
  \/ SweepBegins
  \/ \E t \in Topics : SweepPolls(t) \/ DuePolls(t)
  \/ \E p \in Slots : PollReads(p) \/ PollFails(p) \/ PollDispatches(p)

Serve(c) == Replay(c) \/ Forward(c)

Next ==
  \/ Write
  \/ PollStep
  \/ \E c \in Clients : Connect(c) \/ Serve(c) \/ Disconnect(c)

Spec == Init /\ [][Next]_vars

\* The event loop runs what is ready, poll_fn returns or raises, and a client
\* that stays takes what it is sent.
Fairness ==
  /\ WF_vars(SweepBegins)
  /\ \A t \in Topics : WF_vars(SweepPolls(t)) /\ WF_vars(DuePolls(t))
  /\ \A p \in Slots : WF_vars(PollReads(p)) /\ WF_vars(PollDispatches(p))
  /\ \A c \in Clients : WF_vars(Serve(c))

FairSpec == Spec /\ Fairness

-----------------------------------------------------------------------------
(* Properties *)

\* Types of the source, the cache, the polls and the connections.
TypeOK ==
  /\ source \in [Topics -> Table]
  /\ cache \in [Topics -> Table]
  /\ sweep \subseteq Topics
  /\ due \in [Topics -> 0..MaxTasks]
  /\ poller \in [Slots -> Poll]
  /\ conn \in [Clients -> {"off", "on"}]
  /\ backlog \in [Clients -> [Topics -> Table]]
  /\ queue \in [Clients -> Seq(Event)]
  /\ view \in [Clients -> [Topics -> Table]]
  /\ writes \in 0..MaxWrites
  /\ failures \in 0..MaxFailures

\* What client c holds of an item once the rest of the replay and the first n
\* of its queued events have reached it.
About(c, t, x, n) ==
  {i \in DOMAIN queue[c] : i <= n /\ queue[c][i].topic = t /\ queue[c][i].item = x}
Ahead(c, t, x, n) ==
  LET about == About(c, t, x, n)
  IN  IF about # {}
        THEN queue[c][CHOOSE i \in about : \A k \in about : k <= i].content
        ELSE IF backlog[c][t][x] # Gone THEN backlog[c][t][x] ELSE view[c][t][x]

\* A subscriber is never sent half a poll or twice an event: at any moment, what
\* it holds and what is under way to it come to the cache of its topics, however
\* polls, writes and other clients come and go (keyed_stream.py:17-23).
ViewsFollowTheCache ==
  \A c \in Clients : conn[c] # "off" =>
    \A t \in Wants[c], x \in Items : Ahead(c, t, x, Len(queue[c])) = cache[t][x]

\* A stamped item that stays in the cache never goes back to an older one: no poll
\* that read before a write, or before another poll, is dispatched over it
\* (keyed_stream.py:217-232).  Of items whose contents recur it is not so.
CacheNeverGoesBack ==
  [][\A t \in Stamped, x \in Items :
       cache[t][x] # Gone /\ cache'[t][x] # Gone
         => cache[t][x] <= cache'[t][x]]_vars

\* A client that stays connected ends up with what the source holds, polls that
\* fail or are dropped notwithstanding (keyed_stream.py:210-232).
ViewsConverge ==
  \A c \in Clients : \A t \in Topics :
    t \in Wants[c] =>
      (<>[](conn[c] # "off") => <>[](view[c][t] = source[t]))

=============================================================================
