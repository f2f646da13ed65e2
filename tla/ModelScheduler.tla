---------------------------- MODULE ModelScheduler ----------------------------
(***************************************************************************)
(* Sharing GPUs by pausing idle models: the autoscaling policy that Ray    *)
(* Serve's controller calls for every model, and the detached scheduler    *)
(* actor to which the policies report and from which they learn whether    *)
(* to pause.  Source: cortexgrid/_model_scheduler.py.                      *)
(*                                                                         *)
(* A model has one replica.  Time is kept as orders: who was used before   *)
(* whom, who waited before whom; that a second has passed since the last   *)
(* decision, or thirty since the last report, is a choice.  Serve's        *)
(* controller and Ray's placement are external.                            *)
(***************************************************************************)
EXTENDS Integers, Sequences, FiniteSets

CONSTANTS
  Models,       \* models deployed with the policy, as replica class names
  Nodes,        \* nodes of the cluster
  Requires,     \* Requires[m]: the models whose apps the spec of m names
  Resources,    \* kinds of resources
  Need,         \* Need[m]: what the replica of m reserves
  Capacity,     \* Capacity[n]: what node n has for models
  MaxArrivals,  \* times that requests arrive for an idle model (a bound)
  MaxTrouble    \* restarts of the scheduler (a bound)

ASSUME SchedulerAssumption ==
  /\ Models \cap Nodes = {}
  /\ IsFiniteSet(Models) /\ IsFiniteSet(Nodes)
  /\ Requires \in [Models -> SUBSET Models]
  /\ Need \in [Models -> [Resources -> Nat]]
  /\ Capacity \in [Nodes -> [Resources -> Nat]]
  /\ {"none", "waiting"} \cap Nodes = {}
  /\ MaxArrivals \in Nat /\ MaxTrouble \in Nat

VARIABLES
  requests,   \* requests[m]: the metrics of m count requests
  target,     \* target[m]: Serve is to run the replica of m
  node,       \* node[m]: where the replica is, "waiting" for room, or "none"
  policy,     \* policy[m]: the copy of the policy that the controller has for m
  reported,   \* the scheduler's _models: how each was last reported
  used,       \* its models that have had requests, the last used last
  firstSeen,  \* its waiting replicas, the longest waiting first
  toPause,    \* its last decision
  decided,    \* it has taken one
  arrivals, troubles

schedulerVars == <<reported, used, firstSeen, toPause, decided>>
clusterVars == <<requests, target, node, arrivals>>
vars == <<clusterVars, policy, schedulerVars, troubles>>

-----------------------------------------------------------------------------
(* The policy *)

\* answer: the report that waits for one, or the answer to the last; none yet, and one
\* that failed, count as "stay".
Policy == [answer : {"busy", "idle", "pause", "stay"}, pause : BOOLEAN]
UnderWay == {"busy", "idle"}

AwaitingPauseAnswer(m) == policy[m].answer \in UnderWay
CollectPauseAnswer(m) == policy[m].answer = "pause"

\* A mutant: a model told to pause keeps what it has.
KeepsWhatItHas(m, pause) == requests[m] \/ target[m]
ReplicaCount(m, pause) == requests[m] \/ (target[m] /\ ~pause)

-----------------------------------------------------------------------------
(* What the scheduler reads *)

Placed == {m \in Models : node[m] \in Nodes}
Waiting == {m \in Models : node[m] = "waiting"}

Held(S, n) ==
  LET held == {m \in S : node[m] = n}
      sum[T \in SUBSET held] ==
        IF T = {} THEN [r \in Resources |-> 0]
        ELSE LET m == CHOOSE m \in T : TRUE
             IN  [r \in Resources |-> Need[m][r] + sum[T \ {m}][r]]
  IN  sum[held]

\* The resources of n that are free once the replicas of S have stopped.
FreeWithout(S, n) ==
  [r \in Resources |-> Capacity[n][r] - Held(Placed \ S, n)[r]]
HasRoomFor(m, free) == \A r \in Resources : free[r] >= Need[m][r]
HasRoom(m, S) == \E n \in Nodes : HasRoomFor(m, FreeWithout(S, n))

-----------------------------------------------------------------------------
(* The decision.  The operators take the reports the scheduler decides on. *)

Known(reports) == {m \in Models : reports[m] # "unknown"}

RequiredDirectly(reports) ==
  [m \in Models |-> IF m \in Known(reports) THEN Requires[m] \cap Known(reports) ELSE {}]

Reachable(start, edges) ==
  LET reached[k \in 0..Cardinality(Models)] ==
        IF k = 0 THEN edges[start]
        ELSE LET before == reached[k - 1]
             IN  before \cup UNION {edges[m] : m \in before}
  IN  reached[Cardinality(Models)]

Reversed(edges) == [m \in Models |-> {d \in Models : m \in edges[d]}]

\* A mutant: the model alone.
GroupOfOne(m, running, reports) == {m}
Group(m, running, reports) ==
  {m} \cup (Reachable(m, Reversed(RequiredDirectly(reports))) \cap running)

Unpausable(m, reports) == {m} \cup Reachable(m, RequiredDirectly(reports))

\* The models that may go, each with those that have to go with it.
PauseGroups(running, unpausable, reports) ==
  LET group == [m \in running |-> Group(m, running, reports)]
  IN  [m \in {o \in running : /\ group[o] \cap unpausable = {}
                              /\ \A d \in group[o] : reports[d] = "idle"}
         |-> group[m]]

\* last_request_at; those that never had a request are equal, and come in any order.
LastUse(m, uses) == IF \E i \in DOMAIN uses : uses[i] = m
                      THEN CHOOSE i \in DOMAIN uses : uses[i] = m ELSE 0
LeastRecentlyUsedFirst(S, uses) ==
  {s \in [1..Cardinality(S) -> S] :
     \A i, j \in 1..Cardinality(S) :
       i < j => s[i] # s[j] /\ LastUse(s[i], uses) <= LastUse(s[j], uses)}

\* A mutant: one group is given up, whether it is enough or not.
FirstOn(m, n, groups, uses) ==
  {groups[o] : o \in {p \in DOMAIN groups : node[p] = n}}
\* What can be paused on n for m: whole groups, until there is room.
FreeingOn(m, n, groups, uses) ==
  LET idle == {o \in DOMAIN groups : node[o] = n}
      gone(s, i) == UNION {groups[s[k]] : k \in 1..i}
      enough(s, i) == HasRoomFor(m, FreeWithout(gone(s, i), n))
  IN  UNION {{gone(s, i) : i \in {k \in 1..Len(s) : enough(s, k) /\ \A l \in 1..k - 1 : ~enough(s, l)}}
               : s \in LeastRecentlyUsedFirst(idle, uses)}

\* A mutant: a node with room is passed over.
FewestIgnoringRoom(m, groups, uses) ==
  LET all == UNION {FreeingOn(m, n, groups, uses) : n \in Nodes}
  IN  IF all = {} THEN {{}} ELSE all
\* Ray lists nodes in any order, so any of the smallest choices can be the first.
FewestToPauseFor(m, groups, uses) ==
  LET choices == [n \in Nodes |-> FreeingOn(m, n, groups, uses)]
      all == UNION {choices[n] : n \in Nodes}
      fewest(c) == \A n \in Nodes : choices[n] # {} =>
                     \E d \in choices[n] : Cardinality(c) <= Cardinality(d)
  IN  IF HasRoom(m, {}) \/ all = {} THEN {{}} ELSE {c \in all : fewest(c)}

\* The outcomes of _select_models_to_pause, over the replicas in the order given.
ModelsToPause(waiting, reports, uses) ==
  LET running == Placed \cap Known(reports)
      chosen[i \in 0..Len(waiting)] ==
        IF i = 0 THEN {{}}
        ELSE UNION {{S \cup more :
                       more \in FewestToPauseFor(waiting[i],
                                  PauseGroups(running \ S, Unpausable(waiting[i], reports),
                                              reports), uses)}
                    : S \in chosen[i - 1]}
  IN  chosen[Len(waiting)]

-----------------------------------------------------------------------------
Init ==
  /\ requests = [m \in Models |-> FALSE]
  /\ target = [m \in Models |-> TRUE]      \* initial_replicas = max_replicas
  /\ node = [m \in Models |-> "none"]
  /\ policy = [m \in Models |-> [answer |-> "stay", pause |-> FALSE]]
  /\ reported = [m \in Models |-> "unknown"]
  /\ used = <<>> /\ firstSeen = <<>> /\ toPause = {} /\ decided = FALSE
  /\ arrivals = 0 /\ troubles = 0

\* Ray calls the policy on every tick, but not for a model that has requests and
\* no running replica.
Resuming(m) == requests[m] /\ node[m] \notin Nodes

PolicyCalled(m) ==
  /\ ~Resuming(m)
  /\ LET pause == IF AwaitingPauseAnswer(m) THEN policy[m].pause ELSE CollectPauseAnswer(m)
     IN  /\ target' = [target EXCEPT ![m] = ReplicaCount(m, pause)]
         /\ policy' = [policy EXCEPT ![m] =
              [answer |-> IF AwaitingPauseAnswer(m) THEN @.answer
                          ELSE IF requests[m] THEN "busy" ELSE "idle",
               pause |-> pause]]
  /\ UNCHANGED <<requests, node, arrivals, schedulerVars, troubles>>

Without(seq, gone) ==
  LET kept[i \in 0..Len(seq)] ==
        IF i = 0 THEN <<>>
        ELSE IF seq[i] \in gone THEN kept[i - 1] ELSE Append(kept[i - 1], seq[i])
  IN  kept[Len(seq)]

\* report_activity_and_check_pause: the report is recorded ...
\* A mutant: the answer is recorded in its place.
RecordAnswer(m) ==
  /\ reported' = [reported EXCEPT ![m] = IF m \in toPause THEN "pause" ELSE "stay"]
  /\ used' = used
Record(m) ==
  /\ reported' = [reported EXCEPT ![m] = policy[m].answer]
  /\ used' = IF policy[m].answer = "busy"
               THEN Append(Without(used, {m}), m) ELSE used

ReplyTo(m, pausing) ==
  policy' = [policy EXCEPT ![m].answer = IF m \in pausing THEN "pause" ELSE "stay"]

\* ... and answered from the last decision, when that was taken within the second,
Answer(m) ==
  /\ AwaitingPauseAnswer(m) /\ decided
  /\ Record(m)
  /\ ReplyTo(m, toPause)
  /\ UNCHANGED <<clusterVars, firstSeen, toPause, decided, troubles>>

\* A model that resumes does not report, and is forgotten after thirty seconds.
Silent(m) == {o \in Models \ {m} : Resuming(o)}

\* or from a new one.
Decide(m) ==
  /\ AwaitingPauseAnswer(m)
  /\ \E forgotten \in {{}, Silent(m)} :
       LET reports == [o \in Models |-> IF o = m THEN policy[m].answer
                         ELSE IF o \in forgotten THEN "unknown" ELSE reported[o]]
           uses == Without(IF policy[m].answer = "busy" THEN Append(Without(used, {m}), m)
                           ELSE used, forgotten)
           known == Without(firstSeen, Models \ Waiting)
           new == {o \in Waiting : \A i \in DOMAIN known : known[i] # o}
       IN  \E rest \in {s \in [1..Cardinality(new) -> new] :
                          \A o \in new : \E i \in DOMAIN s : s[i] = o} :
           \E chosen \in ModelsToPause(known \o rest, reports, uses) :
             /\ firstSeen' = known \o rest
             /\ reported' = reports /\ used' = uses
             /\ toPause' = chosen /\ decided' = TRUE
             /\ ReplyTo(m, chosen)
  /\ UNCHANGED <<clusterVars, troubles>>

\* The actor dies: Ray restarts it empty, and what was under way fails.
RestartScheduler ==
  /\ troubles < MaxTrouble
  /\ troubles' = troubles + 1
  /\ reported' = [m \in Models |-> "unknown"]
  /\ used' = <<>> /\ firstSeen' = <<>> /\ toPause' = {} /\ decided' = FALSE
  /\ policy' = [m \in Models |-> IF AwaitingPauseAnswer(m)
                                   THEN [policy[m] EXCEPT !.answer = "stay"] ELSE policy[m]]
  /\ UNCHANGED clusterVars

-----------------------------------------------------------------------------
(* Serve, Ray and the users *)

\* Serve starts a paused model that has requests without asking the policy.
ColdStart(m) ==
  /\ Resuming(m) /\ ~target[m]
  /\ target' = [target EXCEPT ![m] = TRUE]
  /\ UNCHANGED <<requests, node, arrivals, policy, schedulerVars, troubles>>

StartReplica(m) ==
  /\ target[m] /\ node[m] = "none"
  /\ node' = [node EXCEPT ![m] = "waiting"]
  /\ UNCHANGED <<requests, target, arrivals, policy, schedulerVars, troubles>>

\* firstSeen is kept by actor id: a replica that waits again is another one.
Leaves(m) == firstSeen' = Without(firstSeen, {m})

Place(m) ==
  /\ node[m] = "waiting"
  /\ \E n \in Nodes : /\ HasRoomFor(m, FreeWithout({}, n))
                      /\ node' = [node EXCEPT ![m] = n]
  /\ Leaves(m)
  /\ UNCHANGED <<requests, target, arrivals, policy, reported, used, toPause, decided, troubles>>

StopReplica(m) ==
  /\ ~target[m] /\ node[m] # "none"
  /\ node' = [node EXCEPT ![m] = "none"]
  /\ Leaves(m)
  /\ UNCHANGED <<requests, target, arrivals, policy, reported, used, toPause, decided, troubles>>

RequestsArrive(m) ==
  /\ ~requests[m] /\ arrivals < MaxArrivals
  /\ arrivals' = arrivals + 1
  /\ requests' = [requests EXCEPT ![m] = TRUE]
  /\ UNCHANGED <<target, node, policy, schedulerVars, troubles>>

\* They are answered by the replica, or their callers give up.
RequestsEnd(m) ==
  /\ requests[m]
  /\ requests' = [requests EXCEPT ![m] = FALSE]
  /\ UNCHANGED <<target, node, arrivals, policy, schedulerVars, troubles>>

Next ==
  \/ \E m \in Models : \/ PolicyCalled(m) \/ Answer(m) \/ Decide(m)
                       \/ ColdStart(m) \/ StartReplica(m) \/ Place(m) \/ StopReplica(m)
                       \/ RequestsArrive(m) \/ RequestsEnd(m)
  \/ RestartScheduler

Spec == Init /\ [][Next]_vars

\* A report that the actor answers from a new decision (a cheap test comes first).
Decides == \E m \in Models : AwaitingPauseAnswer(m) /\ ~AwaitingPauseAnswer(m)' /\ Decide(m)

\* The controller ticks; the actor takes what it is sent, and decides again and again while
\* it hears anything; a decision stands for a second, ten ticks, so that a model chosen
\* again and again is told; Serve and Ray carry out what they are asked and have room for.
Fairness ==
  /\ \A m \in Models : /\ WF_vars(PolicyCalled(m)) /\ []<>(~AwaitingPauseAnswer(m))
                       /\ WF_vars(ColdStart(m)) /\ WF_vars(StartReplica(m))
                       /\ WF_vars(Place(m)) /\ WF_vars(StopReplica(m))
                       /\ ([]<>(m \in toPause) => []<>(policy[m].pause))
  /\ []<>(\E m \in Models : AwaitingPauseAnswer(m)) => []<><<Decides>>_vars

FairSpec == Spec /\ Fairness

-----------------------------------------------------------------------------
(* Properties *)

\* The variables are of their types.
TypeOK ==
  /\ requests \in [Models -> BOOLEAN] /\ target \in [Models -> BOOLEAN]
  /\ node \in [Models -> Nodes \cup {"none", "waiting"}]
  /\ policy \in [Models -> Policy]
  /\ reported \in [Models -> {"unknown", "idle", "busy"}]
  /\ used \in Seq(Models) /\ firstSeen \in Seq(Models)
  /\ toPause \subseteq Models /\ decided \in BOOLEAN
  /\ arrivals \in 0..MaxArrivals /\ troubles \in 0..MaxTrouble

\* A decision pauses only models reported idle, and with each of them the running models
\* known to require it, also through models that do not run (_pause_groups), even
\* when they were chosen for different replicas.
PausesWholeIdleGroups ==
  [][toPause' # toPause =>
       \A m \in toPause' :
         /\ reported'[m] = "idle" /\ node[m] \in Nodes
         /\ \A d \in Placed \ toPause' : m \notin Reachable(d, RequiredDirectly(reported'))]_vars

\* If stopping all it may stop on one node makes room for the replica that has waited
\* longest, a decision makes room for it, however it picks (_fewest_idle_models_to_pause_for).
LongestWaitingIsHelped ==
  [][firstSeen' # <<>> /\ Decides =>
       LET first == firstSeen'[1]
           groups == PauseGroups(Placed \cap Known(reported'), Unpausable(first, reported'), reported')
           all(n) == UNION {groups[o] : o \in {p \in DOMAIN groups : node[p] = n}}
       IN  (\E n \in Nodes : HasRoomFor(first, FreeWithout(all(n), n)))
             => HasRoom(first, toPause')]_vars

\* What a decision pauses, it pauses for a replica that has no room and gets it.
NothingIsPausedInVain ==
  [][toPause' # {} /\ Decides =>
       \E w \in Waiting : ~HasRoom(w, {}) /\ HasRoom(w, toPause')]_vars

\* Once only idle models hold what a waiting replica needs, it is placed, whatever was
\* answered, forgotten or lost on the way.
WaitingIsPlaced ==
  \A m \in Models :
    (node[m] = "waiting") ~> (node[m] # "waiting" \/ \E o \in Models \ {m} : requests[o])
=============================================================================
