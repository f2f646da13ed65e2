------------------------------ MODULE ClusterSeed -----------------------------
(***************************************************************************)
(* ./cg: setting up and tearing down the head and the workers of a         *)
(* cluster, against infra-config.yaml, with the deferred join of a worker  *)
(* that was added before its head.                                         *)
(* Source: k8s/seed.                                                       *)
(*                                                                         *)
(* A command is a plan of phases; the phases that touch a machine run the  *)
(* operators of a pipeline, one action for what an operator does and one   *)
(* for the line of `done` it is recorded on, so that a command may stop    *)
(* anywhere.  An operator is what it needs: the head's secrets server, the *)
(* API server, k3s on the machine.  A cluster is known by the number of    *)
(* the k3s server it belongs to.  One command runs at a time.              *)
(***************************************************************************)
EXTENDS Integers, Sequences, SequencesExt, FiniteSets

CONSTANTS
  Machines,     \* hosts, by their address
  AwsHost,      \* the one terraform makes, or none of the machines
  Aliases,      \* names of workers
  HeadRole,     \* the key of the head's entry
  MaxRuns,      \* commands (a bound)
  MaxTrouble,   \* commands interrupted and downloads that fail (a bound)
  Nothing

Roles == Aliases \cup {HeadRole}

ASSUME SeedAssumption ==
  /\ HeadRole \notin Aliases /\ Nothing \notin Machines
  /\ MaxRuns \in Nat /\ MaxTrouble \in Nat

VARIABLES
  config,       \* infra-config.yaml: config[a] is the entry of a role
  installed,    \* installed[m]: operators whose setup stands on m
  k3s,          \* k3s[m]: "server" or "agent", and of which cluster
  secrets,      \* secrets[m]: the join token and address in m's secrets file
  join,         \* join[m]: the deferred join on m
  stack,        \* whether terraform's host exists
  cg,           \* the command that runs
  runs, troubles,
  made,         \* k3s servers installed so far
  late          \* machines whose deferred join ran while or after it was removed

vars == <<config, installed, k3s, secrets, join, stack, cg, runs, troubles, made, late>>
machineVars == <<installed, k3s, secrets, join>>
boundVars == <<runs, troubles, made>>

NoK3s == [kind |-> "none", cluster |-> 0]
NoSecrets == [token |-> 0, address |-> FALSE]
NoJoin == [timer |-> FALSE, script |-> "idle", token |-> 0]
Idle == [plan |-> <<>>, role |-> Nothing, way |-> "none", ops |-> <<>>,
         at |-> "do", direct |-> FALSE, token |-> 0]

Init ==
  /\ config = [a \in Roles |-> Nothing]
  /\ installed = [m \in Machines |-> {}]
  /\ k3s = [m \in Machines |-> NoK3s]
  /\ secrets = [m \in Machines |-> NoSecrets]
  /\ join = [m \in Machines |-> NoJoin]
  /\ stack = FALSE
  /\ cg = Idle
  /\ runs = 0 /\ troubles = 0 /\ made = 0 /\ late = {}

-----------------------------------------------------------------------------
(* Operators: what their setup and their teardown need of the world *)

Op(name, up, down) == [name |-> name, up |-> up, down |-> down]

InstallPrereqs == Op("InstallPrereqs", {}, {})
TailscaleHostname == Op("TailscaleHostname", {}, {})
HeadServer == Op("HeadServer", {}, {})
EnvSecrets == Op("EnvSecrets", {"store"}, {"store"})
TerraformOutputs == Op("TerraformOutputs", {"stack", "store"}, {"store"})
K3sServer == Op("K3sServer", {}, {})
Kubeconfig == Op("Kubeconfig", {"server"}, {})
LocalPath == Op("LocalPath", {"api"}, {})
PostgresCredentials == Op("PostgresCredentials", {"api", "store"}, {"store"})
MinioCredentials == Op("MinioCredentials", {"api", "store"}, {"store"})
BootstrapSecrets == Op("BootstrapSecrets", {"api"}, {})
ControlPlaneDetails == Op("ControlPlaneDetails", {"server", "store"}, {"store"})
NodeLabel(strict) == Op("NodeLabel", IF strict THEN {"api", "node"} ELSE {}, {})
WorkerLabels == Op("WorkerLabels", {}, {})
ArgoReady == Op("ArgoReady", {"api"}, {})
JoinCluster == Op("JoinCluster", {}, {})
ComputeLabels(strict) == Op("ComputeLabels", IF strict THEN {"api", "node"} ELSE {}, {})

OnAws(profile, op) == IF profile = "aws" THEN <<op>> ELSE <<>>
OnOnprem(profile, op) == IF profile = "onprem" THEN <<op>> ELSE <<>>

BuildHead(profile) ==
  <<InstallPrereqs, TailscaleHostname, HeadServer, EnvSecrets>>
  \o OnAws(profile, TerraformOutputs)
  \o <<K3sServer, Kubeconfig, LocalPath>>
  \o OnOnprem(profile, PostgresCredentials) \o OnOnprem(profile, MinioCredentials)
  \o <<BootstrapSecrets, ControlPlaneDetails, NodeLabel(TRUE), WorkerLabels, ArgoReady>>

BuildWorker(direct) ==
  <<InstallPrereqs, JoinCluster, NodeLabel(direct), ComputeLabels(direct)>>
BuildOnHead == <<ComputeLabels(TRUE)>>

-----------------------------------------------------------------------------
(* infra-config.yaml *)

Names == {"InstallPrereqs", "TailscaleHostname", "HeadServer", "EnvSecrets", "TerraformOutputs",
          "K3sServer", "Kubeconfig", "LocalPath", "PostgresCredentials", "MinioCredentials",
          "BootstrapSecrets", "ControlPlaneDetails", "NodeLabel", "WorkerLabels", "ArgoReady",
          "JoinCluster", "ComputeLabels"}
Entries == [ip : Machines, profile : {"onprem", "aws", "none"}, done : SUBSET Names]

ASSUME EntryAssumption == Nothing \notin Entries

Known(a) == config[a] # Nothing
IpOf(a) == config[a].ip
Workers == {a \in Aliases : Known(a)}
WorkersAt(m) == {a \in Workers : IpOf(a) = m}
OnHead(a) == Known(HeadRole) /\ IpOf(HeadRole) = IpOf(a)

\* A mutant: another worker at the address is not looked for.
ByAliasAlone(a, m) == Known(a) => IpOf(a) = m
ValidatedWorker(a, m) ==
  /\ Known(a) => IpOf(a) = m
  /\ WorkersAt(m) \subseteq {a}
RefusesOtherProfile(profile) == Known(HeadRole) => config[HeadRole].profile = profile
ValidatedHead(m, profile) ==
  /\ RefusesOtherProfile(profile)
  /\ IF Known(HeadRole) THEN IpOf(HeadRole) = m ELSE WorkersAt(m) = {}

Entry(m, profile) == [ip |-> m, profile |-> profile, done |-> {}]

\* A mutant: what is torn down stays in `done`.
AddDone(done, name, way) == done \cup {name}
RecordStep(done, name, way) == IF way = "setup" THEN done \cup {name} ELSE done \ {name}

-----------------------------------------------------------------------------
(* The world the operators find *)

Reachable(m) == m # AwsHost \/ stack
ServerUp(m) == "HeadServer" \in installed[m]
\* A secret is written to the file beside the old one, which is then replaced.
SetSecret(m, name, value) == secrets' = [secrets EXCEPT ![m][name] = value]
DropSecret(m, name) == secrets' = [secrets EXCEPT ![m][name] = NoSecrets[name]]
HasSecret(m, name) == ServerUp(m) /\ secrets[m][name] # NoSecrets[name]
HeadCreds == {m \in Machines : HasSecret(m, "token") /\ HasSecret(m, "address")}
Clusters == {k3s[m].cluster : m \in {n \in Machines : k3s[n].kind = "server"}}
ApiUp == \E m \in Machines : k3s[m].kind = "server" /\ "Kubeconfig" \in installed[m]

Meets(need, m) ==
  CASE need = "store"  -> ServerUp(m)
    [] need = "stack"  -> stack
    [] need = "server" -> k3s[m].kind = "server"
    [] need = "api"    -> ApiUp
    [] need = "node"   -> k3s[m].cluster \in Clusters

-----------------------------------------------------------------------------
(* Commands: plans *)

Record(a, m, profile) == [do |-> "record", role |-> a, ip |-> m, profile |-> profile]
Phase(do, a) == [do |-> do, role |-> a, ip |-> Nothing, profile |-> Nothing]

AddHead(m, profile) ==
  (IF profile = "aws" THEN <<Phase("apply", HeadRole)>> ELSE <<>>)
  \o <<Record(HeadRole, m, profile), Phase("setup", HeadRole)>>
AddWorker(a, m) == <<Record(a, m, "none"), Phase("setup", a)>>

DelWorker(a) == <<Phase("teardown", a), Phase("forget", a)>>
DelHead ==
  <<Phase("teardown", HeadRole)>>
  \o (IF config[HeadRole].profile = "aws" THEN <<Phase("destroy", HeadRole)>> ELSE <<>>)
  \o <<Phase("forget", HeadRole)>>

\* The two phases of each worker of an order, one worker after the other.
DelWorkers(order) ==
  [i \in 1..2 * Len(order) |-> DelWorker(order[(i + 1) \div 2])[2 - (i % 2)]]
AddWorkers(order) ==
  [i \in 1..2 * Len(order) |-> LET a == order[(i + 1) \div 2] IN AddWorker(a, IpOf(a))[2 - (i % 2)]]

DelAll(order) ==
  DelWorkers(order)
  \o (IF Known(HeadRole) THEN DelHead ELSE <<>>)

\* The AWS stack is left in place.
Restart(order) ==
  DelWorkers(order)
  \o (IF Known(HeadRole)
       THEN <<Phase("teardown", HeadRole), Phase("forget", HeadRole),
              Record(HeadRole, IpOf(HeadRole), config[HeadRole].profile), Phase("setup", HeadRole)>>
       ELSE <<>>)
  \o AddWorkers(order)

Starts(plan) ==
  /\ cg = Idle /\ runs < MaxRuns
  /\ runs' = runs + 1
  /\ cg' = [Idle EXCEPT !.plan = plan]
  /\ UNCHANGED <<config, machineVars, stack, troubles, made, late>>

StartAddHead(m, profile) ==
  /\ (profile = "aws") = (m = AwsHost)
  /\ ValidatedHead(m, profile)
  /\ Starts(AddHead(m, profile))
StartAddWorker(a, m) == ValidatedWorker(a, m) /\ Starts(AddWorker(a, m))
StartDelWorker(a) == Known(a) /\ Starts(DelWorker(a))
\* A mutant: workers that remain do not stop it.
DelHeadAnyway == Known(HeadRole) /\ Starts(DelHead)
StartDelHead == Known(HeadRole) /\ Workers = {} /\ Starts(DelHead)
StartDelAll == \E order \in SetToSeqs(Workers) : DelAll(order) # <<>> /\ Starts(DelAll(order))
StartRestart == \E order \in SetToSeqs(Workers) : Restart(order) # <<>> /\ Starts(Restart(order))

Current == Head(cg.plan)
Finishes(rest) == IF rest = <<>> THEN Idle ELSE [Idle EXCEPT !.plan = rest]

\* An operator raises, a machine is not reached, or the user interrupts.
Abort == cg' = Idle
Interrupt ==
  /\ cg # Idle /\ troubles < MaxTrouble
  /\ troubles' = troubles + 1
  /\ Abort
  /\ UNCHANGED <<config, machineVars, stack, runs, made, late>>

-----------------------------------------------------------------------------
(* Phases of a plan *)

InPhase(do) == cg # Idle /\ cg.ops = <<>> /\ cg.plan # <<>> /\ Current.do = do

\* terraform apply, which waits for the host to join the tailnet, and destroy.
Apply ==
  /\ InPhase("apply")
  /\ stack' = TRUE
  /\ cg' = Finishes(Tail(cg.plan))
  /\ UNCHANGED <<config, machineVars, boundVars, late>>
Destroy ==
  /\ InPhase("destroy")
  /\ stack' = FALSE
  /\ installed' = [installed EXCEPT ![AwsHost] = {}]
  /\ k3s' = [k3s EXCEPT ![AwsHost] = NoK3s]
  /\ secrets' = [secrets EXCEPT ![AwsHost] = NoSecrets]
  /\ join' = [join EXCEPT ![AwsHost] = NoJoin]
  /\ cg' = Finishes(Tail(cg.plan))
  /\ UNCHANGED <<config, boundVars, late>>

\* What is recorded already keeps what it has done.
RecordEntry ==
  /\ InPhase("record")
  /\ config' = [config EXCEPT ![Current.role] = IF @ = Nothing THEN Entry(Current.ip, Current.profile) ELSE @]
  /\ cg' = Finishes(Tail(cg.plan))
  /\ UNCHANGED <<machineVars, stack, boundVars, late>>
Forget ==
  /\ InPhase("forget")
  /\ config' = [config EXCEPT ![Current.role] = Nothing]
  /\ cg' = Finishes(Tail(cg.plan))
  /\ UNCHANGED <<machineVars, stack, boundVars, late>>

\* A worker away from the head joins it if its credentials can be read, and
\* otherwise later.
PipelineOf(a, direct) ==
  IF a = HeadRole THEN BuildHead(config[a].profile)
  ELSE IF OnHead(a) THEN BuildOnHead ELSE BuildWorker(direct)

InOrder(ops, way) == IF way = "setup" THEN ops ELSE Reverse(ops)

RunPipeline(way) ==
  /\ InPhase(way)
  /\ LET a == Current.role
         creds == {m \in HeadCreds : Known(HeadRole) => m = IpOf(HeadRole)}
         onHead == a # HeadRole /\ OnHead(a)
         direct == onHead \/ creds # {} \/ way = "teardown"
     IN  IF ~Reachable(IpOf(a)) /\ ~(onHead /\ way = "teardown") THEN Abort
         ELSE \E t \in IF creds = {} THEN {0} ELSE {secrets[m].token : m \in creds} :
                cg' = [cg EXCEPT !.role = a, !.way = way, !.direct = direct, !.token = t,
                                 !.ops = InOrder(PipelineOf(a, direct), way)]
  /\ UNCHANGED <<config, machineVars, stack, boundVars, late>>

-----------------------------------------------------------------------------
(* Operators, one at a time *)

Op1 == Head(cg.ops)
Host == IpOf(cg.role)
Doing(at, way) == cg.ops # <<>> /\ cg.at = at /\ cg.way = way
Turn(at) == cg' = [cg EXCEPT !.at = at]
Stands == installed' = [installed EXCEPT ![Host] = @ \cup {Op1.name}]
Falls == installed' = [installed EXCEPT ![Host] = @ \ {Op1.name}]

\* An operator of two requests or scripts, between which it may stop.
TwoParts == {<<"setup", "Kubeconfig">>, <<"setup", "ControlPlaneDetails">>,
             <<"teardown", "ControlPlaneDetails">>, <<"teardown", "JoinCluster">>}
HasTwoParts == <<cg.way, Op1.name>> \in TwoParts
Stateful == {"K3sServer", "ControlPlaneDetails", "JoinCluster"}
Can == \A need \in IF cg.way = "setup" THEN Op1.up ELSE Op1.down : Meets(need, Host)

CannotGoOn ==
  /\ cg.ops # <<>> /\ cg.at = "do" /\ ~Can
  /\ Abort
  /\ UNCHANGED <<config, machineVars, stack, boundVars, late>>

SetUpOperator ==
  /\ Doing("do", "setup") /\ Can /\ Op1.name \notin Stateful /\ ~HasTwoParts
  /\ Stands /\ Turn("record")
  /\ UNCHANGED <<config, k3s, secrets, join, stack, boundVars, late>>
TearDownOperator ==
  /\ Doing("do", "teardown") /\ Can /\ Op1.name \notin Stateful
  /\ Falls /\ Turn("record")
  /\ UNCHANGED <<config, k3s, secrets, join, stack, boundVars, late>>

\* The context is scrubbed before the new one is merged.
ScrubKubeconfig ==
  /\ Doing("do", "setup") /\ Can /\ Op1.name = "Kubeconfig"
  /\ Falls /\ Turn("rest")
  /\ UNCHANGED <<config, k3s, secrets, join, stack, boundVars, late>>
MergeKubeconfig ==
  /\ Doing("rest", "setup") /\ Op1.name = "Kubeconfig"
  /\ Stands /\ Turn("record")
  /\ UNCHANGED <<config, k3s, secrets, join, stack, boundVars, late>>

\* k3s that is there is left as it is; an agent never brings up Argo CD.
SetUpServer ==
  /\ Doing("do", "setup") /\ Op1.name = "K3sServer"
  /\ CASE k3s[Host].kind = "none" ->
            /\ made' = made + 1
            /\ k3s' = [k3s EXCEPT ![Host] = [kind |-> "server", cluster |-> made + 1]]
            /\ Stands /\ Turn("record")
       [] k3s[Host].kind = "server" -> Stands /\ Turn("record") /\ UNCHANGED <<k3s, made>>
       [] k3s[Host].kind = "agent" -> Abort /\ UNCHANGED <<installed, k3s, made>>
  /\ UNCHANGED <<config, secrets, join, stack, runs, troubles, late>>
TearDownServer ==
  /\ Doing("do", "teardown") /\ Op1.name = "K3sServer"
  /\ k3s' = [k3s EXCEPT ![Host] = NoK3s]
  /\ Falls /\ Turn("record")
  /\ UNCHANGED <<config, secrets, join, stack, boundVars, late>>

\* The token is published, and deleted, before the address.
PublishToken ==
  /\ Doing("do", "setup") /\ Can /\ Op1.name = "ControlPlaneDetails"
  /\ SetSecret(Host, "token", k3s[Host].cluster)
  /\ Turn("rest")
  /\ UNCHANGED <<config, installed, k3s, join, stack, boundVars, late>>
PublishAddress ==
  /\ Doing("rest", "setup") /\ Op1.name = "ControlPlaneDetails"
  /\ SetSecret(Host, "address", TRUE)
  /\ Stands /\ Turn("record")
  /\ UNCHANGED <<config, k3s, join, stack, boundVars, late>>
DeleteToken ==
  /\ Doing("do", "teardown") /\ Can /\ Op1.name = "ControlPlaneDetails"
  /\ DropSecret(Host, "token")
  /\ Falls /\ Turn("rest")
  /\ UNCHANGED <<config, k3s, join, stack, boundVars, late>>
DeleteAddress ==
  /\ Doing("rest", "teardown") /\ Op1.name = "ControlPlaneDetails"
  /\ DropSecret(Host, "address")
  /\ Turn("record")
  /\ UNCHANGED <<config, installed, k3s, join, stack, boundVars, late>>

Agent(token) == [kind |-> "agent", cluster |-> token]

DirectJoin ==
  /\ Doing("do", "setup") /\ Op1.name = "JoinCluster" /\ cg.direct
  /\ k3s' = [k3s EXCEPT ![Host] = IF @ = NoK3s THEN Agent(cg.token) ELSE @]
  /\ Stands /\ Turn("record")
  /\ UNCHANGED <<config, secrets, join, stack, boundVars, late>>
DeferredJoin ==
  /\ Doing("do", "setup") /\ Op1.name = "JoinCluster" /\ ~cg.direct
  /\ join' = [join EXCEPT ![Host].timer = TRUE]
  /\ Stands /\ Turn("record")
  /\ UNCHANGED <<config, k3s, secrets, stack, boundVars, late>>
UninstallAgent ==
  /\ Doing("do", "teardown") /\ Op1.name = "JoinCluster"
  /\ k3s' = [k3s EXCEPT ![Host] = IF @.kind = "agent" THEN NoK3s ELSE @]
  /\ Falls /\ Turn("rest")
  /\ UNCHANGED <<config, secrets, join, stack, boundVars, late>>
\* A mutant: the agent is all that is uninstalled.
LeaveTimer ==
  /\ Doing("rest", "teardown") /\ Op1.name = "JoinCluster"
  /\ Turn("record")
  /\ UNCHANGED <<config, machineVars, stack, boundVars, late>>
\* Disabling the timer leaves a script that runs running.
RemoveTimer ==
  /\ Doing("rest", "teardown") /\ Op1.name = "JoinCluster"
  /\ join' = [join EXCEPT ![Host].timer = FALSE]
  /\ late' = IF join[Host].script = "install" THEN late \cup {Host} ELSE late
  /\ Turn("record")
  /\ UNCHANGED <<config, installed, k3s, secrets, stack, boundVars>>

OnStepDone ==
  /\ cg.ops # <<>> /\ cg.at = "record"
  /\ config' = [config EXCEPT ![cg.role].done = RecordStep(@, Op1.name, cg.way)]
  /\ cg' = IF Len(cg.ops) = 1 THEN Finishes(Tail(cg.plan))
           ELSE [cg EXCEPT !.ops = Tail(@), !.at = "do"]
  /\ UNCHANGED <<machineVars, stack, boundVars, late>>

-----------------------------------------------------------------------------
(* robolab_join.py, every minute on a machine whose join was deferred *)

TimerFires(m) ==
  /\ join[m].timer /\ join[m].script = "idle"
  /\ \E h \in HeadCreds :
       join' = [join EXCEPT ![m].script = "install", ![m].token = secrets[h].token]
  /\ UNCHANGED <<config, installed, k3s, secrets, stack, cg, boundVars, late>>

\* Of a join that nobody asks for any more.
Removed(m) ==
  \/ \A a \in WorkersAt(m) : OnHead(a)
  \/ cg # Idle /\ cg.plan # <<>> /\ Current.do \in {"teardown", "forget"} /\ Current.role \in WorkersAt(m)

\* Beside a server it cannot run.
JoinInstalls(m) ==
  /\ join[m].script = "install"
  /\ k3s' = [k3s EXCEPT ![m] = IF @.kind = "server" THEN @ ELSE Agent(join[m].token)]
  /\ join' = [join EXCEPT ![m].script = "remove"]
  /\ late' = IF Removed(m) THEN late \cup {m} ELSE late
  /\ UNCHANGED <<config, installed, secrets, stack, cg, boundVars>>

\* `curl | sh -` of an installer that could not be downloaded succeeds.
JoinDownloadsNothing(m) ==
  /\ join[m].script = "install" /\ troubles < MaxTrouble
  /\ troubles' = troubles + 1
  /\ join' = [join EXCEPT ![m].script = "remove"]
  /\ UNCHANGED <<config, installed, k3s, secrets, stack, cg, runs, made, late>>

SelfRemove(m) ==
  /\ join[m].script = "remove"
  /\ join' = [join EXCEPT ![m] = NoJoin]
  /\ UNCHANGED <<config, installed, k3s, secrets, stack, cg, boundVars, late>>

-----------------------------------------------------------------------------
(* The system *)

Starting ==
  \/ \E m \in Machines : \E profile \in {"onprem", "aws"} : StartAddHead(m, profile)
  \/ \E m \in Machines, a \in Aliases : StartAddWorker(a, m)
  \/ \E a \in Aliases : StartDelWorker(a)
  \/ StartDelHead \/ StartDelAll \/ StartRestart

Operating ==
  \/ CannotGoOn \/ SetUpOperator \/ TearDownOperator
  \/ ScrubKubeconfig \/ MergeKubeconfig \/ SetUpServer \/ TearDownServer
  \/ PublishToken \/ PublishAddress \/ DeleteToken \/ DeleteAddress
  \/ DirectJoin \/ DeferredJoin \/ UninstallAgent \/ RemoveTimer
  \/ OnStepDone

Running ==
  \/ Apply \/ Destroy \/ RecordEntry \/ Forget
  \/ RunPipeline("setup") \/ RunPipeline("teardown")
  \/ Operating

Joining(m) == TimerFires(m) \/ JoinInstalls(m) \/ SelfRemove(m)

Next ==
  \/ Starting \/ Running \/ Interrupt
  \/ \E m \in Machines : Joining(m) \/ JoinDownloadsNothing(m)

Spec == Init /\ [][Next]_vars

-----------------------------------------------------------------------------
(* Properties *)

\* The file, the machines and the command hold what they can hold, and no two
\* workers are recorded at one address (cli.py:178, "is already worker").
TypeOK ==
  /\ \A a \in Roles : Known(a) => config[a] \in Entries
  /\ \A m \in Machines : Cardinality(WorkersAt(m)) <= 1
  /\ installed \in [Machines -> SUBSET Names]
  /\ k3s \in [Machines -> [kind : {"none", "server", "agent"}, cluster : 0..made]]
  /\ secrets \in [Machines -> [token : 0..made, address : BOOLEAN]]
  /\ join \in [Machines -> [timer : BOOLEAN, script : {"idle", "install", "remove"}, token : 0..made]]
  /\ cg.role \in Roles \cup {Nothing} /\ cg.at \in {"do", "rest", "record"}
  /\ cg.way \in {"none", "setup", "teardown"} /\ cg.token \in 0..made
  /\ runs \in 0..MaxRuns /\ troubles \in 0..MaxTrouble /\ made \in 0..MaxRuns
  /\ late \subseteq Machines

\* Wherever a command stopped, a machine that carries anything of a role has
\* the entry that the command which removes it starts from: the server that of
\* the head, an agent or a timer that of a worker elsewhere.  A deferred join
\* that was under way when it was removed is the exception (join_cluster.py:83).
NothingIsUnrecorded ==
  \A m \in Machines \ late :
    /\ installed[m] # {} => \E a \in Roles : Known(a) /\ IpOf(a) = m
    /\ k3s[m].kind = "server" \/ ServerUp(m) => Known(HeadRole) /\ IpOf(HeadRole) = m
    /\ k3s[m].kind = "agent" \/ join[m].timer => \E a \in WorkersAt(m) : ~OnHead(a)

\* Whoever joins, joins the cluster that runs: credentials that can be read are
\* those of the k3s server on that machine, and every agent is of that server,
\* through restarts and commands that stopped half way.
JoinedToTheRunningHead ==
  /\ \A m \in HeadCreds : k3s[m] = [kind |-> "server", cluster |-> secrets[m].token]
  /\ \A m \in Machines \ late : k3s[m].kind = "agent" => k3s[m].cluster \in Clusters

\* "After a failure the entry shows where it stopped" (cli.py:17): what an
\* entry has done and what stands on its machine differ in the step under way
\* and in one step for each time a command was interrupted, whatever commands
\* in whichever direction followed.
DoneTellsWhereItStopped ==
  \A a \in {b \in Roles : Known(b)} :
    LET steps == {op.name : op \in ToSet(PipelineOf(a, TRUE))}
        standing == installed[IpOf(a)] \cap steps
        done == config[a].done
    IN  Reachable(IpOf(a)) =>
          Cardinality((done \ standing) \cup (standing \ done))
            <= troubles + (IF cg.at = "do" THEN 0 ELSE 1)
=============================================================================
