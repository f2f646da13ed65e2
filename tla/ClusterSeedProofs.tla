--------------------------- MODULE ClusterSeedProofs --------------------------
(***************************************************************************)
(* Theorems about ClusterSeed, for every value of its constants.           *)
(***************************************************************************)
EXTENDS ClusterSeed, FiniteSetTheorems, TLAPS

-----------------------------------------------------------------------------
(* Pipelines *)

Needs == {"store", "stack", "server", "api", "node"}
\* The token is published from a server.
Operator ==
  {o \in [name : Names, up : SUBSET Needs, down : SUBSET Needs] :
     o.name = "ControlPlaneDetails" => "server" \in o.up}
NamesOf(ops) == {ops[i].name : i \in 1..Len(ops)}

\* The names of the operators of a pipeline.
HeadSteps(profile) ==
  {"InstallPrereqs", "TailscaleHostname", "HeadServer", "EnvSecrets", "K3sServer", "Kubeconfig",
   "LocalPath", "BootstrapSecrets", "ControlPlaneDetails", "NodeLabel", "WorkerLabels", "ArgoReady"}
  \cup (IF profile = "aws" THEN {"TerraformOutputs"} ELSE {})
  \cup (IF profile = "onprem" THEN {"PostgresCredentials", "MinioCredentials"} ELSE {})
StepsOf(a) ==
  IF a = HeadRole THEN HeadSteps(config[a].profile)
  ELSE IF OnHead(a) THEN {"ComputeLabels"}
  ELSE {"InstallPrereqs", "JoinCluster", "NodeLabel", "ComputeLabels"}

\* k3s is set up once, before its token is published, and torn down after that
\* has been deleted.
K3sFirst(ops, way) ==
  \A i, j \in 1..Len(ops) :
    ops[i].name = "K3sServer" /\ ops[j].name \in {"K3sServer", "ControlPlaneDetails"} =>
      IF way = "setup" THEN i <= j ELSE j <= i

\* What is in either part of a pipeline is in the whole.
LEMMA ConcatNames ==
  ASSUME NEW s \in Seq(Operator), NEW t \in Seq(Operator)
  PROVE  s \o t \in Seq(Operator) /\ NamesOf(s \o t) = NamesOf(s) \cup NamesOf(t)
<1>1. s \o t \in Seq(Operator) /\ Len(s \o t) = Len(s) + Len(t)
  OBVIOUS
<1>2. ASSUME NEW n \in NamesOf(s \o t) PROVE n \in NamesOf(s) \cup NamesOf(t)
  <2>1. PICK i \in 1..Len(s \o t) : n = (s \o t)[i].name
    BY DEF NamesOf
  <2>2. CASE i <= Len(s)
    BY <2>1, <2>2 DEF NamesOf
  <2>3. CASE i > Len(s)
    <3>1. (s \o t)[i] = t[i - Len(s)] /\ i - Len(s) \in 1..Len(t)
      BY <2>3, <1>1
    <3> QED BY <2>1, <3>1 DEF NamesOf
  <2> QED BY <2>2, <2>3
<1>3. ASSUME NEW n \in NamesOf(s) PROVE n \in NamesOf(s \o t)
  <2>1. PICK i \in 1..Len(s) : n = s[i].name
    BY DEF NamesOf
  <2>2. (s \o t)[i] = s[i] /\ i \in 1..Len(s \o t)
    BY <1>1
  <2> QED BY <2>1, <2>2 DEF NamesOf
<1>4. ASSUME NEW n \in NamesOf(t) PROVE n \in NamesOf(s \o t)
  <2>1. PICK i \in 1..Len(t) : n = t[i].name
    BY DEF NamesOf
  <2>2. (s \o t)[Len(s) + i] = t[i] /\ Len(s) + i \in 1..Len(s \o t)
    BY <1>1
  <2> QED BY <2>1, <2>2 DEF NamesOf
<1> QED BY <1>1, <1>2, <1>3, <1>4

\* Two parts of a pipeline, the server in the first and its token in the second.
LEMMA ConcatFirst ==
  ASSUME NEW s \in Seq(Operator), NEW t \in Seq(Operator),
         K3sFirst(s, "setup"), "K3sServer" \notin NamesOf(t)
  PROVE  K3sFirst(s \o t, "setup")
<1>1. Len(s \o t) = Len(s) + Len(t)
  OBVIOUS
<1>2. SUFFICES ASSUME NEW i \in 1..Len(s \o t), NEW j \in 1..Len(s \o t),
                      (s \o t)[i].name = "K3sServer",
                      (s \o t)[j].name \in {"K3sServer", "ControlPlaneDetails"}
               PROVE  i <= j
  BY DEF K3sFirst
<1>3. i <= Len(s)
  <2> SUFFICES ASSUME i > Len(s) PROVE FALSE
    BY <1>1
  <2>1. (s \o t)[i] = t[i - Len(s)] /\ i - Len(s) \in 1..Len(t)
    BY <1>1
  <2> QED BY <2>1, <1>2 DEF NamesOf
<1>4. CASE j <= Len(s)
  <2>1. (s \o t)[i] = s[i] /\ (s \o t)[j] = s[j] /\ i \in 1..Len(s) /\ j \in 1..Len(s)
    BY <1>1, <1>3, <1>4
  <2> QED BY <2>1, <1>2 DEF K3sFirst
<1> QED BY <1>1, <1>3, <1>4

\* What operators are.
LEMMA OperatorsTyped ==
  /\ {InstallPrereqs, TailscaleHostname, HeadServer, EnvSecrets, TerraformOutputs, K3sServer,
      Kubeconfig, LocalPath, PostgresCredentials, MinioCredentials, BootstrapSecrets,
      ControlPlaneDetails, WorkerLabels, ArgoReady, JoinCluster} \subseteq Operator
  /\ \A strict \in BOOLEAN : NodeLabel(strict) \in Operator /\ ComputeLabels(strict) \in Operator
<1> USE DEF Op, Operator, Names, Needs
<1>1. {InstallPrereqs, TailscaleHostname, HeadServer, EnvSecrets} \subseteq Operator
  BY DEF InstallPrereqs, TailscaleHostname, HeadServer, EnvSecrets
<1>2. {TerraformOutputs, K3sServer, Kubeconfig, LocalPath} \subseteq Operator
  BY DEF TerraformOutputs, K3sServer, Kubeconfig, LocalPath
<1>3. {PostgresCredentials, MinioCredentials, BootstrapSecrets, ControlPlaneDetails} \subseteq Operator
  BY DEF PostgresCredentials, MinioCredentials, BootstrapSecrets, ControlPlaneDetails
<1>4. {WorkerLabels, ArgoReady, JoinCluster} \subseteq Operator
  BY DEF WorkerLabels, ArgoReady, JoinCluster
<1>5. \A strict \in BOOLEAN : NodeLabel(strict) \in Operator /\ ComputeLabels(strict) \in Operator
  BY DEF NodeLabel, ComputeLabels
<1> HIDE DEF Op, Operator, Names, Needs
<1> QED BY <1>1, <1>2, <1>3, <1>4, <1>5

\* Short pipelines.
LEMMA NoOperator ==
  /\ <<>> \in Seq(Operator) /\ NamesOf(<<>>) = {}
  /\ \A way : K3sFirst(<<>>, way)
BY DEF NamesOf, K3sFirst
LEMMA OneOperator ==
  ASSUME NEW o \in Operator
  PROVE  <<o>> \in Seq(Operator) /\ NamesOf(<<o>>) = {o.name} /\ \A way : K3sFirst(<<o>>, way)
<1>1. Len(<<o>>) = 1 /\ <<o>>[1] = o
  OBVIOUS
<1>2. NamesOf(<<o>>) = {o.name}
  BY <1>1 DEF NamesOf
<1>3. \A way : K3sFirst(<<o>>, way)
  BY <1>1 DEF K3sFirst
<1> QED BY <1>2, <1>3
LEMMA ThreeOperators ==
  ASSUME NEW o \in Operator, NEW p \in Operator, NEW q \in Operator
  PROVE  <<o, p, q>> \in Seq(Operator) /\ NamesOf(<<o, p, q>>) = {o.name, p.name, q.name}
<1> DEFINE s == <<o, p, q>>
<1>1. s \in Seq(Operator) /\ Len(s) = 3 /\ s[1] = o /\ s[2] = p /\ s[3] = q
  OBVIOUS
<1> HIDE DEF s
<1>2. NamesOf(s) = {s[1].name, s[2].name, s[3].name}
  <2>1. 1..3 = {1, 2, 3}
    OBVIOUS
  <2> QED BY <1>1, <2>1 DEF NamesOf
<1> QED BY <1>1, <1>2 DEF s
LEMMA FourOperators ==
  ASSUME NEW o \in Operator, NEW p \in Operator, NEW q \in Operator, NEW r \in Operator
  PROVE  /\ <<o, p, q, r>> \in Seq(Operator)
         /\ NamesOf(<<o, p, q, r>>) = {o.name, p.name, q.name, r.name}
<1> DEFINE s == <<o, p, q, r>>
<1>1. s \in Seq(Operator) /\ Len(s) = 4 /\ s[1] = o /\ s[2] = p /\ s[3] = q /\ s[4] = r
  OBVIOUS
<1> HIDE DEF s
<1>2. NamesOf(s) = {s[1].name, s[2].name, s[3].name, s[4].name}
  <2>1. 1..4 = {1, 2, 3, 4}
    OBVIOUS
  <2> QED BY <1>1, <2>1 DEF NamesOf
<1> QED BY <1>1, <1>2 DEF s
LEMMA FiveOperators ==
  ASSUME NEW o \in Operator, NEW p \in Operator, NEW q \in Operator, NEW r \in Operator,
         NEW u \in Operator
  PROVE  /\ <<o, p, q, r, u>> \in Seq(Operator)
         /\ NamesOf(<<o, p, q, r, u>>) = {o.name, p.name, q.name, r.name, u.name}
<1> DEFINE s == <<o, p, q, r, u>>
<1>1. s \in Seq(Operator) /\ Len(s) = 5 /\ s[1] = o /\ s[2] = p /\ s[3] = q /\ s[4] = r /\ s[5] = u
  OBVIOUS
<1> HIDE DEF s
<1>2. NamesOf(s) = {s[1].name, s[2].name, s[3].name, s[4].name, s[5].name}
  <2>1. 1..5 = {1, 2, 3, 4, 5}
    OBVIOUS
  <2> QED BY <1>1, <2>1 DEF NamesOf
<1> QED BY <1>1, <1>2 DEF s

\* A part without the server has it in no wrong place.
LEMMA NoServerIsFirst ==
  ASSUME NEW s \in Seq(Operator), "K3sServer" \notin NamesOf(s)
  PROVE  \A way : K3sFirst(s, way)
BY DEF NamesOf, K3sFirst

\* The pipeline of the head has the steps of its profile, in order.
LEMMA HeadPipeline ==
  ASSUME NEW profile
  PROVE  /\ BuildHead(profile) \in Seq(Operator)
         /\ NamesOf(BuildHead(profile)) = HeadSteps(profile)
         /\ K3sFirst(BuildHead(profile), "setup")
<1> DEFINE a == <<InstallPrereqs, TailscaleHostname, HeadServer, EnvSecrets>>
           b == OnAws(profile, TerraformOutputs)
           c == <<K3sServer, Kubeconfig, LocalPath>>
           d == OnOnprem(profile, PostgresCredentials)
           e == OnOnprem(profile, MinioCredentials)
           f == <<BootstrapSecrets, ControlPlaneDetails, NodeLabel(TRUE), WorkerLabels, ArgoReady>>
<1>1. BuildHead(profile) = a \o b \o c \o d \o e \o f
  BY DEF BuildHead
<1>2. a \in Seq(Operator) /\ NamesOf(a) = {"InstallPrereqs", "TailscaleHostname", "HeadServer", "EnvSecrets"}
  <2>1. a \in Seq(Operator) /\ NamesOf(a) = {InstallPrereqs.name, TailscaleHostname.name, HeadServer.name, EnvSecrets.name}
    BY FourOperators, OperatorsTyped
  <2> QED BY <2>1 DEF InstallPrereqs, TailscaleHostname, HeadServer, EnvSecrets, Op
<1>3. b \in Seq(Operator) /\ NamesOf(b) = IF profile = "aws" THEN {"TerraformOutputs"} ELSE {}
  <2>1. TerraformOutputs.name = "TerraformOutputs" /\ TerraformOutputs \in Operator
    BY OperatorsTyped DEF TerraformOutputs, Op
  <2> QED BY <2>1, OneOperator, NoOperator DEF OnAws
<1>4. c \in Seq(Operator) /\ NamesOf(c) = {"K3sServer", "Kubeconfig", "LocalPath"}
  <2>1. c \in Seq(Operator) /\ NamesOf(c) = {K3sServer.name, Kubeconfig.name, LocalPath.name}
    BY ThreeOperators, OperatorsTyped
  <2> QED BY <2>1 DEF K3sServer, Kubeconfig, LocalPath, Op
<1>5. d \in Seq(Operator) /\ NamesOf(d) = IF profile = "onprem" THEN {"PostgresCredentials"} ELSE {}
  <2>1. PostgresCredentials.name = "PostgresCredentials" /\ PostgresCredentials \in Operator
    BY OperatorsTyped DEF PostgresCredentials, Op
  <2> QED BY <2>1, OneOperator, NoOperator DEF OnOnprem
<1>6. e \in Seq(Operator) /\ NamesOf(e) = IF profile = "onprem" THEN {"MinioCredentials"} ELSE {}
  <2>1. MinioCredentials.name = "MinioCredentials" /\ MinioCredentials \in Operator
    BY OperatorsTyped DEF MinioCredentials, Op
  <2> QED BY <2>1, OneOperator, NoOperator DEF OnOnprem
<1>7. /\ f \in Seq(Operator)
      /\ NamesOf(f) = {"BootstrapSecrets", "ControlPlaneDetails", "NodeLabel", "WorkerLabels", "ArgoReady"}
  <2> DEFINE label == NodeLabel(TRUE)
  <2>1. label \in Operator /\ label.name = "NodeLabel"
    BY OperatorsTyped DEF NodeLabel, Op
  <2>2. /\ BootstrapSecrets \in Operator /\ ControlPlaneDetails \in Operator
        /\ WorkerLabels \in Operator /\ ArgoReady \in Operator
    BY OperatorsTyped
  <2> HIDE DEF label
  <2>3. /\ <<BootstrapSecrets, ControlPlaneDetails, label, WorkerLabels, ArgoReady>> \in Seq(Operator)
        /\ NamesOf(<<BootstrapSecrets, ControlPlaneDetails, label, WorkerLabels, ArgoReady>>)
             = {BootstrapSecrets.name, ControlPlaneDetails.name, label.name, WorkerLabels.name,
                ArgoReady.name}
    BY FiveOperators, <2>1, <2>2
  <2>4. /\ BootstrapSecrets.name = "BootstrapSecrets" /\ WorkerLabels.name = "WorkerLabels"
        /\ ControlPlaneDetails.name = "ControlPlaneDetails" /\ ArgoReady.name = "ArgoReady"
    BY DEF BootstrapSecrets, ControlPlaneDetails, WorkerLabels, ArgoReady, Op
  <2>5. f = <<BootstrapSecrets, ControlPlaneDetails, label, WorkerLabels, ArgoReady>>
    BY DEF label
  <2> QED BY <2>1, <2>3, <2>4, <2>5
<1>8. K3sFirst(c, "setup")
  <2>1. c[1].name = "K3sServer" /\ c[2].name = "Kubeconfig" /\ c[3].name = "LocalPath" /\ Len(c) = 3
    BY DEF K3sServer, Kubeconfig, LocalPath, Op
  <2> HIDE DEF c
  <2> QED BY <2>1 DEF K3sFirst
<1> HIDE DEF a, b, c, d, e, f
<1>9. (a \o b) \in Seq(Operator) /\ NamesOf(a \o b) = NamesOf(a) \cup NamesOf(b)
  BY <1>2, <1>3, ConcatNames
<1>10. K3sFirst(a \o b \o c, "setup")
  <2> SUFFICES ASSUME NEW i \in 1..Len(a \o b \o c), NEW j \in 1..Len(a \o b \o c),
                      (a \o b \o c)[i].name = "K3sServer",
                      (a \o b \o c)[j].name \in {"K3sServer", "ControlPlaneDetails"}
               PROVE  i <= j
    BY DEF K3sFirst
  <2> DEFINE g == a \o b
  <2>1. g \in Seq(Operator) /\ "K3sServer" \notin NamesOf(g) /\ "ControlPlaneDetails" \notin NamesOf(g)
    BY <1>2, <1>3, <1>9
  <2>2. (g \o c)[i].name = "K3sServer" /\ (g \o c)[j].name \in {"K3sServer", "ControlPlaneDetails"}
        /\ i \in 1..Len(g \o c) /\ j \in 1..Len(g \o c) /\ Len(g \o c) = Len(g) + Len(c)
    BY <1>4, <2>1
  <2> HIDE DEF g
  <2>3. ASSUME NEW k \in 1..Len(g \o c), (g \o c)[k].name \in {"K3sServer", "ControlPlaneDetails"}
        PROVE  (g \o c)[k] = c[k - Len(g)] /\ k - Len(g) \in 1..Len(c)
    <3>1. k > Len(g)
      <4> SUFFICES ASSUME k <= Len(g) PROVE FALSE
        BY <2>1
      <4>1. (g \o c)[k] = g[k] /\ k \in 1..Len(g)
        BY <2>1, <1>4
      <4> QED BY <4>1, <2>1, <2>3 DEF NamesOf
    <3> QED BY <3>1, <1>4, <2>1, <2>2
  <2>4. i - Len(g) <= j - Len(g)
    BY <2>2, <2>3, <1>8 DEF K3sFirst
  <2> QED BY <2>1, <2>4
<1>11. (a \o b \o c) \in Seq(Operator) /\ NamesOf(a \o b \o c) = NamesOf(a) \cup NamesOf(b) \cup NamesOf(c)
  BY <1>9, <1>4, ConcatNames
<1>12. /\ (a \o b \o c \o d) \in Seq(Operator) /\ K3sFirst(a \o b \o c \o d, "setup")
       /\ NamesOf(a \o b \o c \o d) = NamesOf(a) \cup NamesOf(b) \cup NamesOf(c) \cup NamesOf(d)
  BY <1>10, <1>11, <1>5, ConcatNames, ConcatFirst
<1>13. /\ (a \o b \o c \o d \o e) \in Seq(Operator) /\ K3sFirst(a \o b \o c \o d \o e, "setup")
       /\ NamesOf(a \o b \o c \o d \o e)
            = NamesOf(a) \cup NamesOf(b) \cup NamesOf(c) \cup NamesOf(d) \cup NamesOf(e)
  BY <1>12, <1>6, ConcatNames, ConcatFirst
<1>14. /\ (a \o b \o c \o d \o e \o f) \in Seq(Operator) /\ K3sFirst(a \o b \o c \o d \o e \o f, "setup")
       /\ NamesOf(a \o b \o c \o d \o e \o f)
            = NamesOf(a) \cup NamesOf(b) \cup NamesOf(c) \cup NamesOf(d) \cup NamesOf(e) \cup NamesOf(f)
  BY <1>13, <1>7, ConcatNames, ConcatFirst
<1> QED BY <1>1, <1>2, <1>3, <1>4, <1>5, <1>6, <1>7, <1>14 DEF HeadSteps

\* The pipelines of workers.
LEMMA WorkerPipeline ==
  ASSUME NEW direct \in BOOLEAN
  PROVE  /\ BuildWorker(direct) \in Seq(Operator)
         /\ NamesOf(BuildWorker(direct)) = {"InstallPrereqs", "JoinCluster", "NodeLabel", "ComputeLabels"}
<1>1. /\ InstallPrereqs \in Operator /\ JoinCluster \in Operator
      /\ NodeLabel(direct) \in Operator /\ ComputeLabels(direct) \in Operator
  BY OperatorsTyped
<1>2. /\ InstallPrereqs.name = "InstallPrereqs" /\ JoinCluster.name = "JoinCluster"
      /\ NodeLabel(direct).name = "NodeLabel" /\ ComputeLabels(direct).name = "ComputeLabels"
  BY DEF InstallPrereqs, JoinCluster, NodeLabel, ComputeLabels, Op
<1> QED BY <1>1, <1>2, FourOperators DEF BuildWorker
LEMMA OnHeadPipeline ==
  BuildOnHead \in Seq(Operator) /\ NamesOf(BuildOnHead) = {"ComputeLabels"}
<1>1. ComputeLabels(TRUE) \in Operator /\ ComputeLabels(TRUE).name = "ComputeLabels"
  BY OperatorsTyped DEF ComputeLabels, Op
<1> QED BY <1>1, OneOperator DEF BuildOnHead

\* A pipeline has the steps of its role, the server first.
LEMMA PipelineSteps ==
  ASSUME NEW a \in Roles, NEW direct \in BOOLEAN
  PROVE  LET p == PipelineOf(a, direct)
         IN  p \in Seq(Operator) /\ NamesOf(p) = StepsOf(a) /\ K3sFirst(p, "setup")
<1>1. CASE a = HeadRole
  BY <1>1, HeadPipeline DEF PipelineOf, StepsOf
<1>2. CASE a # HeadRole /\ OnHead(a)
  BY <1>2, OnHeadPipeline, NoServerIsFirst DEF PipelineOf, StepsOf
<1>3. CASE a # HeadRole /\ ~OnHead(a)
  BY <1>3, WorkerPipeline, NoServerIsFirst DEF PipelineOf, StepsOf
<1> QED BY <1>1, <1>2, <1>3

\* It is torn down backwards.
LEMMA PipelineInOrder ==
  ASSUME NEW p \in Seq(Operator), K3sFirst(p, "setup"), NEW way \in {"setup", "teardown"}
  PROVE  LET ops == InOrder(p, way)
         IN  ops \in Seq(Operator) /\ NamesOf(ops) = NamesOf(p) /\ K3sFirst(ops, way)
<1>1. CASE way = "setup"
  BY <1>1 DEF InOrder
<1>2. CASE way = "teardown"
  <2> DEFINE r == Reverse(p)
  <2>1. InOrder(p, way) = r
    BY <1>2 DEF InOrder
  <2>2. /\ r \in Seq(Operator) /\ Len(r) = Len(p)
        /\ \A i \in 1..Len(p) : r[i] = p[Len(p) - i + 1] /\ Len(p) - i + 1 \in 1..Len(p)
    <3>1. \A i \in 1..Len(p) : Len(p) - i + 1 \in 1..Len(p)
      OBVIOUS
    <3> QED BY <3>1 DEF Reverse
  <2> HIDE DEF r
  <2>3. \A i \in 1..Len(p) : p[i] = r[Len(p) - i + 1] /\ Len(p) - i + 1 \in 1..Len(r)
    BY <2>2
  <2>4. NamesOf(r) = NamesOf(p)
    <3>1. ASSUME NEW n \in NamesOf(r) PROVE n \in NamesOf(p)
      <4>1. PICK i \in 1..Len(r) : n = r[i].name
        BY DEF NamesOf
      <4> QED BY <4>1, <2>2 DEF NamesOf
    <3>2. ASSUME NEW n \in NamesOf(p) PROVE n \in NamesOf(r)
      <4>1. PICK i \in 1..Len(p) : n = p[i].name
        BY DEF NamesOf
      <4> QED BY <4>1, <2>3 DEF NamesOf
    <3> QED BY <3>1, <3>2
  <2>5. K3sFirst(r, "teardown")
    <3> SUFFICES ASSUME NEW i \in 1..Len(r), NEW j \in 1..Len(r), r[i].name = "K3sServer",
                        r[j].name \in {"K3sServer", "ControlPlaneDetails"}
                 PROVE  j <= i
      BY DEF K3sFirst
    <3>1. Len(p) - i + 1 <= Len(p) - j + 1
      BY <2>2 DEF K3sFirst
    <3> QED BY <3>1
  <2> QED BY <1>2, <2>1, <2>2, <2>4, <2>5
<1> QED BY <1>1, <1>2

\* What is left of a pipeline after its first operator.
LEMMA RestOfPipeline ==
  ASSUME NEW ops \in Seq(Operator), ops # <<>>, NEW way, K3sFirst(ops, way)
  PROVE  /\ Head(ops) \in Operator /\ Head(ops) = ops[1] /\ Head(ops).name \in NamesOf(ops)
         /\ Tail(ops) \in Seq(Operator) /\ Len(Tail(ops)) = Len(ops) - 1
         /\ NamesOf(Tail(ops)) \subseteq NamesOf(ops)
         /\ NamesOf(ops) \subseteq NamesOf(Tail(ops)) \cup {Head(ops).name}
         /\ K3sFirst(Tail(ops), way)
<1>1. /\ Head(ops) = ops[1] /\ 1 \in 1..Len(ops) /\ Head(ops) \in Operator
      /\ Tail(ops) \in Seq(Operator) /\ Len(Tail(ops)) = Len(ops) - 1
      /\ \A i \in 1..Len(Tail(ops)) : Tail(ops)[i] = ops[i + 1] /\ i + 1 \in 1..Len(ops)
      /\ \A i \in 1..Len(ops) : i # 1 => ops[i] = Tail(ops)[i - 1] /\ i - 1 \in 1..Len(Tail(ops))
  OBVIOUS
<1>2. NamesOf(Tail(ops)) \subseteq NamesOf(ops)
  BY <1>1 DEF NamesOf
<1>3. ASSUME NEW n \in NamesOf(ops) PROVE n \in NamesOf(Tail(ops)) \cup {Head(ops).name}
  <2>1. PICK i \in 1..Len(ops) : n = ops[i].name
    BY DEF NamesOf
  <2>2. CASE i = 1
    BY <1>1, <2>1, <2>2
  <2>3. CASE i # 1
    <3>1. n = Tail(ops)[i - 1].name /\ i - 1 \in 1..Len(Tail(ops))
      BY <1>1, <2>1, <2>3
    <3> QED BY <3>1 DEF NamesOf
  <2> QED BY <2>2, <2>3
<1>4. K3sFirst(Tail(ops), way)
  <2> SUFFICES ASSUME NEW i \in 1..Len(Tail(ops)), NEW j \in 1..Len(Tail(ops)),
                      Tail(ops)[i].name = "K3sServer",
                      Tail(ops)[j].name \in {"K3sServer", "ControlPlaneDetails"}
               PROVE  IF way = "setup" THEN i <= j ELSE j <= i
    BY DEF K3sFirst
  <2>1. /\ i + 1 \in 1..Len(ops) /\ j + 1 \in 1..Len(ops) /\ ops[i + 1].name = "K3sServer"
        /\ ops[j + 1].name \in {"K3sServer", "ControlPlaneDetails"}
    BY <1>1
  <2>2. IF way = "setup" THEN i + 1 <= j + 1 ELSE j + 1 <= i + 1
    BY <2>1 DEF K3sFirst
  <2> QED BY <2>2, <1>1
<1> QED BY <1>1, <1>2, <1>3, <1>4 DEF NamesOf

\* k3s is the last to be set up again, and the last to be torn down, of the two.
LEMMA ServerOnce ==
  ASSUME NEW ops \in Seq(Operator), ops # <<>>, NEW way, K3sFirst(ops, way),
         Head(ops).name = "K3sServer"
  PROVE  /\ "K3sServer" \notin NamesOf(Tail(ops))
         /\ way # "setup" => "ControlPlaneDetails" \notin NamesOf(ops)
<1>1. /\ Head(ops) = ops[1] /\ 1 \in 1..Len(ops) /\ Len(Tail(ops)) = Len(ops) - 1
      /\ \A i \in 1..Len(Tail(ops)) : Tail(ops)[i] = ops[i + 1] /\ i + 1 \in 1..Len(ops)
  OBVIOUS
<1>2. \A i, j \in 1..Len(ops) : ops[i].name = "K3sServer" /\ ops[j].name = "K3sServer" => i = j
  BY DEF K3sFirst
<1>3. "K3sServer" \notin NamesOf(Tail(ops))
  <2> SUFFICES ASSUME NEW i \in 1..Len(Tail(ops)), Tail(ops)[i].name = "K3sServer" PROVE FALSE
    BY DEF NamesOf
  <2> QED BY <1>1, <1>2
<1>4. ASSUME way # "setup", NEW j \in 1..Len(ops), ops[j].name = "ControlPlaneDetails" PROVE FALSE
  <2>1. j <= 1
    BY <1>1, <1>4 DEF K3sFirst
  <2>2. j = 1
    BY <2>1
  <2> QED BY <1>1, <1>4, <2>2
<1> QED BY <1>3, <1>4 DEF NamesOf

-----------------------------------------------------------------------------
(* Plans *)

Profiles == {"onprem", "aws", "none"}
PhaseOf == [do : {"apply", "destroy", "record", "forget", "setup", "teardown"}, role : Roles,
            ip : Machines \cup {Nothing}, profile : Profiles \cup {Nothing}]

\* Phases that take something of a role down.
Takes == {"teardown", "destroy", "forget"}

\* What a phase is, what it comes right before, and what it comes before.
Fits(x) ==
  /\ x.do = "record" => x.ip \in Machines /\ x.profile \in Profiles
  /\ x.do \in {"apply", "destroy"} => x.role = HeadRole
Leads(x, y) ==
  /\ y.do = "setup" => x.do = "record" /\ x.role = y.role
  /\ y.do = "destroy" => x.do = "teardown" /\ x.role = y.role
  /\ y.do = "forget" => x.do \in {"teardown", "destroy"} /\ x.role = y.role
Precedes(x, y) ==
  /\ x.do = "forget" /\ y.do = "teardown" => x.role # y.role
  /\ x.do = "record" => y.do \notin Takes
  /\ x.do = "record" /\ y.do = "record" =>
       y.role # HeadRole /\ x.role # y.role /\ (x.role # HeadRole => x.ip # y.ip)
  /\ x.do = "setup" /\ y.do = "setup" => y.role # HeadRole

\* The shape of every plan, and of what is left of it.
Shape(p) ==
  /\ \A i \in 1..Len(p) : Fits(p[i])
  /\ \A i \in 1..Len(p) : \A j \in 1..Len(p) : j = i + 1 => Leads(p[i], p[j])
  /\ \A i \in 1..Len(p) : \A j \in 1..Len(p) : i < j => Precedes(p[i], p[j])

LEMMA EmptyPlan == <<>> \in Seq(PhaseOf) /\ Shape(<<>>)
BY DEF Shape

\* Without its first phase a plan has its shape.
LEMMA RestOfPlan ==
  ASSUME NEW p \in Seq(PhaseOf), p # <<>>, Shape(p)
  PROVE  /\ Tail(p) \in Seq(PhaseOf) /\ Shape(Tail(p)) /\ Len(Tail(p)) = Len(p) - 1
         /\ Head(p) = p[1] /\ 1 \in 1..Len(p) /\ p[1] \in PhaseOf /\ Fits(p[1])
         /\ \A i \in 1..Len(Tail(p)) :
              /\ Tail(p)[i] = p[i + 1] /\ i + 1 \in 1..Len(p) /\ p[i + 1] \in PhaseOf
              /\ Precedes(p[1], p[i + 1])
              /\ i = 1 => Leads(p[1], p[i + 1])
<1>1. /\ Head(p) = p[1] /\ 1 \in 1..Len(p) /\ p[1] \in PhaseOf
      /\ Tail(p) \in Seq(PhaseOf) /\ Len(Tail(p)) = Len(p) - 1
      /\ \A i \in 1..Len(Tail(p)) : Tail(p)[i] = p[i + 1] /\ i + 1 \in 1..Len(p) /\ p[i + 1] \in PhaseOf
  OBVIOUS
<1>2. Fits(p[1])
  BY <1>1 DEF Shape
<1>3. \A i \in 1..Len(Tail(p)) : Precedes(p[1], p[i + 1]) /\ (i = 1 => Leads(p[1], p[i + 1]))
  BY <1>1 DEF Shape
<1>4. Shape(Tail(p))
  <2>1. \A i \in 1..Len(Tail(p)) : Fits(Tail(p)[i])
    BY <1>1 DEF Shape
  <2>2. ASSUME NEW i \in 1..Len(Tail(p)), NEW j \in 1..Len(Tail(p)), i < j
        PROVE  Precedes(Tail(p)[i], Tail(p)[j]) /\ (j = i + 1 => Leads(Tail(p)[i], Tail(p)[j]))
    <3>1. /\ Tail(p)[i] = p[i + 1] /\ Tail(p)[j] = p[j + 1]
          /\ i + 1 \in 1..Len(p) /\ j + 1 \in 1..Len(p) /\ i + 1 < j + 1
          /\ j = i + 1 => j + 1 = (i + 1) + 1
      BY <1>1, <2>2
    <3> QED BY <3>1 DEF Shape
  <2>3. \A i, j \in 1..Len(Tail(p)) : j = i + 1 => i < j
    OBVIOUS
  <2> QED BY <2>1, <2>2, <2>3 DEF Shape
<1> QED BY <1>1, <1>2, <1>3, <1>4

\* Two plans one after the other.
LEMMA JoinedPlans ==
  ASSUME NEW p \in Seq(PhaseOf), NEW q \in Seq(PhaseOf), Shape(p), Shape(q),
         \A i \in 1..Len(p) : \A j \in 1..Len(q) : Precedes(p[i], q[j]),
         q # <<>> => q[1].do \notin {"setup", "destroy", "forget"}
  PROVE  p \o q \in Seq(PhaseOf) /\ Shape(p \o q)
<1> DEFINE r == p \o q
<1>1. /\ r \in Seq(PhaseOf) /\ Len(r) = Len(p) + Len(q)
      /\ \A i \in 1..Len(r) : /\ i <= Len(p) => i \in 1..Len(p) /\ r[i] = p[i]
                              /\ i > Len(p) => i - Len(p) \in 1..Len(q) /\ r[i] = q[i - Len(p)]
  OBVIOUS
<1> HIDE DEF r
<1>2. Len(p) \in Nat /\ Len(q) \in Nat
  OBVIOUS
<1>3. ASSUME NEW i \in 1..Len(r) PROVE Fits(r[i])
  <2>1. CASE i <= Len(p)
    BY <1>1, <2>1 DEF Shape
  <2>2. CASE i > Len(p)
    BY <1>1, <2>2 DEF Shape
  <2> QED BY <1>2, <2>1, <2>2
<1>4. ASSUME NEW i \in 1..Len(r), NEW j \in 1..Len(r), i < j
      PROVE  Precedes(r[i], r[j]) /\ (j = i + 1 => Leads(r[i], r[j]))
  <2>1. CASE j <= Len(p)
    <3>1. r[i] = p[i] /\ r[j] = p[j] /\ i \in 1..Len(p) /\ j \in 1..Len(p)
      BY <1>1, <1>2, <1>4, <2>1
    <3> QED BY <1>4, <3>1 DEF Shape
  <2>2. CASE i <= Len(p) /\ j > Len(p)
    <3>1. r[i] = p[i] /\ r[j] = q[j - Len(p)] /\ i \in 1..Len(p) /\ j - Len(p) \in 1..Len(q)
      BY <1>1, <2>2
    <3>2. Precedes(r[i], r[j])
      BY <3>1
    <3>3. ASSUME j = i + 1 PROVE Leads(r[i], r[j])
      <4>1. j - Len(p) = 1 /\ q # <<>>
        BY <1>2, <2>2, <3>1, <3>3
      <4>2. q[1].do \notin {"setup", "destroy", "forget"} /\ r[j] = q[1]
        BY <3>1, <4>1
      <4> QED BY <4>2 DEF Leads
    <3> QED BY <3>2, <3>3
  <2>3. CASE i > Len(p)
    <3>1. /\ r[i] = q[i - Len(p)] /\ r[j] = q[j - Len(p)]
          /\ i - Len(p) \in 1..Len(q) /\ j - Len(p) \in 1..Len(q)
          /\ i - Len(p) < j - Len(p) /\ (j = i + 1 => j - Len(p) = i - Len(p) + 1)
      BY <1>1, <1>2, <1>4, <2>3
    <3> QED BY <3>1 DEF Shape
  <2> QED BY <1>2, <2>1, <2>2, <2>3
<1>5. Shape(r)
  <2>1. \A i, j \in 1..Len(r) : j = i + 1 => i < j
    OBVIOUS
  <2> QED BY <1>3, <1>4, <2>1 DEF Shape
<1> QED BY <1>1, <1>5 DEF r

\* Plans of two phases.
LEMMA TwoPhases ==
  ASSUME NEW x \in PhaseOf, NEW y \in PhaseOf, Fits(x), Fits(y), Leads(x, y), Precedes(x, y)
  PROVE  <<x, y>> \in Seq(PhaseOf) /\ Shape(<<x, y>>)
<1> DEFINE p == <<x, y>>
<1>1. p \in Seq(PhaseOf) /\ Len(p) = 2 /\ p[1] = x /\ p[2] = y
  OBVIOUS
<1> HIDE DEF p
<1>2. \A i \in 1..Len(p) : i = 1 \/ i = 2
  BY <1>1
<1>3. Shape(p)
  BY <1>1, <1>2 DEF Shape
<1> QED BY <1>1, <1>3 DEF p

-----------------------------------------------------------------------------
(* What the plan of a command may rely on *)

RecordHolds(a, m) ==
  IF a = HeadRole THEN ~Known(a) => WorkersAt(m) = {}
  ELSE IF Known(a) THEN IpOf(a) = m ELSE WorkersAt(m) = {}

\* What is torn down is recorded, what is recorded has its address to itself, and
\* the workers are gone by the time the head is taken down.
PlanHolds(p) ==
  \A i \in 1..Len(p) :
    /\ p[i].do = "teardown" => Known(p[i].role)
    /\ p[i].do = "record" => RecordHolds(p[i].role, p[i].ip)
    /\ p[i].do \in Takes /\ p[i].role = HeadRole =>
         \A a \in Workers : \E j \in 1..i - 1 : p[j].do = "forget" /\ p[j].role = a
    /\ i = 1 /\ p[i].do = "setup" => Known(p[i].role)

ConfigTyped == config \in [Roles -> Entries \cup {Nothing}]
OneWorkerEach == \A a, b \in Workers : IpOf(a) = IpOf(b) => a = b
FewWorkers == IsFiniteSet(Workers)

\* An entry has an address and a profile.
LEMMA EntryTyped ==
  ASSUME ConfigTyped, NEW a \in Roles, Known(a)
  PROVE  /\ config[a] \in Entries /\ IpOf(a) \in Machines /\ config[a].profile \in Profiles
         /\ config[a].done \subseteq Names
BY DEF ConfigTyped, Known, IpOf, Entries, Profiles

\* An order of the workers has each of them once.
LEMMA OrdersAreWhole ==
  ASSUME FewWorkers, NEW order \in SetToSeqs(Workers)
  PROVE  /\ Len(order) \in Nat /\ order \in Seq(Workers)
         /\ \A i, j \in 1..Len(order) : i # j => order[i] # order[j]
         /\ \A a \in Workers : \E i \in 1..Len(order) : order[i] = a
<1> DEFINE n == Cardinality(Workers)
<1>1. n \in Nat
  BY FS_CardinalityType DEF FewWorkers
<1>2. order \in [1..n -> Workers] /\ \A i, j \in 1..n : i # j => order[i] # order[j]
  BY DEF SetToSeqs
<1>3. order \in Seq(Workers) /\ Len(order) = n
  BY <1>1, <1>2
<1>4. order \in Injection(1..n, Workers)
  BY <1>2 DEF Injection, IsInjective
<1>5. IsFiniteSet(1..n) /\ Cardinality(1..n) = n
  BY <1>1, FS_Interval
<1>6. order \in Surjection(1..n, Workers)
  BY <1>4, <1>5, FS_Injection DEF FewWorkers
<1>7. \A a \in Workers : \E i \in 1..n : order[i] = a
  BY <1>6 DEF Surjection
<1> QED BY <1>1, <1>2, <1>3, <1>7

\* Every place of a plan of pairs is the first or the second of a pair.
LEMMA Halves ==
  ASSUME NEW n \in Nat, NEW i \in 1..2 * n
  PROVE  LET k == (i + 1) \div 2
         IN  /\ k \in 1..n
             /\ i % 2 = 1 => i = 2 * k - 1 /\ 2 - (i % 2) = 1
             /\ i % 2 # 1 => i = 2 * k /\ 2 - (i % 2) = 2
OBVIOUS

\* The phases that take down the workers of an order.
LEMMA DelWorkersPlan ==
  ASSUME ConfigTyped, FewWorkers, NEW order \in SetToSeqs(Workers)
  PROVE  LET p == DelWorkers(order)
         IN  /\ p \in Seq(PhaseOf) /\ Shape(p)
             /\ \A i \in 1..Len(p) : /\ p[i].role \in Workers
                                     /\ p[i].do \in {"teardown", "forget"}
             /\ p # <<>> => p[1].do = "teardown"
             /\ \A a \in Workers : \E i \in 1..Len(p) : p[i].do = "forget" /\ p[i].role = a
             /\ p = <<>> => Workers = {}
<1> DEFINE n == Len(order)
           p == DelWorkers(order)
           At(i) == (i + 1) \div 2
<1>1. /\ n \in Nat /\ \A k \in 1..n : order[k] \in Workers
      /\ \A i, j \in 1..n : i # j => order[i] # order[j]
      /\ \A a \in Workers : \E i \in 1..n : order[i] = a
  BY OrdersAreWhole
<1>3. \A a : DelWorker(a)[1] = Phase("teardown", a) /\ DelWorker(a)[2] = Phase("forget", a)
  BY DEF DelWorker
<1>4. p = [i \in 1..2 * n |-> DelWorker(order[At(i)])[2 - (i % 2)]]
  BY DEF DelWorkers
<1>5. ASSUME NEW i \in 1..2 * n
      PROVE  /\ At(i) \in 1..n
             /\ \/ i = 2 * At(i) - 1 /\ p[i] = Phase("teardown", order[At(i)])
                \/ i = 2 * At(i) /\ p[i] = Phase("forget", order[At(i)])
  <2>1. p[i] = DelWorker(order[At(i)])[2 - (i % 2)]
    BY <1>4
  <2> HIDE DEF p
  <2>2. /\ At(i) \in 1..n
        /\ i % 2 = 1 => i = 2 * At(i) - 1 /\ 2 - (i % 2) = 1
        /\ i % 2 # 1 => i = 2 * At(i) /\ 2 - (i % 2) = 2
    BY <1>1, Halves
  <2> HIDE DEF At
  <2> QED BY <1>3, <2>1, <2>2
<1>6. \A k \in 1..n : /\ 2 * k \in 1..2 * n /\ 2 * k - 1 \in 1..2 * n
                      /\ At(2 * k) = k /\ At(2 * k - 1) = k
  BY <1>1
<1>7. Len(p) = 2 * n /\ DOMAIN p = 1..2 * n
  <2>1. 2 * n \in Nat
    BY <1>1
  <2> QED BY <1>4, <2>1
<1>8. \A a \in Workers : Phase("teardown", a) \in PhaseOf /\ Phase("forget", a) \in PhaseOf
  BY DEF Phase, PhaseOf, Workers, Roles
<1> HIDE DEF p, At, n
<1>9. \A i \in 1..2 * n : p[i] \in PhaseOf
  BY <1>1, <1>5, <1>8
<1>10. p \in Seq(PhaseOf)
  <2>1. p = [i \in 1..2 * n |-> p[i]] /\ 2 * n \in Nat
    BY <1>1, <1>4, <1>7
  <2> QED BY <1>9, <2>1
<1>11. \A i \in 1..Len(p) : p[i].role = order[At(i)] /\ p[i].do \in {"teardown", "forget"}
  BY <1>5, <1>7 DEF Phase
<1>12. \A i \in 1..Len(p) : Fits(p[i])
  BY <1>11 DEF Fits
<1>13. ASSUME NEW i \in 1..Len(p), NEW j \in 1..Len(p), i < j
       PROVE  Precedes(p[i], p[j]) /\ (j = i + 1 => Leads(p[i], p[j]))
  <2>1. /\ At(i) \in 1..n /\ At(j) \in 1..n
        /\ \/ i = 2 * At(i) - 1 /\ p[i] = Phase("teardown", order[At(i)])
           \/ i = 2 * At(i) /\ p[i] = Phase("forget", order[At(i)])
        /\ \/ j = 2 * At(j) - 1 /\ p[j] = Phase("teardown", order[At(j)])
           \/ j = 2 * At(j) /\ p[j] = Phase("forget", order[At(j)])
    BY <1>5, <1>7
  <2>2. n \in Nat
    BY <1>1 DEF n
  <2>3. ASSUME p[i].do = "forget", p[j].do = "teardown" PROVE p[i].role # p[j].role
    <3>1. i = 2 * At(i) /\ j = 2 * At(j) - 1
      BY <2>1, <2>3 DEF Phase
    <3>2. At(i) # At(j)
      BY <3>1, <1>13, <2>1, <2>2
    <3> QED BY <1>1, <1>11, <2>1, <3>2 DEF n
  <2>4. Precedes(p[i], p[j])
    BY <2>3, <1>11 DEF Precedes
  <2>5. ASSUME j = i + 1, p[j].do = "forget" PROVE p[i].do = "teardown" /\ p[i].role = p[j].role
    <3>1. j = 2 * At(j)
      BY <2>1, <2>5 DEF Phase
    <3>2. i = 2 * At(i) - 1 /\ At(i) = At(j)
      BY <3>1, <2>1, <2>2, <2>5
    <3>3. p[i] = Phase("teardown", order[At(i)])
      BY <3>2, <2>1, <2>2
    <3> QED BY <3>2, <3>3, <1>11 DEF Phase
  <2>6. ASSUME j = i + 1 PROVE Leads(p[i], p[j])
    BY <2>5, <2>6, <1>11 DEF Leads
  <2> QED BY <2>4, <2>6
<1>14. Shape(p)
  <2>1. \A i, j \in 1..Len(p) : j = i + 1 => i < j
    OBVIOUS
  <2> QED BY <1>12, <1>13, <2>1 DEF Shape
<1>15. ASSUME NEW a \in Workers PROVE \E i \in 1..Len(p) : p[i].do = "forget" /\ p[i].role = a
  <2>1. PICK k \in 1..n : order[k] = a
    BY <1>1 DEF n
  <2>2. 2 * k \in 1..2 * n /\ At(2 * k) = k
    BY <1>6
  <2>3. p[2 * k] = Phase("forget", order[k])
    <3>1. 2 * k # 2 * k - 1
      OBVIOUS
    <3> QED BY <2>2, <3>1, <1>5
  <2> QED BY <2>1, <2>2, <2>3, <1>7 DEF Phase
<1>16. p # <<>> => p[1].do = "teardown"
  <2> SUFFICES ASSUME p # <<>> PROVE p[1].do = "teardown"
    OBVIOUS
  <2>1. 1 \in 1..2 * n
    BY <1>7, <1>10
  <2>2. At(1) \in 1..n /\ 1 # 2 * At(1)
    BY <1>5, <2>1
  <2>3. p[1] = Phase("teardown", order[At(1)])
    BY <1>5, <2>1, <2>2
  <2> QED BY <2>3 DEF Phase
<1>17. p = <<>> => Workers = {}
  BY <1>15
<1> QED BY <1>1, <1>5, <1>7, <1>10, <1>11, <1>14, <1>15, <1>16, <1>17 DEF p, n

\* The phases that add the workers of an order back, each at its address.
LEMMA AddWorkersPlan ==
  ASSUME ConfigTyped, OneWorkerEach, FewWorkers, NEW order \in SetToSeqs(Workers)
  PROVE  LET p == AddWorkers(order)
         IN  /\ p \in Seq(PhaseOf) /\ Shape(p)
             /\ \A i \in 1..Len(p) : /\ p[i].role \in Workers
                                     /\ p[i].do \in {"record", "setup"}
                                     /\ p[i].do = "record" => p[i].ip = IpOf(p[i].role)
             /\ p # <<>> => p[1].do = "record"
<1> DEFINE n == Len(order)
           p == AddWorkers(order)
           At(i) == (i + 1) \div 2
           Rec(a) == Record(a, IpOf(a), "none")
<1>1. /\ n \in Nat /\ \A k \in 1..n : order[k] \in Workers
      /\ \A i, j \in 1..n : i # j => order[i] # order[j]
  BY OrdersAreWhole
<1>3. \A a, m : AddWorker(a, m)[1] = Record(a, m, "none") /\ AddWorker(a, m)[2] = Phase("setup", a)
  BY DEF AddWorker
<1>4. p = [i \in 1..2 * n |-> AddWorker(order[At(i)], IpOf(order[At(i)]))[2 - (i % 2)]]
  BY DEF AddWorkers
<1>5. ASSUME NEW i \in 1..2 * n
      PROVE  /\ At(i) \in 1..n
             /\ \/ i = 2 * At(i) - 1 /\ p[i] = Rec(order[At(i)])
                \/ i = 2 * At(i) /\ p[i] = Phase("setup", order[At(i)])
  <2>1. p[i] = AddWorker(order[At(i)], IpOf(order[At(i)]))[2 - (i % 2)]
    BY <1>4
  <2> HIDE DEF p
  <2>2. /\ At(i) \in 1..n
        /\ i % 2 = 1 => i = 2 * At(i) - 1 /\ 2 - (i % 2) = 1
        /\ i % 2 # 1 => i = 2 * At(i) /\ 2 - (i % 2) = 2
    BY <1>1, Halves
  <2> HIDE DEF At
  <2> QED BY <1>3, <2>1, <2>2
<1>7. Len(p) = 2 * n /\ DOMAIN p = 1..2 * n
  <2>1. 2 * n \in Nat
    BY <1>1
  <2> QED BY <1>4, <2>1
<1>8. ASSUME NEW a \in Workers
      PROVE  /\ Rec(a) \in PhaseOf /\ Phase("setup", a) \in PhaseOf
             /\ a \in Aliases /\ a \in Roles /\ IpOf(a) \in Machines
  <2>1. a \in Roles /\ Known(a) /\ a \in Aliases
    BY DEF Workers, Roles
  <2>2. IpOf(a) \in Machines
    BY <2>1, EntryTyped
  <2> QED BY <2>1, <2>2 DEF Phase, Record, PhaseOf, Profiles
<1> HIDE DEF p, At, n
<1>9. \A i \in 1..2 * n : p[i] \in PhaseOf
  BY <1>1, <1>5, <1>8 DEF n
<1>10. p \in Seq(PhaseOf)
  <2>1. p = [i \in 1..2 * n |-> p[i]] /\ 2 * n \in Nat
    BY <1>1, <1>4, <1>7 DEF n
  <2> QED BY <1>9, <2>1
<1>11. \A i \in 1..Len(p) : /\ p[i].role = order[At(i)] /\ p[i].do \in {"record", "setup"}
                            /\ p[i].do = "record" => p[i] = Rec(order[At(i)])
  BY <1>5, <1>7 DEF Phase, Record
<1>12. ASSUME NEW i \in 1..Len(p) PROVE p[i].role \in Workers
  <2>1. At(i) \in 1..n
    BY <1>5, <1>7
  <2> QED BY <2>1, <1>1, <1>11 DEF n
<1>13. ASSUME NEW i \in 1..Len(p), p[i].do = "record"
       PROVE  p[i].ip = IpOf(p[i].role) /\ p[i].ip \in Machines /\ p[i].profile \in Profiles
  <2>1. p[i].role = order[At(i)] /\ p[i] = Rec(order[At(i)]) /\ p[i].role \in Workers
    BY <1>11, <1>12, <1>13
  <2>2. p[i].ip = IpOf(p[i].role) /\ p[i].profile = "none"
    BY <2>1 DEF Record
  <2> QED BY <2>1, <2>2, <1>8 DEF Profiles
<1>14. \A i \in 1..Len(p) : Fits(p[i])
  BY <1>11, <1>13 DEF Fits
<1>15. ASSUME NEW i \in 1..Len(p), NEW j \in 1..Len(p), i < j
       PROVE  Precedes(p[i], p[j]) /\ (j = i + 1 => Leads(p[i], p[j]))
  <2>1. /\ At(i) \in 1..n /\ At(j) \in 1..n
        /\ \/ i = 2 * At(i) - 1 /\ p[i] = Rec(order[At(i)])
           \/ i = 2 * At(i) /\ p[i] = Phase("setup", order[At(i)])
        /\ \/ j = 2 * At(j) - 1 /\ p[j] = Rec(order[At(j)])
           \/ j = 2 * At(j) /\ p[j] = Phase("setup", order[At(j)])
    BY <1>5, <1>7
  <2>2. n \in Nat
    BY <1>1 DEF n
  <2>3. p[i].role \in Aliases /\ p[j].role \in Aliases /\ p[i].role # HeadRole /\ p[j].role # HeadRole
    BY <1>8, <1>12, SeedAssumption
  <2>4. ASSUME p[i].do = "record", p[j].do = "record"
        PROVE  p[i].role # p[j].role /\ p[i].ip # p[j].ip
    <3>1. i = 2 * At(i) - 1 /\ j = 2 * At(j) - 1
      BY <2>1, <2>4 DEF Phase
    <3>2. At(i) # At(j)
      BY <3>1, <1>15, <2>1, <2>2
    <3>3. p[i].role # p[j].role
      BY <1>1, <1>11, <2>1, <3>2 DEF n
    <3> QED BY <3>3, <2>4, <1>12, <1>13 DEF OneWorkerEach
  <2>5. Precedes(p[i], p[j])
    BY <2>3, <2>4, <1>11 DEF Precedes, Takes
  <2>6. ASSUME j = i + 1, p[j].do = "setup" PROVE p[i].do = "record" /\ p[i].role = p[j].role
    <3>1. j = 2 * At(j)
      BY <2>1, <2>6 DEF Record
    <3>2. i = 2 * At(i) - 1 /\ At(i) = At(j)
      BY <3>1, <2>1, <2>2, <2>6
    <3>3. p[i] = Rec(order[At(i)])
      BY <3>2, <2>1, <2>2
    <3> QED BY <3>2, <3>3, <1>11 DEF Record
  <2>7. ASSUME j = i + 1 PROVE Leads(p[i], p[j])
    BY <2>6, <2>7, <1>11 DEF Leads
  <2> QED BY <2>5, <2>7
<1>16. Shape(p)
  <2>1. \A i, j \in 1..Len(p) : j = i + 1 => i < j
    OBVIOUS
  <2> QED BY <1>14, <1>15, <2>1 DEF Shape
<1>17. p # <<>> => p[1].do = "record"
  <2> SUFFICES ASSUME p # <<>> PROVE p[1].do = "record"
    OBVIOUS
  <2>1. 1 \in 1..2 * n
    BY <1>7, <1>10
  <2>2. At(1) \in 1..n /\ 1 # 2 * At(1)
    BY <1>5, <2>1
  <2>3. p[1] = Rec(order[At(1)])
    BY <1>5, <2>1, <2>2
  <2> QED BY <2>3 DEF Record
<1> QED BY <1>10, <1>11, <1>12, <1>13, <1>16, <1>17 DEF p

\* What follows the plan of the workers may rely on their being gone.
LEMMA JoinedHolds ==
  ASSUME NEW p \in Seq(PhaseOf), NEW q \in Seq(PhaseOf), PlanHolds(p),
         \A i \in 1..Len(q) :
           /\ q[i].do = "teardown" => Known(q[i].role)
           /\ q[i].do = "record" => RecordHolds(q[i].role, q[i].ip)
           /\ q[i].do \in Takes /\ q[i].role = HeadRole =>
                \A a \in Workers : \E j \in 1..Len(p) : p[j].do = "forget" /\ p[j].role = a,
         q # <<>> => q[1].do # "setup"
  PROVE  PlanHolds(p \o q)
<1> DEFINE r == p \o q
<1>1. /\ r \in Seq(PhaseOf) /\ Len(r) = Len(p) + Len(q) /\ Len(p) \in Nat /\ Len(q) \in Nat
      /\ \A i \in 1..Len(r) : /\ i <= Len(p) => i \in 1..Len(p) /\ r[i] = p[i]
                              /\ i > Len(p) => i - Len(p) \in 1..Len(q) /\ r[i] = q[i - Len(p)]
  OBVIOUS
<1>2. \A j \in 1..Len(p) : r[j] = p[j]
  OBVIOUS
<1> HIDE DEF r
<1> SUFFICES ASSUME NEW i \in 1..Len(r)
             PROVE  /\ r[i].do = "teardown" => Known(r[i].role)
                    /\ r[i].do = "record" => RecordHolds(r[i].role, r[i].ip)
                    /\ r[i].do \in Takes /\ r[i].role = HeadRole =>
                         \A a \in Workers : \E j \in 1..i - 1 : r[j].do = "forget" /\ r[j].role = a
                    /\ i = 1 /\ r[i].do = "setup" => Known(r[i].role)
  BY DEF PlanHolds, r
<1>3. CASE i <= Len(p)
  <2>1. i \in 1..Len(p) /\ r[i] = p[i] /\ \A j \in 1..i - 1 : r[j] = p[j]
    BY <1>1, <1>2, <1>3
  <2> QED BY <2>1 DEF PlanHolds
<1>4. CASE i > Len(p)
  <2>1. i - Len(p) \in 1..Len(q) /\ r[i] = q[i - Len(p)]
    BY <1>1, <1>4
  <2>2. ASSUME r[i].do \in Takes, r[i].role = HeadRole, NEW a \in Workers
        PROVE  \E j \in 1..i - 1 : r[j].do = "forget" /\ r[j].role = a
    <3>1. PICK j \in 1..Len(p) : p[j].do = "forget" /\ p[j].role = a
      BY <2>1, <2>2
    <3>2. j \in 1..i - 1 /\ r[j] = p[j]
      BY <1>1, <1>2, <1>4
    <3> QED BY <3>1, <3>2
  <2>3. i = 1 => r[i].do # "setup"
    <3> SUFFICES ASSUME i = 1 PROVE r[i].do # "setup"
      OBVIOUS
    <3>1. Len(p) = 0 /\ q # <<>>
      BY <1>1, <1>4, <2>1
    <3> QED BY <2>1, <3>1
  <2>4. /\ r[i].do = "teardown" => Known(r[i].role)
        /\ r[i].do = "record" => RecordHolds(r[i].role, r[i].ip)
    BY <2>1
  <2> QED BY <2>2, <2>3, <2>4
<1> QED BY <1>1, <1>3, <1>4

\* A plan that can be begun.
Begins(p) ==
  /\ p \in Seq(PhaseOf) /\ p # <<>> /\ Shape(p) /\ PlanHolds(p)
  /\ p[1].do \notin {"setup", "destroy", "forget"}

LEMMA AddHeadBegins ==
  ASSUME SeedAssumption, NEW m \in Machines, NEW profile \in {"onprem", "aws"},
         ValidatedHead(m, profile)
  PROVE  Begins(AddHead(m, profile))
<1> DEFINE x == Record(HeadRole, m, profile)
           y == Phase("setup", HeadRole)
           z == Phase("apply", HeadRole)
<1>1. /\ x \in PhaseOf /\ y \in PhaseOf /\ z \in PhaseOf
      /\ x.do = "record" /\ y.do = "setup" /\ z.do = "apply"
      /\ x.role = HeadRole /\ y.role = HeadRole /\ z.role = HeadRole
      /\ x.ip = m /\ x.profile \in Profiles
  BY DEF Record, Phase, PhaseOf, Roles, Profiles
<1> HIDE DEF x, y, z
<1>2. /\ Fits(x) /\ Fits(y) /\ Fits(z) /\ Leads(x, y) /\ Precedes(x, y)
      /\ Precedes(z, x) /\ Precedes(z, y)
  BY <1>1 DEF Fits, Leads, Precedes, Takes
<1>3. <<x, y>> \in Seq(PhaseOf) /\ Shape(<<x, y>>)
  BY <1>1, <1>2, TwoPhases
<1>4. RecordHolds(HeadRole, m)
  BY DEF RecordHolds, ValidatedHead
<1>5. PlanHolds(<<x, y>>)
  <2> DEFINE p == <<x, y>>
  <2>1. Len(p) = 2 /\ p[1] = x /\ p[2] = y
    OBVIOUS
  <2> HIDE DEF p
  <2>2. \A i \in 1..Len(p) : i = 1 \/ i = 2
    BY <2>1
  <2>3. PlanHolds(p)
    BY <1>1, <1>4, <2>1, <2>2 DEF PlanHolds, Takes
  <2> QED BY <2>3 DEF p
<1>6. CASE profile = "aws"
  <2>1. AddHead(m, profile) = <<z>> \o <<x, y>>
    BY <1>6 DEF AddHead, x, y, z
  <2>2. <<z>> \in Seq(PhaseOf) /\ Len(<<z>>) = 1 /\ <<z>>[1] = z
    BY <1>1
  <2>3. Len(<<x, y>>) = 2 /\ <<x, y>>[1] = x /\ <<x, y>>[2] = y
    OBVIOUS
  <2>4. Shape(<<z>>) /\ PlanHolds(<<z>>)
    BY <1>1, <1>2, <2>2 DEF Shape, PlanHolds, Takes
  <2>5. \A i \in 1..Len(<<z>>) : \A j \in 1..Len(<<x, y>>) : Precedes(<<z>>[i], <<x, y>>[j])
    <3>1. \A i \in 1..1 : i = 1
      OBVIOUS
    <3>2. \A j \in 1..2 : j = 1 \/ j = 2
      OBVIOUS
    <3> QED BY <1>2, <2>2, <2>3, <3>1, <3>2
  <2>6. \A i \in 1..Len(<<x, y>>) : <<x, y>>[i] = x \/ <<x, y>>[i] = y
    <3>1. \A j \in 1..2 : j = 1 \/ j = 2
      OBVIOUS
    <3> QED BY <2>3, <3>1
  <2>7. <<z>> \o <<x, y>> \in Seq(PhaseOf) /\ Shape(<<z>> \o <<x, y>>)
    BY <1>1, <1>3, <2>2, <2>3, <2>4, <2>5, JoinedPlans
  <2>8. PlanHolds(<<z>> \o <<x, y>>)
    BY <1>1, <1>3, <1>4, <2>2, <2>3, <2>4, <2>6, JoinedHolds DEF Takes
  <2>9. (<<z>> \o <<x, y>>)[1] = z /\ <<z>> \o <<x, y>> # <<>>
    OBVIOUS
  <2> QED BY <1>1, <2>1, <2>7, <2>8, <2>9 DEF Begins
<1>7. CASE profile # "aws"
  <2>1. AddHead(m, profile) = <<>> \o <<x, y>>
    BY <1>7 DEF AddHead, x, y
  <2>2. <<>> \o <<x, y>> = <<x, y>>
    OBVIOUS
  <2>3. <<x, y>>[1] = x /\ <<x, y>> # <<>>
    OBVIOUS
  <2> QED BY <1>1, <1>3, <1>5, <2>1, <2>2, <2>3 DEF Begins
<1> QED BY <1>6, <1>7

LEMMA AddWorkerBegins ==
  ASSUME SeedAssumption, NEW a \in Aliases, NEW m \in Machines, ValidatedWorker(a, m)
  PROVE  Begins(AddWorker(a, m))
<1> DEFINE x == Record(a, m, "none")
           y == Phase("setup", a)
           p == <<x, y>>
<1>1. /\ x \in PhaseOf /\ y \in PhaseOf /\ x.do = "record" /\ y.do = "setup"
      /\ x.role = a /\ y.role = a /\ x.ip = m /\ x.profile \in Profiles /\ a # HeadRole
  BY SeedAssumption DEF Record, Phase, PhaseOf, Roles, Profiles
<1>2. AddWorker(a, m) = p
  BY DEF AddWorker
<1>3. Len(p) = 2 /\ p[1] = x /\ p[2] = y /\ p # <<>>
  OBVIOUS
<1> HIDE DEF x, y
<1>4. Fits(x) /\ Fits(y) /\ Leads(x, y) /\ Precedes(x, y)
  BY <1>1 DEF Fits, Leads, Precedes, Takes
<1>5. p \in Seq(PhaseOf) /\ Shape(p)
  BY <1>1, <1>4, TwoPhases
<1>6. RecordHolds(a, m)
  <2>1. ~Known(a) => a \notin WorkersAt(m)
    BY DEF WorkersAt, Workers
  <2> QED BY <1>1, <2>1 DEF RecordHolds, ValidatedWorker
<1> HIDE DEF p
<1>7. \A i \in 1..Len(p) : i = 1 \/ i = 2
  BY <1>3
<1>8. PlanHolds(p)
  <2> SUFFICES ASSUME NEW i \in 1..Len(p)
               PROVE  /\ p[i].do = "teardown" => Known(p[i].role)
                      /\ p[i].do = "record" => RecordHolds(p[i].role, p[i].ip)
                      /\ p[i].role # HeadRole
                      /\ i = 1 => p[i].do # "setup"
    BY DEF PlanHolds
  <2>1. CASE i = 1
    BY <1>1, <1>3, <2>1, <1>6
  <2>2. CASE i = 2
    BY <1>1, <1>3, <2>2, <1>6
  <2> QED BY <1>7, <2>1, <2>2
<1> QED BY <1>1, <1>2, <1>3, <1>5, <1>8 DEF Begins

LEMMA DelWorkerBegins ==
  ASSUME SeedAssumption, NEW a \in Aliases, Known(a)
  PROVE  Begins(DelWorker(a))
<1> DEFINE x == Phase("teardown", a)
           y == Phase("forget", a)
           p == <<x, y>>
<1>1. /\ x \in PhaseOf /\ y \in PhaseOf /\ x.do = "teardown" /\ y.do = "forget"
      /\ x.role = a /\ y.role = a /\ a # HeadRole
  BY SeedAssumption DEF Phase, PhaseOf, Roles
<1>2. DelWorker(a) = p
  BY DEF DelWorker
<1>3. Len(p) = 2 /\ p[1] = x /\ p[2] = y /\ p # <<>>
  OBVIOUS
<1> HIDE DEF x, y
<1>4. Fits(x) /\ Fits(y) /\ Leads(x, y) /\ Precedes(x, y)
  BY <1>1 DEF Fits, Leads, Precedes, Takes
<1>5. p \in Seq(PhaseOf) /\ Shape(p)
  BY <1>1, <1>4, TwoPhases
<1> HIDE DEF p
<1>6. \A i \in 1..Len(p) : i = 1 \/ i = 2
  BY <1>3
<1>7. PlanHolds(p)
  <2> SUFFICES ASSUME NEW i \in 1..Len(p)
               PROVE  /\ p[i].do = "teardown" => Known(p[i].role)
                      /\ p[i].do = "record" => RecordHolds(p[i].role, p[i].ip)
                      /\ p[i].role # HeadRole
                      /\ i = 1 => p[i].do # "setup"
    BY DEF PlanHolds
  <2>1. CASE i = 1
    BY <1>1, <1>3, <2>1
  <2>2. CASE i = 2
    BY <1>1, <1>3, <2>2
  <2> QED BY <1>6, <2>1, <2>2
<1> QED BY <1>1, <1>2, <1>3, <1>5, <1>7 DEF Begins

\* Short sequences put together.
LEMMA SameSequence ==
  ASSUME NEW S, NEW s \in Seq(S), NEW t \in Seq(S), Len(s) = Len(t),
         \A i \in 1..Len(s) : s[i] = t[i]
  PROVE  s = t
OBVIOUS
LEMMA Joined ==
  ASSUME NEW S, NEW a \in Seq(S), NEW b \in Seq(S)
  PROVE  /\ a \o b \in Seq(S) /\ Len(a \o b) = Len(a) + Len(b)
         /\ \A i \in 1..Len(a \o b) : (a \o b)[i] = IF i <= Len(a) THEN a[i] ELSE b[i - Len(a)]
OBVIOUS
LEMMA OneAndOne ==
  ASSUME NEW S, NEW x \in S, NEW y \in S
  PROVE  <<x>> \o <<y>> = <<x, y>>
<1> DEFINE a == <<x>>  b == <<y>>  c == <<x, y>>
<1>1. /\ a \in Seq(S) /\ b \in Seq(S) /\ c \in Seq(S) /\ Len(a) = 1 /\ Len(b) = 1 /\ Len(c) = 2
      /\ a[1] = x /\ b[1] = y /\ c[1] = x /\ c[2] = y
  OBVIOUS
<1> HIDE DEF a, b, c
<1>2. a \o b \in Seq(S) /\ Len(a \o b) = 2 /\ (a \o b)[1] = x /\ (a \o b)[2] = y
  <2>1. /\ a \o b \in Seq(S) /\ Len(a \o b) = Len(a) + Len(b)
        /\ \A i \in 1..Len(a \o b) : (a \o b)[i] = IF i <= Len(a) THEN a[i] ELSE b[i - Len(a)]
    BY <1>1, Joined
  <2> DEFINE r == a \o b
  <2> HIDE DEF r
  <2> QED BY <1>1, <2>1 DEF r
<1>3. \A i \in 1..2 : i = 1 \/ i = 2
  OBVIOUS
<1>4. a \o b = c
  BY <1>1, <1>2, <1>3, SameSequence
<1> QED BY <1>4 DEF a, b, c
LEMMA TwoAndOne ==
  ASSUME NEW S, NEW x \in S, NEW y \in S, NEW z \in S
  PROVE  <<x, y>> \o <<z>> = <<x, y, z>>
<1> DEFINE a == <<x, y>>  b == <<z>>  c == <<x, y, z>>
<1>1. /\ a \in Seq(S) /\ b \in Seq(S) /\ c \in Seq(S) /\ Len(a) = 2 /\ Len(b) = 1 /\ Len(c) = 3
      /\ a[1] = x /\ a[2] = y /\ b[1] = z /\ c[1] = x /\ c[2] = y /\ c[3] = z
  OBVIOUS
<1> HIDE DEF a, b, c
<1>2. /\ a \o b \in Seq(S) /\ Len(a \o b) = 3
      /\ (a \o b)[1] = x /\ (a \o b)[2] = y /\ (a \o b)[3] = z
  <2>1. /\ a \o b \in Seq(S) /\ Len(a \o b) = Len(a) + Len(b)
        /\ \A i \in 1..Len(a \o b) : (a \o b)[i] = IF i <= Len(a) THEN a[i] ELSE b[i - Len(a)]
    BY <1>1, Joined
  <2> DEFINE r == a \o b
  <2> HIDE DEF r
  <2> QED BY <1>1, <2>1 DEF r
<1>3. \A i \in 1..3 : i = 1 \/ i = 2 \/ i = 3
  OBVIOUS
<1>4. a \o b = c
  BY <1>1, <1>2, <1>3, SameSequence
<1> QED BY <1>4 DEF a, b, c

\* Taking the head down, with its host if terraform made it.
LEMMA DelHeadPlan ==
  /\ DelHead \in Seq(PhaseOf) /\ Shape(DelHead) /\ DelHead # <<>> /\ DelHead[1].do = "teardown"
  /\ \A i \in 1..Len(DelHead) : DelHead[i].role = HeadRole /\ DelHead[i].do \in Takes
<1> DEFINE x == Phase("teardown", HeadRole)
           y == Phase("destroy", HeadRole)
           z == Phase("forget", HeadRole)
<1>1. /\ x \in PhaseOf /\ y \in PhaseOf /\ z \in PhaseOf
      /\ x.do = "teardown" /\ y.do = "destroy" /\ z.do = "forget"
      /\ x.role = HeadRole /\ y.role = HeadRole /\ z.role = HeadRole
  BY DEF Phase, PhaseOf, Roles
<1>2. \/ DelHead = <<x>> \o <<y>> \o <<z>>
      \/ DelHead = <<x>> \o <<>> \o <<z>>
  BY DEF DelHead
<1> HIDE DEF x, y, z
<1>3. /\ Fits(x) /\ Fits(y) /\ Fits(z) /\ Leads(x, y) /\ Leads(y, z) /\ Leads(x, z)
      /\ Precedes(x, y) /\ Precedes(y, z) /\ Precedes(x, z)
  BY <1>1 DEF Fits, Leads, Precedes, Takes
<1>4. CASE DelHead = <<x>> \o <<y>> \o <<z>>
  <2> DEFINE p == <<x, y, z>>
  <2>1. p \in Seq(PhaseOf) /\ Len(p) = 3 /\ p[1] = x /\ p[2] = y /\ p[3] = z /\ p # <<>>
    BY <1>1
  <2>2. DelHead = p
    <3>1. <<x>> \o <<y>> = <<x, y>>
      BY <1>1, OneAndOne
    <3>2. <<x, y>> \o <<z>> = <<x, y, z>>
      BY <1>1, TwoAndOne
    <3> QED BY <1>4, <3>1, <3>2
  <2> HIDE DEF p
  <2>3. \A i \in 1..Len(p) : i = 1 \/ i = 2 \/ i = 3
    BY <2>1
  <2>4. Shape(p)
    BY <1>3, <2>1, <2>3 DEF Shape
  <2>5. \A i \in 1..Len(p) : p[i].role = HeadRole /\ p[i].do \in Takes
    BY <1>1, <2>1, <2>3 DEF Takes
  <2> QED BY <1>1, <2>1, <2>2, <2>4, <2>5
<1>5. CASE DelHead = <<x>> \o <<>> \o <<z>>
  <2> DEFINE p == <<x, z>>
  <2>1. p \in Seq(PhaseOf) /\ Len(p) = 2 /\ p[1] = x /\ p[2] = z /\ p # <<>>
    BY <1>1
  <2>2. DelHead = p
    <3>1. <<x>> \o <<>> = <<x>>
      OBVIOUS
    <3>2. <<x>> \o <<z>> = <<x, z>>
      BY <1>1, OneAndOne
    <3> QED BY <1>5, <3>1, <3>2
  <2> HIDE DEF p
  <2>3. \A i \in 1..Len(p) : i = 1 \/ i = 2
    BY <2>1
  <2>4. Shape(p)
    BY <1>3, <2>1, <2>3 DEF Shape
  <2>5. \A i \in 1..Len(p) : p[i].role = HeadRole /\ p[i].do \in Takes
    BY <1>1, <2>1, <2>3 DEF Takes
  <2> QED BY <1>1, <2>1, <2>2, <2>4, <2>5
<1> QED BY <1>2, <1>4, <1>5

LEMMA DelHeadBegins ==
  ASSUME Known(HeadRole), Workers = {}
  PROVE  Begins(DelHead)
<1>1. PlanHolds(DelHead)
  BY DelHeadPlan DEF PlanHolds, Takes
<1> QED BY <1>1, DelHeadPlan DEF Begins

\* What the plan of the workers alone may rely on.
LEMMA DelWorkersHold ==
  ASSUME SeedAssumption, ConfigTyped, FewWorkers, NEW order \in SetToSeqs(Workers)
  PROVE  PlanHolds(DelWorkers(order))
<1> DEFINE p == DelWorkers(order)
<1>1. /\ \A i \in 1..Len(p) : p[i].role \in Workers /\ p[i].do \in {"teardown", "forget"}
  BY DelWorkersPlan
<1>2. \A a \in Workers : Known(a) /\ a # HeadRole
  BY SeedAssumption DEF Workers
<1> HIDE DEF p
<1>3. PlanHolds(p)
  BY <1>1, <1>2 DEF PlanHolds
<1> QED BY <1>3 DEF p

LEMMA DelAllBegins ==
  ASSUME SeedAssumption, ConfigTyped, FewWorkers, NEW order \in SetToSeqs(Workers),
         DelAll(order) # <<>>
  PROVE  Begins(DelAll(order))
<1> DEFINE p == DelWorkers(order)
           q == IF Known(HeadRole) THEN DelHead ELSE <<>>
<1>1. /\ p \in Seq(PhaseOf) /\ Shape(p) /\ PlanHolds(p)
      /\ \A i \in 1..Len(p) : p[i].role \in Workers /\ p[i].do \in {"teardown", "forget"}
      /\ p # <<>> => p[1].do = "teardown"
      /\ \A a \in Workers : \E i \in 1..Len(p) : p[i].do = "forget" /\ p[i].role = a
  BY DelWorkersPlan, DelWorkersHold
<1>2. /\ q \in Seq(PhaseOf) /\ Shape(q) /\ (q # <<>> => q[1].do = "teardown" /\ Known(HeadRole))
      /\ \A i \in 1..Len(q) : q[i].role = HeadRole /\ q[i].do \in Takes
  BY DelHeadPlan, EmptyPlan
<1>3. DelAll(order) = p \o q
  BY DEF DelAll
<1> HIDE DEF p, q
<1>4. \A a \in Workers : a # HeadRole
  BY SeedAssumption DEF Workers
<1>5. \A i \in 1..Len(p) : \A j \in 1..Len(q) : Precedes(p[i], q[j])
  BY <1>1, <1>2, <1>4 DEF Precedes
<1>6. p \o q \in Seq(PhaseOf) /\ Shape(p \o q)
  BY <1>1, <1>2, <1>5, JoinedPlans
<1>7. \A i \in 1..Len(q) : q # <<>>
  BY <1>2
<1>8. PlanHolds(p \o q)
  <2>1. \A i \in 1..Len(q) : /\ q[i].do = "teardown" => Known(q[i].role)
                             /\ q[i].do # "record"
    BY <1>2, <1>7 DEF Takes
  <2> QED BY <1>1, <1>2, <2>1, JoinedHolds
<1>9. (p \o q)[1].do = "teardown"
  <2>1. CASE p # <<>>
    BY <1>1, <1>2, <2>1
  <2>2. CASE p = <<>>
    <3>1. p \o q = q /\ q # <<>>
      BY <1>2, <1>3, <2>2
    <3> QED BY <3>1, <1>2
  <2> QED BY <2>1, <2>2
<1> QED BY <1>3, <1>6, <1>8, <1>9 DEF Begins

\* Taking the head down and setting it up again, as it was.
HeadAgain ==
  <<Phase("teardown", HeadRole), Phase("forget", HeadRole),
    Record(HeadRole, IpOf(HeadRole), config[HeadRole].profile), Phase("setup", HeadRole)>>

LEMMA HeadAgainPlan ==
  ASSUME ConfigTyped, Known(HeadRole)
  PROVE  /\ HeadAgain \in Seq(PhaseOf) /\ Shape(HeadAgain) /\ HeadAgain # <<>>
         /\ HeadAgain[1].do = "teardown"
         /\ \A i \in 1..Len(HeadAgain) :
              /\ HeadAgain[i].role = HeadRole
              /\ HeadAgain[i].do \in {"teardown", "forget", "record", "setup"}
<1> DEFINE x == Phase("teardown", HeadRole)
           y == Phase("forget", HeadRole)
           z == Record(HeadRole, IpOf(HeadRole), config[HeadRole].profile)
           w == Phase("setup", HeadRole)
           p == <<x, y, z, w>>
<1>1. /\ x \in PhaseOf /\ y \in PhaseOf /\ w \in PhaseOf
      /\ x.do = "teardown" /\ y.do = "forget" /\ z.do = "record" /\ w.do = "setup"
      /\ x.role = HeadRole /\ y.role = HeadRole /\ z.role = HeadRole /\ w.role = HeadRole
  BY DEF Phase, Record, PhaseOf, Roles
<1>2. z.ip \in Machines /\ z.profile \in Profiles /\ z \in PhaseOf
  <2>1. IpOf(HeadRole) \in Machines /\ config[HeadRole].profile \in Profiles
    BY EntryTyped DEF Roles
  <2> QED BY <2>1 DEF Record, PhaseOf, Roles
<1>3. HeadAgain = p
  BY DEF HeadAgain
<1>4. p \in Seq(PhaseOf) /\ Len(p) = 4 /\ p[1] = x /\ p[2] = y /\ p[3] = z /\ p[4] = w /\ p # <<>>
  BY <1>1, <1>2
<1> HIDE DEF x, y, z, w, p
<1>5. /\ Fits(x) /\ Fits(y) /\ Fits(z) /\ Fits(w) /\ Leads(x, y) /\ Leads(y, z) /\ Leads(z, w)
      /\ Precedes(x, y) /\ Precedes(x, z) /\ Precedes(x, w) /\ Precedes(y, z) /\ Precedes(y, w)
      /\ Precedes(z, w)
  BY <1>1, <1>2 DEF Fits, Leads, Precedes, Takes
<1>6. \A i \in 1..Len(p) : i = 1 \/ i = 2 \/ i = 3 \/ i = 4
  BY <1>4
<1>7. Shape(p)
  BY <1>4, <1>5, <1>6 DEF Shape
<1>8. \A i \in 1..Len(p) : /\ p[i].role = HeadRole
                           /\ p[i].do \in {"teardown", "forget", "record", "setup"}
  BY <1>1, <1>4, <1>6
<1> QED BY <1>1, <1>3, <1>4, <1>7, <1>8

LEMMA RestartBegins ==
  ASSUME SeedAssumption, ConfigTyped, OneWorkerEach, FewWorkers, NEW order \in SetToSeqs(Workers),
         Restart(order) # <<>>
  PROVE  Begins(Restart(order))
<1> DEFINE p == DelWorkers(order)
           q == IF Known(HeadRole) THEN HeadAgain ELSE <<>>
           r == AddWorkers(order)
<1>1. /\ p \in Seq(PhaseOf) /\ Shape(p) /\ PlanHolds(p)
      /\ \A i \in 1..Len(p) : p[i].role \in Workers /\ p[i].do \in {"teardown", "forget"}
      /\ p # <<>> => p[1].do = "teardown"
      /\ \A a \in Workers : \E i \in 1..Len(p) : p[i].do = "forget" /\ p[i].role = a
      /\ p = <<>> => Workers = {}
  BY DelWorkersPlan, DelWorkersHold
<1>2. /\ q \in Seq(PhaseOf) /\ Shape(q) /\ (q # <<>> => q[1].do = "teardown" /\ Known(HeadRole))
      /\ \A i \in 1..Len(q) : /\ q[i].role = HeadRole
                              /\ q[i].do \in {"teardown", "forget", "record", "setup"}
  BY HeadAgainPlan, EmptyPlan
<1>3. /\ r \in Seq(PhaseOf) /\ Shape(r) /\ (r # <<>> => r[1].do = "record")
      /\ \A i \in 1..Len(r) : /\ r[i].role \in Workers
                              /\ r[i].do \in {"record", "setup"}
                              /\ r[i].do = "record" => r[i].ip = IpOf(r[i].role)
  BY AddWorkersPlan
<1>4. Restart(order) = p \o q \o r
  BY DEF Restart, HeadAgain
<1> HIDE DEF p, q, r
<1>5. \A a \in Workers : a # HeadRole /\ Known(a)
  BY SeedAssumption DEF Workers
<1>6. \A i \in 1..Len(p) : \A j \in 1..Len(q) : Precedes(p[i], q[j])
  BY <1>1, <1>2, <1>5 DEF Precedes
<1>7. p \o q \in Seq(PhaseOf) /\ Shape(p \o q)
  BY <1>1, <1>2, <1>6, JoinedPlans
<1>8. \A i \in 1..Len(q) : q # <<>>
  BY <1>2
<1>9. PlanHolds(p \o q)
  <2>1. \A i \in 1..Len(q) : /\ q[i].do = "teardown" => Known(q[i].role)
                             /\ q[i].do = "record" => RecordHolds(q[i].role, q[i].ip)
    BY <1>2, <1>8 DEF RecordHolds
  <2> QED BY <1>1, <1>2, <2>1, JoinedHolds
<1> DEFINE s == p \o q
<1>10. \A i \in 1..Len(s) : \/ i \in 1..Len(p) /\ s[i] = p[i]
                            \/ i - Len(p) \in 1..Len(q) /\ s[i] = q[i - Len(p)]
  BY <1>1, <1>2
<1>11. s \in Seq(PhaseOf) /\ Shape(s) /\ PlanHolds(s)
  BY <1>7, <1>9
<1>12. s # <<>> => s[1].do = "teardown"
  <2>1. CASE p # <<>>
    <3>1. s[1] = p[1]
      BY <1>1, <1>2, <2>1
    <3> QED BY <1>1, <2>1, <3>1
  <2>2. CASE p = <<>>
    <3>1. s = q
      BY <1>2, <2>2
    <3> QED BY <3>1, <1>2
  <2> QED BY <2>1, <2>2
<1>13. p \o q \o r = s \o r /\ (s = <<>> => p = <<>>)
  BY <1>1, <1>2
<1> HIDE DEF s
<1>14. \A i \in 1..Len(s) : \A j \in 1..Len(r) : Precedes(s[i], r[j])
  <2> SUFFICES ASSUME NEW i \in 1..Len(s), NEW j \in 1..Len(r) PROVE Precedes(s[i], r[j])
    OBVIOUS
  <2>1. s[i].do = "record" => s[i].role = HeadRole
    BY <1>1, <1>2, <1>10
  <2>2. r[j].role # HeadRole /\ r[j].do \in {"record", "setup"}
    BY <1>3, <1>5
  <2> QED BY <2>1, <2>2 DEF Precedes, Takes
<1>15. s \o r \in Seq(PhaseOf) /\ Shape(s \o r)
  BY <1>3, <1>11, <1>14, JoinedPlans
<1>16. PlanHolds(s \o r)
  <2>1. \A i \in 1..Len(r) : /\ r[i].do \notin Takes
                             /\ r[i].do = "record" => RecordHolds(r[i].role, r[i].ip)
    BY <1>3, <1>5 DEF RecordHolds, Takes
  <2>2. \A i \in 1..Len(r) : r[i].do # "teardown"
    BY <1>3
  <2>3. r # <<>> => r[1].do # "setup"
    BY <1>3
  <2> QED BY <1>3, <1>11, <2>1, <2>2, <2>3, JoinedHolds
<1>17. (s \o r)[1].do = "teardown"
  <2>1. CASE s # <<>>
    <3>1. (s \o r)[1] = s[1]
      BY <1>3, <1>11, <2>1
    <3> QED BY <3>1, <2>1, <1>12
  <2>2. CASE s = <<>>
    <3>1. Workers = {}
      BY <2>2, <1>1, <1>13
    <3>2. Len(r) \in Nat /\ ~(1 \in 1..Len(r))
      BY <1>3, <3>1
    <3>3. r = <<>>
      BY <3>2, <1>3
    <3> QED BY <2>2, <3>3, <1>4, <1>13
  <2> QED BY <2>1, <2>2
<1> QED BY <1>4, <1>13, <1>15, <1>16, <1>17 DEF Begins

\* Whatever command is begun, with the file in order.
LEMMA CommandsBegin ==
  ASSUME SeedAssumption, ConfigTyped, OneWorkerEach, FewWorkers, Starting
  PROVE  \E p : Begins(p) /\ Starts(p)
<1>1. ASSUME NEW m \in Machines, NEW profile \in {"onprem", "aws"}, StartAddHead(m, profile)
      PROVE  \E p : Begins(p) /\ Starts(p)
  BY <1>1, AddHeadBegins DEF StartAddHead
<1>2. ASSUME NEW m \in Machines, NEW a \in Aliases, StartAddWorker(a, m)
      PROVE  \E p : Begins(p) /\ Starts(p)
  BY <1>2, AddWorkerBegins DEF StartAddWorker
<1>3. ASSUME NEW a \in Aliases, StartDelWorker(a)
      PROVE  \E p : Begins(p) /\ Starts(p)
  BY <1>3, DelWorkerBegins DEF StartDelWorker
<1>4. CASE StartDelHead
  BY <1>4, DelHeadBegins DEF StartDelHead
<1>5. CASE StartDelAll
  BY <1>5, DelAllBegins DEF StartDelAll
<1>6. CASE StartRestart
  BY <1>6, RestartBegins DEF StartRestart
<1> QED BY <1>1, <1>2, <1>3, <1>4, <1>5, <1>6 DEF Starting

-----------------------------------------------------------------------------
(* The inductive invariant *)

Kinds == {"none", "server", "agent"}
Ways == {"setup", "teardown"}
Servers == {m \in Machines : k3s[m].kind = "server"}

TypeInv ==
  /\ ConfigTyped /\ FewWorkers
  /\ installed \in [Machines -> SUBSET Names]
  /\ k3s \in [Machines -> [kind : Kinds, cluster : 0..made]]
  /\ secrets \in [Machines -> [token : 0..made, address : BOOLEAN]]
  /\ join \in [Machines -> [timer : BOOLEAN, script : {"idle", "install", "remove"}, token : 0..made]]
  /\ cg \in [plan : Seq(PhaseOf), role : Roles \cup {Nothing}, way : {"none"} \cup Ways,
             ops : Seq(Operator), at : {"do", "rest", "record"}, direct : BOOLEAN, token : 0..made]
  /\ runs \in 0..MaxRuns /\ troubles \in 0..MaxTrouble
  /\ made \in Nat /\ made <= runs
  /\ late \subseteq Machines

\* The file and the machines: what stands on a machine is of a role recorded at
\* its address, the server of the head, an agent or a join of a worker elsewhere.
StepsOfEntries ==
  \A m \in Machines : \A n \in installed[m] : \E a \in Roles : Known(a) /\ IpOf(a) = m /\ n \in StepsOf(a)
DoneOfEntries == \A a \in Roles : Known(a) => config[a].done \subseteq StepsOf(a)
ServerOfHead == \A m \in Machines : k3s[m].kind = "server" => Known(HeadRole) /\ IpOf(HeadRole) = m
Joins(m) == k3s[m].kind = "agent" \/ join[m].timer \/ join[m].script = "install"
JoinsOfWorkers == \A m \in Machines \ late : Joins(m) => \E a \in WorkersAt(m) : ~OnHead(a)

\* A published token is that of the server beside it, and so is the one an agent
\* joined with or is about to join with.
TokensOfServers ==
  \A m \in Machines : secrets[m].token # 0 => k3s[m].kind = "server" /\ k3s[m].cluster = secrets[m].token
TokensOfAgents ==
  \A m \in Machines \ late :
    /\ k3s[m].kind = "agent" => k3s[m].cluster \in Clusters
    /\ join[m].script = "install" => join[m].token \in Clusters

FileInv ==
  /\ OneWorkerEach /\ StepsOfEntries /\ DoneOfEntries /\ ServerOfHead /\ JoinsOfWorkers
  /\ TokensOfServers /\ TokensOfAgents

\* Nothing of a role is left on its machine.
NoJoinLeft(m) == ~join[m].timer /\ join[m].script # "install"
Elsewhere(a) == a # HeadRole /\ ~OnHead(a) /\ IpOf(a) \notin late
TornDown(a) ==
  Known(a) =>
    /\ installed[IpOf(a)] \cap StepsOf(a) = {}
    /\ config[a].done = {}
    /\ a = HeadRole => k3s[IpOf(a)].kind # "server" /\ secrets[IpOf(a)].token = 0
    /\ Elsewhere(a) => k3s[IpOf(a)].kind # "agent" /\ NoJoinLeft(IpOf(a))

\* The operators of a teardown that have begun, and those that are through.
Left == NamesOf(cg.ops)
Undone(n) == n \notin Left \/ (Op1.name = n /\ cg.at # "do")
Finished(n) == n \notin Left \/ (Op1.name = n /\ cg.at = "record")
Tearing ==
  /\ \A n \in installed[Host] \cap StepsOf(cg.role) : ~Undone(n)
  /\ config[cg.role].done \subseteq Left
  /\ cg.role = HeadRole =>
       /\ Undone("ControlPlaneDetails") => secrets[Host].token = 0
       /\ Undone("K3sServer") => k3s[Host].kind # "server"
  /\ Elsewhere(cg.role) =>
       /\ Undone("JoinCluster") => k3s[Host].kind # "agent"
       /\ Finished("JoinCluster") => NoJoinLeft(Host)
SettingUp ==
  /\ "JoinCluster" \in Left /\ cg.direct => cg.token \in Clusters
  /\ cg.at = "record" => Op1.name \in installed[Host]

\* The command: its plan has its shape, the operators are of its first phase,
\* and a role that is forgotten has been torn down.
PlanInv ==
  /\ Shape(cg.plan) /\ PlanHolds(cg.plan)
  /\ cg.plan = <<>> => cg = Idle
  /\ cg.ops = <<>> => cg.at = "do"
OpsAre ==
  /\ cg.plan # <<>> /\ cg.way = Current.do /\ cg.role = Current.role /\ cg.way \in Ways
  /\ Known(cg.role) /\ Left \subseteq StepsOf(cg.role) /\ K3sFirst(cg.ops, cg.way)
OpsInv ==
  cg.ops # <<>> =>
    OpsAre /\ (cg.way = "setup" => SettingUp) /\ (cg.way = "teardown" => Tearing)
TornInv ==
  cg.plan # <<>> /\ cg.ops = <<>> /\ Current.do \in {"destroy", "forget"} => TornDown(Current.role)

\* A command installs one k3s server at most.
ServerToCome ==
  \E i \in 1..Len(cg.plan) :
    /\ cg.plan[i].do = "setup" /\ cg.plan[i].role = HeadRole
    /\ \/ i > 1 \/ cg.ops = <<>>
       \/ \E j \in 1..Len(cg.ops) : cg.ops[j].name = "K3sServer" /\ (j > 1 \/ cg.at = "do")
MadeInv == ServerToCome => made < runs

CommandInv == PlanInv /\ OpsInv /\ TornInv /\ MadeInv

\* Where `done` and the machine differ, but for the step under way.
Standing(a) == installed[IpOf(a)] \cap StepsOf(a)
Differs(a) == (config[a].done \ Standing(a)) \cup (Standing(a) \ config[a].done)
Pending(a) == IF cg.ops # <<>> /\ cg.at # "do" /\ cg.role = a THEN {Op1.name} ELSE {}
DoneInv == \A a \in Roles : Known(a) => Cardinality(Differs(a) \ Pending(a)) <= troubles

Inv == TypeInv /\ FileInv /\ CommandInv /\ DoneInv

-----------------------------------------------------------------------------
(* How a step moves each part of the state *)

LEMMA Unfold ==
  Next <=> \/ Starting \/ Interrupt \/ Apply \/ Destroy \/ RecordEntry \/ Forget
           \/ RunPipeline("setup") \/ RunPipeline("teardown") \/ Operating
           \/ \E m \in Machines :
                TimerFires(m) \/ JoinInstalls(m) \/ SelfRemove(m) \/ JoinDownloadsNothing(m)
BY DEF Next, Running, Joining

\* Starting a command moves nothing but the command.
LEMMA StartingMoves ==
  ASSUME Starting
  PROVE  UNCHANGED <<config, installed, k3s, secrets, join, stack, troubles, made, late>>
BY DEF Starting, StartAddHead, StartAddWorker, StartDelWorker, StartDelHead, StartDelAll,
       StartRestart, Starts, machineVars

\* An operator's step is at an operator.
LEMMA OperatingAt ==
  ASSUME Operating
  PROVE  cg.ops # <<>> /\ runs' = runs /\ troubles' = troubles /\ stack' = stack
BY DEF Operating, CannotGoOn, SetUpOperator, TearDownOperator, ScrubKubeconfig, MergeKubeconfig,
       SetUpServer, TearDownServer, PublishToken, PublishAddress, DeleteToken, DeleteAddress,
       DirectJoin, DeferredJoin, UninstallAgent, RemoveTimer, OnStepDone, Doing, boundVars

\* The operator at hand is one of the role's, which is recorded.
LEMMA OperatorAtHand ==
  ASSUME Inv, cg.ops # <<>>
  PROVE  /\ cg.ops \in Seq(Operator) /\ Op1 = cg.ops[1] /\ Op1 \in Operator /\ Op1.name \in Names
         /\ Op1.name \in Left /\ Left \subseteq StepsOf(cg.role) /\ K3sFirst(cg.ops, cg.way)
         /\ cg.plan \in Seq(PhaseOf) /\ cg.plan # <<>> /\ Current = cg.plan[1] /\ 1 \in 1..Len(cg.plan)
         /\ Shape(cg.plan) /\ PlanHolds(cg.plan)
         /\ cg.role \in Roles /\ cg.role = Current.role /\ cg.way = Current.do /\ cg.way \in Ways
         /\ Known(cg.role) /\ Host \in Machines /\ Host = IpOf(cg.role)
<1>1. cg.ops \in Seq(Operator) /\ cg.plan \in Seq(PhaseOf) /\ ConfigTyped
  BY DEF Inv, TypeInv
<1>2. OpsAre /\ Shape(cg.plan) /\ PlanHolds(cg.plan)
  BY DEF Inv, CommandInv, OpsInv, PlanInv
<1>3. Op1 = cg.ops[1] /\ Op1 \in Operator /\ Op1.name \in Left
  BY <1>1, <1>2, RestOfPipeline DEF Op1, Left, OpsAre
<1>4. Op1.name \in Names
  BY <1>3 DEF Operator
<1>5. Current = cg.plan[1] /\ 1 \in 1..Len(cg.plan) /\ Current \in PhaseOf
  BY <1>1, <1>2, RestOfPlan DEF OpsAre, Current
<1>6. cg.role \in Roles /\ cg.role = Current.role
  BY <1>2, <1>5 DEF OpsAre, PhaseOf
<1>7. Host \in Machines /\ Host = IpOf(cg.role)
  BY <1>1, <1>2, <1>6, EntryTyped DEF OpsAre, Host
<1> QED BY <1>1, <1>2, <1>3, <1>4, <1>5, <1>6, <1>7 DEF OpsAre

\* What is found on the host when k3s is to be set up.
LEMMA SetUpServerCases ==
  ASSUME Inv, SetUpServer
  PROVE  /\ cg.ops # <<>> /\ cg.at = "do" /\ cg.way = "setup" /\ Op1.name = "K3sServer"
         /\ UNCHANGED <<config, secrets, join, stack, runs, troubles, late>>
         /\ \/ /\ k3s[Host].kind = "none" /\ made' = made + 1
               /\ k3s' = [k3s EXCEPT ![Host] = [kind |-> "server", cluster |-> made + 1]]
               /\ Stands /\ Turn("record")
            \/ k3s[Host].kind = "server" /\ Stands /\ Turn("record") /\ UNCHANGED <<k3s, made>>
            \/ k3s[Host].kind = "agent" /\ Abort /\ UNCHANGED <<installed, k3s, made>>
<1>1. cg.ops # <<>>
  BY DEF SetUpServer, Doing
<1>2. k3s[Host].kind \in Kinds
  BY <1>1, OperatorAtHand DEF Inv, TypeInv
<1> QED BY <1>1, <1>2 DEF SetUpServer, Doing, Kinds

LEMMA ConfigMoves ==
  ASSUME Next
  PROVE  config' = config \/ RecordEntry \/ Forget \/ OnStepDone
<1>1. CASE Operating
  BY <1>1 DEF Operating, CannotGoOn, SetUpOperator, TearDownOperator, ScrubKubeconfig,
       MergeKubeconfig, SetUpServer, TearDownServer, PublishToken, PublishAddress, DeleteToken,
       DeleteAddress, DirectJoin, DeferredJoin, UninstallAgent, RemoveTimer
<1>2. CASE ~Operating
  BY <1>2, Unfold, StartingMoves DEF Interrupt, Apply, Destroy, RunPipeline, TimerFires,
       JoinInstalls, SelfRemove, JoinDownloadsNothing
<1> QED BY <1>1, <1>2

LEMMA InstalledMoves ==
  ASSUME Inv, Next
  PROVE  installed' = installed \/ Destroy \/ (cg.ops # <<>> /\ (Stands \/ Falls))
<1>1. CASE Operating
  <2>1. installed' = installed \/ Stands \/ Falls
    BY <1>1, SetUpServerCases DEF Operating, CannotGoOn, SetUpOperator, TearDownOperator, ScrubKubeconfig,
       MergeKubeconfig, SetUpServer, TearDownServer, PublishToken, PublishAddress, DeleteToken,
       DeleteAddress, DirectJoin, DeferredJoin, UninstallAgent, RemoveTimer, OnStepDone, machineVars
  <2> QED BY <1>1, <2>1, OperatingAt
<1>2. CASE ~Operating
  BY <1>2, Unfold, StartingMoves DEF Interrupt, Apply, RecordEntry, Forget, RunPipeline,
       TimerFires, JoinInstalls, SelfRemove, JoinDownloadsNothing, machineVars
<1> QED BY <1>1, <1>2

LEMMA K3sMoves ==
  ASSUME Next
  PROVE  \/ k3s' = k3s \/ Destroy \/ SetUpServer \/ TearDownServer \/ DirectJoin \/ UninstallAgent
         \/ \E m \in Machines : JoinInstalls(m)
<1>1. CASE Operating
  BY <1>1 DEF Operating, CannotGoOn, SetUpOperator, TearDownOperator, ScrubKubeconfig,
       MergeKubeconfig, PublishToken, PublishAddress, DeleteToken, DeleteAddress, DeferredJoin,
       RemoveTimer, OnStepDone, machineVars
<1>2. CASE ~Operating
  BY <1>2, Unfold, StartingMoves DEF Interrupt, Apply, RecordEntry, Forget, RunPipeline,
       TimerFires, SelfRemove, JoinDownloadsNothing, machineVars
<1> QED BY <1>1, <1>2

LEMMA SecretsMove ==
  ASSUME Next
  PROVE  \/ secrets' = secrets \/ Destroy
         \/ PublishToken \/ PublishAddress \/ DeleteToken \/ DeleteAddress
<1>1. CASE Operating
  BY <1>1 DEF Operating, CannotGoOn, SetUpOperator, TearDownOperator, ScrubKubeconfig,
       MergeKubeconfig, SetUpServer, TearDownServer, DirectJoin, DeferredJoin, UninstallAgent,
       RemoveTimer, OnStepDone, machineVars
<1>2. CASE ~Operating
  BY <1>2, Unfold, StartingMoves DEF Interrupt, Apply, RecordEntry, Forget, RunPipeline,
       TimerFires, JoinInstalls, SelfRemove, JoinDownloadsNothing, machineVars
<1> QED BY <1>1, <1>2

LEMMA JoinMoves ==
  ASSUME Next
  PROVE  \/ join' = join \/ Destroy \/ DeferredJoin \/ RemoveTimer
         \/ \E m \in Machines :
              TimerFires(m) \/ JoinInstalls(m) \/ SelfRemove(m) \/ JoinDownloadsNothing(m)
<1>1. CASE Operating
  BY <1>1 DEF Operating, CannotGoOn, SetUpOperator, TearDownOperator, ScrubKubeconfig,
       MergeKubeconfig, SetUpServer, TearDownServer, PublishToken, PublishAddress, DeleteToken,
       DeleteAddress, DirectJoin, UninstallAgent, OnStepDone, machineVars
<1>2. CASE ~Operating
  BY <1>2, Unfold, StartingMoves DEF Interrupt, Apply, RecordEntry, Forget, RunPipeline, machineVars
<1> QED BY <1>1, <1>2

\* No join that was late is forgotten.
LEMMA LateGrows ==
  ASSUME Next
  PROVE  late \subseteq late'
<1>1. CASE Operating
  BY <1>1 DEF Operating, CannotGoOn, SetUpOperator, TearDownOperator, ScrubKubeconfig,
       MergeKubeconfig, SetUpServer, TearDownServer, PublishToken, PublishAddress, DeleteToken,
       DeleteAddress, DirectJoin, DeferredJoin, UninstallAgent, RemoveTimer, OnStepDone
<1>2. CASE ~Operating
  BY <1>2, Unfold, StartingMoves DEF Interrupt, Apply, Destroy, RecordEntry, Forget, RunPipeline,
       TimerFires, JoinInstalls, SelfRemove, JoinDownloadsNothing
<1> QED BY <1>1, <1>2

LEMMA MadeMoves ==
  ASSUME Next
  PROVE  made' = made \/ SetUpServer
<1>1. CASE Operating
  BY <1>1 DEF Operating, CannotGoOn, SetUpOperator, TearDownOperator, ScrubKubeconfig,
       MergeKubeconfig, TearDownServer, PublishToken, PublishAddress, DeleteToken,
       DeleteAddress, DirectJoin, DeferredJoin, UninstallAgent, RemoveTimer, OnStepDone, boundVars
<1>2. CASE ~Operating
  BY <1>2, Unfold, StartingMoves DEF Interrupt, Apply, Destroy, RecordEntry, Forget, RunPipeline,
       TimerFires, JoinInstalls, SelfRemove, JoinDownloadsNothing, boundVars
<1> QED BY <1>1, <1>2

LEMMA SamePlan ==
  ASSUME NEW P, NEW R, NEW W, NEW O, NEW A, NEW D, NEW T,
         NEW i \in [plan : P, role : R, way : W, ops : O, at : A, direct : D, token : T]
  PROVE  [i EXCEPT !.plan = i.plan] = i
OBVIOUS
\* The values the command takes.
Planned(p) == [Idle EXCEPT !.plan = p]
Turned(at) == [cg EXCEPT !.at = at]
Continued(ops) == [cg EXCEPT !.ops = ops, !.at = "do"]
Piped(a, way, direct, t, ops) ==
  [cg EXCEPT !.role = a, !.way = way, !.direct = direct, !.token = t, !.ops = ops]

LEMMA FinishesWith ==
  ASSUME NEW rest
  PROVE  Finishes(rest) = Planned(rest) /\ Idle = Planned(<<>>)
<1>1. Idle = [Idle EXCEPT !.plan = <<>>]
  <2>1. /\ Idle \in [plan : {<<>>}, role : {Nothing}, way : {"none"}, ops : {<<>>}, at : {"do"},
                     direct : BOOLEAN, token : {0}]
        /\ Idle.plan = <<>>
    BY DEF Idle
  <2>2. [Idle EXCEPT !.plan = Idle.plan] = Idle
    BY <2>1, SamePlan
  <2> QED BY <2>1, <2>2
<1> QED BY <1>1 DEF Finishes, Planned

LEMMA RunPipelineMoves ==
  ASSUME NEW way, RunPipeline(way)
  PROVE  /\ cg # Idle /\ cg.ops = <<>> /\ cg.plan # <<>> /\ Current.do = way
         /\ UNCHANGED <<config, installed, k3s, secrets, join, stack, runs, troubles, made, late>>
BY DEF RunPipeline, InPhase, machineVars, boundVars

\* How the command moves.
LEMMA CommandMoves ==
  ASSUME SeedAssumption, Inv, Next
  PROVE  \/ cg' = cg
         \/ cg' = Idle
         \/ \E p : Begins(p) /\ cg' = Planned(p) /\ Starts(p)
         \/ /\ cg.plan # <<>> /\ cg.ops = <<>> /\ cg' = Planned(Tail(cg.plan))
            /\ Apply \/ Destroy \/ RecordEntry \/ Forget
         \/ RunPipeline("setup") \/ RunPipeline("teardown")
         \/ cg.ops # <<>> /\ (cg' = Turned("rest") \/ cg' = Turned("record"))
         \/ OnStepDone
<1>1. CASE Operating
  <2>1. CASE SetUpServer
    BY <2>1, SetUpServerCases DEF Abort, Turn, Turned
  <2>2. CASE ~SetUpServer
    <3>1. cg' = Idle \/ cg' = Turned("rest") \/ cg' = Turned("record") \/ OnStepDone
      BY <1>1, <2>2 DEF Operating, CannotGoOn, SetUpOperator, TearDownOperator, ScrubKubeconfig,
           MergeKubeconfig, TearDownServer, PublishToken, PublishAddress, DeleteToken,
           DeleteAddress, DirectJoin, DeferredJoin, UninstallAgent, RemoveTimer, Abort, Turn, Turned
    <3> QED BY <1>1, <3>1, OperatingAt
  <2> QED BY <2>1, <2>2
<1>2. CASE Starting
  <2>1. \E p : Begins(p) /\ Starts(p)
    BY <1>2, CommandsBegin DEF Inv, TypeInv, FileInv
  <2> QED BY <2>1 DEF Starts, Planned
<1>3. CASE Apply \/ Destroy \/ RecordEntry \/ Forget
  <2>1. cg.plan # <<>> /\ cg.ops = <<>> /\ cg' = Finishes(Tail(cg.plan))
    BY <1>3 DEF Apply, Destroy, RecordEntry, Forget, InPhase
  <2> QED BY <1>3, <2>1, FinishesWith
<1>4. CASE Interrupt \/ \E m \in Machines :
             TimerFires(m) \/ JoinInstalls(m) \/ SelfRemove(m) \/ JoinDownloadsNothing(m)
  BY <1>4 DEF Interrupt, Abort, TimerFires, JoinInstalls, SelfRemove, JoinDownloadsNothing
<1> QED BY <1>1, <1>2, <1>3, <1>4, Unfold

\* A server that is set up is the one to come.
LEMMA ServerIsToCome ==
  ASSUME Inv, cg.ops # <<>>, cg.at = "do", cg.way = "setup", Op1.name = "K3sServer"
  PROVE  cg.role = HeadRole /\ made < runs
<1>1. Op1.name \in StepsOf(cg.role) /\ Op1 = cg.ops[1] /\ cg.ops \in Seq(Operator)
  BY OperatorAtHand
<1>2. cg.role = HeadRole
  BY <1>1 DEF StepsOf
<1>3. 1 \in 1..Len(cg.plan) /\ cg.plan[1].do = "setup" /\ cg.plan[1].role = HeadRole
  BY <1>2, OperatorAtHand
<1>4. 1 \in 1..Len(cg.ops)
  BY <1>1
<1>5. ServerToCome
  BY <1>1, <1>3, <1>4 DEF ServerToCome
<1> QED BY <1>2, <1>5 DEF Inv, CommandInv, MadeInv

-----------------------------------------------------------------------------
(* Types *)

LEMMA BoundsTyped ==
  ASSUME SeedAssumption, Inv, Next
  PROVE  /\ runs' \in 0..MaxRuns /\ troubles' \in 0..MaxTrouble /\ made' \in Nat /\ made' <= runs'
         /\ made <= made' /\ troubles <= troubles' /\ late' \subseteq Machines
<1> USE DEF Inv, TypeInv, SeedAssumption
<1>1. runs' \in 0..MaxRuns /\ runs <= runs' /\ troubles' \in 0..MaxTrouble /\ troubles <= troubles'
  <2>1. CASE Operating
    BY <2>1, OperatingAt
  <2>2. CASE Starting
    <3>1. PICK p : Starts(p)
      BY <2>2, CommandsBegin DEF FileInv
    <3> QED BY <3>1 DEF Starts
  <2>3. CASE RunPipeline("setup") \/ RunPipeline("teardown")
    BY <2>3, RunPipelineMoves
  <2>4. CASE Interrupt
    BY <2>4 DEF Interrupt
  <2>5. CASE Apply \/ Destroy \/ RecordEntry \/ Forget
    BY <2>5 DEF Apply, Destroy, RecordEntry, Forget, boundVars
  <2>6. ASSUME NEW m \in Machines,
               TimerFires(m) \/ JoinInstalls(m) \/ SelfRemove(m) \/ JoinDownloadsNothing(m)
        PROVE  runs' = runs /\ troubles' \in 0..MaxTrouble /\ troubles <= troubles'
    BY <2>6 DEF TimerFires, JoinInstalls, SelfRemove, JoinDownloadsNothing, boundVars
  <2> QED BY <2>1, <2>2, <2>3, <2>4, <2>5, <2>6, Unfold
<1>2. made' = made \/ (made' = made + 1 /\ made < runs)
  BY MadeMoves, SetUpServerCases, ServerIsToCome
<1>3. late' \subseteq Machines
  <2>1. CASE Operating
    <3>1. Host \in Machines
      BY <2>1, OperatingAt, OperatorAtHand
    <3>2. late' = late \/ late' = late \cup {Host}
      BY <2>1 DEF Operating, CannotGoOn, SetUpOperator, TearDownOperator, ScrubKubeconfig,
       MergeKubeconfig, SetUpServer, TearDownServer, PublishToken, PublishAddress, DeleteToken,
       DeleteAddress, DirectJoin, DeferredJoin, UninstallAgent, RemoveTimer, OnStepDone
    <3> QED BY <3>1, <3>2
  <2>2. CASE RunPipeline("setup") \/ RunPipeline("teardown") \/ Starting
    BY <2>2, RunPipelineMoves, StartingMoves
  <2>3. CASE Interrupt \/ Apply \/ Destroy \/ RecordEntry \/ Forget
    BY <2>3 DEF Interrupt, Apply, Destroy, RecordEntry, Forget
  <2>4. ASSUME NEW m \in Machines,
               TimerFires(m) \/ JoinInstalls(m) \/ SelfRemove(m) \/ JoinDownloadsNothing(m)
        PROVE  late' \subseteq Machines
    <3>1. late' = late \/ late' = late \cup {m}
      BY <2>4 DEF TimerFires, JoinInstalls, SelfRemove, JoinDownloadsNothing
    <3> QED BY <3>1
  <2> QED BY <2>1, <2>2, <2>3, <2>4, Unfold
<1> QED BY <1>1, <1>2, <1>3

LEMMA MachinesTyped ==
  ASSUME SeedAssumption, Inv, Next
  PROVE  /\ (installed \in [Machines -> SUBSET Names])'
         /\ (k3s \in [Machines -> [kind : Kinds, cluster : 0..made]])'
         /\ (secrets \in [Machines -> [token : 0..made, address : BOOLEAN]])'
         /\ (join \in [Machines -> [timer : BOOLEAN, script : {"idle", "install", "remove"},
                                    token : 0..made]])'
<1> DEFINE K == [kind : Kinds, cluster : 0..made']
           S == [token : 0..made', address : BOOLEAN]
           J == [timer : BOOLEAN, script : {"idle", "install", "remove"}, token : 0..made']
<1>1. made \in Nat /\ made' \in Nat /\ made <= made' /\ 0..made \subseteq 0..made'
  BY BoundsTyped DEF Inv, TypeInv
<1>2. /\ installed \in [Machines -> SUBSET Names] /\ k3s \in [Machines -> K]
      /\ secrets \in [Machines -> S] /\ join \in [Machines -> J]
  BY <1>1 DEF Inv, TypeInv
<1>3. NoK3s \in K /\ NoSecrets \in S /\ NoJoin \in J
  BY <1>1 DEF NoK3s, NoSecrets, NoJoin, Kinds
<1>4. installed' \in [Machines -> SUBSET Names]
  <2>1. CASE Destroy
    BY <1>2, <2>1 DEF Destroy
  <2>2. CASE cg.ops # <<>> /\ (Stands \/ Falls)
    <3>1. Op1.name \in Names /\ Host \in Machines
      BY <2>2, OperatorAtHand
    <3>2. installed[Host] \cup {Op1.name} \in SUBSET Names /\ installed[Host] \ {Op1.name} \in SUBSET Names
      BY <1>2, <3>1
    <3>3. \E s \in SUBSET Names : installed' = [installed EXCEPT ![Host] = s]
      BY <2>2, <3>2 DEF Stands, Falls
    <3> QED BY <1>2, <3>3
  <2> QED BY <1>2, <2>1, <2>2, InstalledMoves
<1>5. k3s' \in [Machines -> K]
  <2>1. CASE Destroy
    BY <1>2, <1>3, <2>1 DEF Destroy
  <2>2. CASE SetUpServer
    <3>1. [kind |-> "server", cluster |-> made'] \in K
      BY <1>1 DEF Kinds
    <3>2. k3s' = k3s \/ k3s' = [k3s EXCEPT ![Host] = [kind |-> "server", cluster |-> made']]
      BY <2>2, SetUpServerCases
    <3> HIDE DEF K
    <3> QED BY <1>2, <3>1, <3>2
  <2>3. CASE TearDownServer \/ UninstallAgent
    BY <1>2, <1>3, <2>3 DEF TearDownServer, UninstallAgent
  <2>4. CASE DirectJoin
    <3>1. Agent(cg.token) \in K
      BY <1>1 DEF Agent, Kinds, Inv, TypeInv
    <3> QED BY <1>2, <2>4, <3>1 DEF DirectJoin
  <2>5. ASSUME NEW m \in Machines, JoinInstalls(m) PROVE k3s' \in [Machines -> K]
    <3>1. join[m].token \in 0..made'
      BY <1>2
    <3>2. Agent(join[m].token) \in K
      BY <3>1 DEF Agent, Kinds
    <3> QED BY <1>2, <2>5, <3>2 DEF JoinInstalls
  <2> QED BY <1>2, <2>1, <2>2, <2>3, <2>4, <2>5, K3sMoves
<1>6. secrets' \in [Machines -> S]
  <2>1. CASE Destroy
    BY <1>2, <1>3, <2>1 DEF Destroy
  <2>2. CASE PublishToken
    <3>1. Host \in Machines
      BY <2>2, OperatorAtHand DEF PublishToken, Doing
    <3>2. k3s[Host].cluster \in 0..made'
      BY <1>2, <3>1
    <3> QED BY <1>2, <2>2, <3>1, <3>2 DEF PublishToken, SetSecret
  <2>3. CASE PublishAddress
    BY <1>2, <2>3 DEF PublishAddress, SetSecret
  <2>4. CASE DeleteToken
    <3>1. secrets' = [secrets EXCEPT ![Host]["token"] = 0]
      BY <2>4 DEF DeleteToken, DropSecret, NoSecrets
    <3> DEFINE T == 0..made'
    <3>2. 0 \in T /\ secrets \in [Machines -> [token : T, address : BOOLEAN]]
      BY <1>1, <1>2
    <3> HIDE DEF T
    <3>3. secrets' \in [Machines -> [token : T, address : BOOLEAN]]
      BY <3>1, <3>2
    <3> QED BY <3>3 DEF T
  <2>5. CASE DeleteAddress
    BY <1>2, <2>5 DEF DeleteAddress, DropSecret, NoSecrets
  <2> QED BY <1>2, <2>1, <2>2, <2>3, <2>4, <2>5, SecretsMove
<1>7. join' \in [Machines -> J]
  <2>1. CASE Destroy
    BY <1>2, <1>3, <2>1 DEF Destroy
  <2>2. CASE DeferredJoin \/ RemoveTimer
    <3>1. \/ join' = [join EXCEPT ![Host].timer = TRUE]
          \/ join' = [join EXCEPT ![Host].timer = FALSE]
      BY <2>2 DEF DeferredJoin, RemoveTimer
    <3>2. CASE join' = [join EXCEPT ![Host].timer = TRUE]
      BY <1>2, <3>2
    <3>3. CASE join' = [join EXCEPT ![Host].timer = FALSE]
      BY <1>2, <3>3
    <3> QED BY <3>1, <3>2, <3>3
  <2>3. ASSUME NEW m \in Machines, TimerFires(m) PROVE join' \in [Machines -> J]
    <3>1. PICK h \in HeadCreds : join' = [join EXCEPT ![m].script = "install", ![m].token = secrets[h].token]
      BY <2>3 DEF TimerFires
    <3>2. secrets[h].token \in 0..made'
      BY <1>2 DEF HeadCreds
    <3> QED BY <1>2, <3>1, <3>2
  <2>4. ASSUME NEW m \in Machines, JoinInstalls(m) \/ SelfRemove(m) \/ JoinDownloadsNothing(m)
        PROVE  join' \in [Machines -> J]
    <3>1. \/ join' = [join EXCEPT ![m].script = "remove"]
          \/ join' = [join EXCEPT ![m] = NoJoin]
      BY <2>4 DEF JoinInstalls, SelfRemove, JoinDownloadsNothing
    <3>2. CASE join' = [join EXCEPT ![m].script = "remove"]
      BY <1>2, <3>2
    <3>3. CASE join' = [join EXCEPT ![m] = NoJoin]
      BY <1>2, <1>3, <3>3
    <3> QED BY <3>1, <3>2, <3>3
  <2> QED BY <1>2, <2>1, <2>2, <2>3, <2>4, JoinMoves
<1> QED BY <1>4, <1>5, <1>6, <1>7

\* Credentials that can be read are those of a k3s server that runs.
LEMMA CredsAreOfServers ==
  ASSUME Inv, NEW h \in HeadCreds
  PROVE  /\ h \in Machines /\ k3s[h].kind = "server" /\ k3s[h].cluster = secrets[h].token
         /\ secrets[h].token \in Clusters /\ secrets[h].token \in 0..made
<1>1. h \in Machines /\ secrets[h].token # 0
  BY DEF HeadCreds, HasSecret, NoSecrets
<1>2. k3s[h].kind = "server" /\ k3s[h].cluster = secrets[h].token
  BY <1>1 DEF Inv, FileInv, TokensOfServers
<1>3. secrets[h].token \in 0..made
  BY <1>1 DEF Inv, TypeInv
<1> QED BY <1>1, <1>2, <1>3 DEF Clusters

\* A pipeline that is begun is that of the phase's role, which is recorded.
LEMMA RunPipelineSets ==
  ASSUME Inv, NEW way \in Ways, RunPipeline(way)
  PROVE  \/ cg' = Idle
         \/ \E direct \in BOOLEAN, t \in 0..made :
              /\ cg' = Piped(Current.role, way, direct, t, InOrder(PipelineOf(Current.role, direct), way))
              /\ Known(Current.role) /\ Current.role \in Roles
              /\ way = "setup" /\ direct /\ Current.role # HeadRole /\ ~OnHead(Current.role)
                   => t \in Clusters
<1> DEFINE a == Current.role
           creds == {m \in HeadCreds : Known(HeadRole) => m = IpOf(HeadRole)}
           onHead == a # HeadRole /\ OnHead(a)
           direct == onHead \/ creds # {} \/ way = "teardown"
<1>1. \/ cg' = Idle
      \/ \E t \in IF creds = {} THEN {0} ELSE {secrets[m].token : m \in creds} :
           cg' = Piped(a, way, direct, t, InOrder(PipelineOf(a, direct), way))
  BY DEF RunPipeline, Abort, Piped
<1>2. a \in Roles /\ Known(a)
  <2>1. /\ cg.plan \in Seq(PhaseOf) /\ cg.plan # <<>> /\ Current.do = way /\ PlanHolds(cg.plan)
        /\ Shape(cg.plan)
    BY RunPipelineMoves DEF Inv, TypeInv, CommandInv, PlanInv
  <2>2. Current = cg.plan[1] /\ 1 \in 1..Len(cg.plan) /\ cg.plan[1] \in PhaseOf
    BY <2>1, RestOfPlan DEF Current
  <2>3. cg.plan[1].role \in Roles
    BY <2>2 DEF PhaseOf
  <2> QED BY <2>1, <2>2, <2>3 DEF PlanHolds, Ways
<1>3. direct \in BOOLEAN
  BY Zenon
<1>4. ASSUME NEW t \in IF creds = {} THEN {0} ELSE {secrets[m].token : m \in creds}
      PROVE  t \in 0..made /\ (creds # {} => t \in Clusters)
  <2>1. CASE creds = {}
    BY <1>4, <2>1 DEF Inv, TypeInv
  <2>2. CASE creds # {}
    <3>1. PICK m \in creds : t = secrets[m].token
      BY <1>4, <2>2
    <3>2. m \in HeadCreds
      OBVIOUS
    <3> QED BY <3>1, <3>2, CredsAreOfServers
  <2> QED BY <2>1, <2>2
<1>5. way = "setup" /\ direct /\ a # HeadRole /\ ~OnHead(a) => creds # {}
  OBVIOUS
<1> HIDE DEF a, creds, onHead, direct
<1>6. CASE cg' = Idle
  BY <1>6
<1>7. CASE cg' # Idle
  <2>1. PICK t \in IF creds = {} THEN {0} ELSE {secrets[m].token : m \in creds} :
           cg' = Piped(a, way, direct, t, InOrder(PipelineOf(a, direct), way))
    BY <1>1, <1>7
  <2>2. t \in 0..made /\ (creds # {} => t \in Clusters)
    BY <1>4
  <2>3. way = "setup" /\ direct /\ a # HeadRole /\ ~OnHead(a) => t \in Clusters
    BY <1>5, <2>2
  <2> QED BY <1>2, <1>3, <2>1, <2>2, <2>3 DEF a
<1> QED BY <1>6, <1>7

LEMMA OnStepDoneMoves ==
  ASSUME OnStepDone
  PROVE  /\ cg.ops # <<>> /\ cg.at = "record"
         /\ config' = [config EXCEPT ![cg.role].done = RecordStep(@, Op1.name, cg.way)]
         /\ UNCHANGED <<installed, k3s, secrets, join, stack, runs, troubles, made, late>>
         /\ \/ Len(cg.ops) = 1 /\ cg' = Planned(Tail(cg.plan))
            \/ Len(cg.ops) # 1 /\ cg' = Continued(Tail(cg.ops))
BY FinishesWith DEF OnStepDone, machineVars, boundVars, Continued

LEMMA CommandTyped ==
  ASSUME SeedAssumption, Inv, Next
  PROVE  cg' \in [plan : Seq(PhaseOf), role : Roles \cup {Nothing}, way : {"none"} \cup Ways,
                  ops : Seq(Operator), at : {"do", "rest", "record"}, direct : BOOLEAN,
                  token : 0..made']
<1> DEFINE R == Roles \cup {Nothing}
           W == {"none"} \cup Ways
           P == Seq(PhaseOf)
           O == Seq(Operator)
           A == {"do", "rest", "record"}
           T == 0..made'
           C == [plan : P, role : R, way : W, ops : O, at : A, direct : BOOLEAN, token : T]
<1> SUFFICES cg' \in C
  OBVIOUS
<1>1. made \in Nat /\ made' \in Nat /\ made <= made' /\ 0..made \subseteq T /\ 0 \in T
  BY BoundsTyped DEF Inv, TypeInv
<1>2. cg \in C
  BY <1>1 DEF Inv, TypeInv
<1>3. /\ Nothing \in R /\ "none" \in W /\ "setup" \in W /\ "teardown" \in W /\ Ways \subseteq W
      /\ "do" \in A /\ "rest" \in A /\ "record" \in A /\ Roles \subseteq R
  BY DEF Ways
<1>4. <<>> \in P /\ <<>> \in O
  BY EmptyPlan, NoOperator
<1> HIDE DEF R, W, P, O, A, T
<1>5. \A p \in P : Planned(p) \in C
  BY <1>1, <1>3, <1>4 DEF Idle, Planned
<1>6. Idle \in C
  BY <1>1, <1>3, <1>4 DEF Idle
<1>6a. \A v \in A : Turned(v) \in C
  BY <1>2 DEF Turned
<1>6b. \A ops \in O : Continued(ops) \in C
  BY <1>2, <1>3 DEF Continued
<1>6c. \A a \in R, w \in W, direct \in BOOLEAN, t \in T, ops \in O :
         Piped(a, w, direct, t, ops) \in C
  BY <1>2 DEF Piped
<1>6d. cg.plan \in P /\ cg.ops \in O
  BY <1>2
<1> HIDE DEF C
<1>7. CASE \E p : Begins(p) /\ cg' = Planned(p)
  <2>1. PICK p : Begins(p) /\ cg' = Planned(p)
    BY <1>7
  <2>2. p \in P
    BY <2>1 DEF Begins, P
  <2> QED BY <1>5, <2>1, <2>2
<1>8. CASE cg.plan # <<>> /\ cg' = Planned(Tail(cg.plan))
  <2>2. Tail(cg.plan) \in P
    BY <1>8, <1>6d DEF P
  <2> QED BY <1>5, <1>8, <2>2
<1>9. ASSUME NEW way \in Ways, RunPipeline(way) PROVE cg' \in C
  <2>1. CASE cg' = Idle
    BY <1>6, <2>1
  <2>2. CASE cg' # Idle
    <3>1. PICK direct \in BOOLEAN, t \in 0..made :
              /\ cg' = Piped(Current.role, way, direct, t, InOrder(PipelineOf(Current.role, direct), way))
              /\ Current.role \in Roles
      BY <1>9, <2>2, RunPipelineSets
    <3> DEFINE a == Current.role
               ops == InOrder(PipelineOf(a, direct), way)
    <3>2. PipelineOf(a, direct) \in Seq(Operator) /\ K3sFirst(PipelineOf(a, direct), "setup")
      BY <3>1, PipelineSteps
    <3>3. ops \in O
      BY <3>2, PipelineInOrder DEF Ways, O
    <3>4. a \in R /\ way \in W /\ t \in T
      BY <1>1, <1>3, <3>1
    <3>5. cg' = Piped(a, way, direct, t, ops)
      BY <3>1
    <3> HIDE DEF a, ops
    <3> QED BY <1>6c, <3>1, <3>3, <3>4, <3>5
  <2> QED BY <2>1, <2>2
<1>10. CASE cg' = Turned("rest") \/ cg' = Turned("record")
  BY <1>3, <1>6a, <1>10
<1>11. CASE OnStepDone
  <2>1. cg' = Planned(Tail(cg.plan)) \/ cg' = Continued(Tail(cg.ops))
    BY <1>11, OnStepDoneMoves
  <2>2. cg.plan # <<>> /\ cg.ops # <<>> /\ cg.plan \in Seq(PhaseOf) /\ cg.ops \in Seq(Operator)
    BY <1>11, OperatorAtHand DEF OnStepDone
  <2>3. Tail(cg.plan) \in P /\ Tail(cg.ops) \in O
    BY <2>2 DEF P, O
  <2> QED BY <1>5, <1>6b, <2>1, <2>3
<1>12. "setup" \in Ways /\ "teardown" \in Ways
  BY DEF Ways
<1> QED
  BY <1>2, <1>6, <1>7, <1>8, <1>9, <1>10, <1>11, <1>12, CommandMoves

\* What those values hold.
LEMMA PlannedHas ==
  \A p : /\ Planned(p).plan = p /\ Planned(p).ops = <<>> /\ Planned(p).at = "do"
         /\ Planned(p).role = Nothing /\ Planned(p).way = "none"
BY DEF Planned, Idle
LEMMA CommandIs ==
  ASSUME TypeInv
  PROVE  cg \in [plan : Seq(PhaseOf), role : Roles \cup {Nothing}, way : {"none"} \cup Ways,
                 ops : Seq(Operator), at : {"do", "rest", "record"}, direct : BOOLEAN, token : 0..made]
BY DEF TypeInv
LEMMA TurnedHas ==
  ASSUME TypeInv
  PROVE  \A v : /\ Turned(v).plan = cg.plan /\ Turned(v).ops = cg.ops /\ Turned(v).at = v
                /\ Turned(v).role = cg.role /\ Turned(v).way = cg.way
                /\ Turned(v).direct = cg.direct /\ Turned(v).token = cg.token
BY CommandIs DEF Turned
LEMMA ContinuedHas ==
  ASSUME TypeInv
  PROVE  \A ops : /\ Continued(ops).plan = cg.plan /\ Continued(ops).ops = ops
                  /\ Continued(ops).at = "do"
                  /\ Continued(ops).role = cg.role /\ Continued(ops).way = cg.way
                  /\ Continued(ops).direct = cg.direct /\ Continued(ops).token = cg.token
BY CommandIs DEF Continued
LEMMA PipedHas ==
  ASSUME TypeInv
  PROVE  \A a, w, d, t, ops :
           LET c == Piped(a, w, d, t, ops)
           IN  /\ c.plan = cg.plan /\ c.ops = ops /\ c.at = cg.at /\ c.role = a
               /\ c.way = w /\ c.direct = d /\ c.token = t
BY CommandIs DEF Piped

\* The phase at hand.
LEMMA PhaseAtHand ==
  ASSUME Inv, cg.plan # <<>>
  PROVE  /\ cg.plan \in Seq(PhaseOf) /\ Shape(cg.plan) /\ PlanHolds(cg.plan)
         /\ Current = cg.plan[1] /\ 1 \in 1..Len(cg.plan) /\ Current \in PhaseOf
         /\ Current.role \in Roles /\ Fits(Current)
         /\ Current.do = "record" => RecordHolds(Current.role, Current.ip)
         /\ Current.do = "teardown" => Known(Current.role)
         /\ Current.do \in Takes /\ Current.role = HeadRole => Workers = {}
<1>1. cg.plan \in Seq(PhaseOf) /\ Shape(cg.plan) /\ PlanHolds(cg.plan)
  BY DEF Inv, TypeInv, CommandInv, PlanInv
<1>2. /\ Current = cg.plan[1] /\ 1 \in 1..Len(cg.plan) /\ Current \in PhaseOf /\ Fits(Current)
  BY <1>1, RestOfPlan DEF Current
<1>3. Current.role \in Roles
  BY <1>2 DEF PhaseOf
<1>4. /\ Current.do = "record" => RecordHolds(Current.role, Current.ip)
      /\ Current.do = "teardown" => Known(Current.role)
  BY <1>1, <1>2 DEF PlanHolds
<1>5. ASSUME Current.do \in Takes, Current.role = HeadRole PROVE Workers = {}
  <2>1. \A a \in Workers : \E j \in 1..1 - 1 : cg.plan[j].do = "forget" /\ cg.plan[j].role = a
    BY <1>1, <1>2, <1>5 DEF PlanHolds
  <2> QED BY <2>1
<1> QED BY <1>1, <1>2, <1>3, <1>4, <1>5

\* Whoever is recorded anew has the address to itself.
LEMMA RecordEntryCases ==
  ASSUME Inv, RecordEntry
  PROVE  /\ cg.plan # <<>> /\ cg.ops = <<>> /\ Current.do = "record" /\ Current.role \in Roles
         /\ cg' = Planned(Tail(cg.plan))
         /\ UNCHANGED <<installed, k3s, secrets, join, stack, runs, troubles, made, late>>
         /\ \/ Known(Current.role) /\ config' = config
            \/ /\ ~Known(Current.role) /\ WorkersAt(Current.ip) = {}
               /\ config' = [config EXCEPT ![Current.role] = Entry(Current.ip, Current.profile)]
               /\ Entry(Current.ip, Current.profile) \in Entries
<1>1. /\ cg.plan # <<>> /\ cg.ops = <<>> /\ Current.do = "record"
      /\ cg' = Finishes(Tail(cg.plan))
      /\ UNCHANGED <<installed, k3s, secrets, join, stack, runs, troubles, made, late>>
  BY DEF RecordEntry, InPhase, machineVars, boundVars
<1>2. Current.role \in Roles /\ RecordHolds(Current.role, Current.ip) /\ Fits(Current)
  BY <1>1, PhaseAtHand
<1>3. Current.ip \in Machines /\ Current.profile \in Profiles
  BY <1>1, <1>2 DEF Fits
<1>4. Entry(Current.ip, Current.profile) \in Entries
  BY <1>3 DEF Entry, Entries, Profiles
<1>5. CASE Known(Current.role)
  <2>1. config' = [config EXCEPT ![Current.role] = config[Current.role]]
    BY <1>5 DEF RecordEntry, Known
  <2>2. config' = config
    BY <1>2, <2>1 DEF Inv, TypeInv, ConfigTyped
  <2> QED BY <1>1, <1>2, <1>5, <2>2, FinishesWith
<1>6. CASE ~Known(Current.role)
  <2>1. config' = [config EXCEPT ![Current.role] = Entry(Current.ip, Current.profile)]
    BY <1>6 DEF RecordEntry, Known
  <2>2. WorkersAt(Current.ip) = {}
    BY <1>2, <1>6 DEF RecordHolds
  <2> QED BY <1>1, <1>2, <1>4, <1>6, <2>1, <2>2, FinishesWith
<1> QED BY <1>5, <1>6

\* What is forgotten has been torn down.
LEMMA ForgetCases ==
  ASSUME Inv, Forget
  PROVE  /\ cg.plan # <<>> /\ cg.ops = <<>> /\ Current.do = "forget" /\ Current.role \in Roles
         /\ cg' = Planned(Tail(cg.plan))
         /\ UNCHANGED <<installed, k3s, secrets, join, stack, runs, troubles, made, late>>
         /\ config' = [config EXCEPT ![Current.role] = Nothing]
         /\ TornDown(Current.role)
         /\ Current.role = HeadRole => Workers = {}
<1>1. /\ cg.plan # <<>> /\ cg.ops = <<>> /\ Current.do = "forget"
      /\ cg' = Finishes(Tail(cg.plan)) /\ config' = [config EXCEPT ![Current.role] = Nothing]
      /\ UNCHANGED <<installed, k3s, secrets, join, stack, runs, troubles, made, late>>
  BY DEF Forget, InPhase, machineVars, boundVars
<1>2. TornDown(Current.role)
  BY <1>1 DEF Inv, CommandInv, TornInv
<1>3. Current.role \in Roles /\ (Current.role = HeadRole => Workers = {})
  BY <1>1, PhaseAtHand DEF Takes
<1> QED BY <1>1, <1>2, <1>3, FinishesWith

\* A step recorded leaves the rest of the entry as it was.
LEMMA StepRecorded ==
  ASSUME Inv, OnStepDone
  PROVE  LET e == config[cg.role]
             d == RecordStep(e.done, Op1.name, cg.way)
         IN  /\ cg.role \in Roles /\ e \in Entries
             /\ config' = [config EXCEPT ![cg.role] = [ip |-> e.ip, profile |-> e.profile, done |-> d]]
             /\ d \subseteq Names
             /\ [ip |-> e.ip, profile |-> e.profile, done |-> d] \in Entries
<1> DEFINE a == cg.role
           e == config[a]
           d == RecordStep(e.done, Op1.name, cg.way)
           f == [ip |-> e.ip, profile |-> e.profile, done |-> d]
<1>1. config' = [config EXCEPT ![a].done = RecordStep(@, Op1.name, cg.way)]
  BY OnStepDoneMoves
<1>2. a \in Roles /\ Known(a) /\ Op1.name \in Names /\ ConfigTyped
  BY OnStepDoneMoves, OperatorAtHand DEF Inv, TypeInv
<1>3. e \in Entries
  BY <1>2, EntryTyped
<1>4. d \subseteq Names
  BY <1>2, <1>3 DEF Entries, RecordStep
<1>5. config' = [config EXCEPT ![a] = [e EXCEPT !.done = d]]
  BY <1>1 DEF RecordStep
<1>6. [e EXCEPT !.done = d] = f
  BY <1>3 DEF Entries
<1>7. f \in Entries
  BY <1>3, <1>4 DEF Entries
<1> QED BY <1>2, <1>3, <1>4, <1>5, <1>6, <1>7

-----------------------------------------------------------------------------
(* The file *)

\* Who is recorded, where and with which profile, is as it was.
SameEntries ==
  \A a \in Roles :
    /\ config'[a] = Nothing <=> config[a] = Nothing
    /\ config'[a].ip = config[a].ip /\ config'[a].profile = config[a].profile

\* One role is recorded that was not, with nothing done.
NewEntry(a) ==
  /\ ~Known(a) /\ config'[a].ip = Current.ip /\ config'[a].done = {} /\ config'[a] \in Entries
  /\ WorkersAt(Current.ip) = {}
  /\ \A b \in Roles : b # a => config'[b] = config[b]

\* One role is no longer recorded.
NoEntry(a) ==
  /\ config'[a] = Nothing /\ TornDown(a) /\ (a = HeadRole => Workers = {})
  /\ \A b \in Roles : b # a => config'[b] = config[b]

LEMMA EntryIsSomething ==
  ASSUME NEW e \in Entries
  PROVE  e # Nothing
BY EntryAssumption

LEMMA ConfigStays ==
  ASSUME Inv, Next
  PROVE  /\ ConfigTyped'
         /\ \/ SameEntries
            \/ RecordEntry /\ NewEntry(Current.role)
            \/ Forget /\ NoEntry(Current.role)
<1>1. config \in [Roles -> Entries \cup {Nothing}]
  BY DEF Inv, TypeInv, ConfigTyped
<1>2. CASE config' = config
  BY <1>1, <1>2 DEF ConfigTyped, SameEntries
<1>3. CASE RecordEntry /\ config' # config
  <2> DEFINE a == Current.role
             e == Entry(Current.ip, Current.profile)
  <2>1. /\ a \in Roles /\ ~Known(a) /\ WorkersAt(Current.ip) = {} /\ config' = [config EXCEPT ![a] = e]
        /\ e \in Entries
    BY <1>3, RecordEntryCases
  <2>2. e.ip = Current.ip /\ e.done = {}
    BY DEF Entry
  <2> HIDE DEF e
  <2>3. config'[a] = e /\ \A b \in Roles : b # a => config'[b] = config[b]
    BY <1>1, <2>1
  <2> QED BY <1>1, <1>3, <2>1, <2>2, <2>3 DEF ConfigTyped, NewEntry
<1>4. CASE Forget
  <2>1. config'[Current.role] = Nothing /\ \A b \in Roles : b # Current.role => config'[b] = config[b]
    BY <1>1, <1>4, ForgetCases
  <2> QED BY <1>1, <1>4, <2>1, ForgetCases DEF ConfigTyped, NoEntry
<1>5. CASE OnStepDone
  <2> DEFINE a == cg.role
             e == config[a]
             f == [ip |-> e.ip, profile |-> e.profile, done |-> RecordStep(e.done, Op1.name, cg.way)]
  <2>1. a \in Roles /\ e \in Entries /\ config' = [config EXCEPT ![a] = f] /\ f \in Entries
    BY <1>5, StepRecorded
  <2>2. f.ip = e.ip /\ f.profile = e.profile
    OBVIOUS
  <2>3. e # Nothing /\ f # Nothing
    BY <2>1, EntryIsSomething
  <2> HIDE DEF f
  <2>4. SameEntries
    BY <1>1, <2>1, <2>2, <2>3 DEF SameEntries
  <2> QED BY <1>1, <2>1, <2>4 DEF ConfigTyped
<1> QED BY <1>2, <1>3, <1>4, <1>5, ConfigMoves

\* Under the same entries, what is read off them is the same.
LEMMA SameRoles ==
  ASSUME SeedAssumption, SameEntries
  PROVE  /\ Workers' = Workers /\ (\A m : WorkersAt(m)' = WorkersAt(m))
         /\ \A a \in Roles : /\ Known(a)' <=> Known(a)
                             /\ IpOf(a)' = IpOf(a) /\ StepsOf(a)' = StepsOf(a)
                             /\ OnHead(a)' <=> OnHead(a)
<1>1. /\ HeadRole \in Roles /\ Aliases \subseteq Roles
  BY DEF Roles
<1>2. \A a \in Roles : /\ Known(a)' <=> Known(a)
                       /\ IpOf(a)' = IpOf(a)
                       /\ config'[a].profile = config[a].profile
  BY DEF SameEntries, Known, IpOf
<1>3. \A a \in Roles : OnHead(a)' <=> OnHead(a)
  BY <1>1, <1>2 DEF OnHead
<1>4. \A a \in Roles : StepsOf(a)' = StepsOf(a)
  BY <1>2, <1>3 DEF StepsOf
<1>5. Workers' = Workers
  BY <1>1, <1>2 DEF Workers
<1>6. \A m : WorkersAt(m)' = WorkersAt(m)
  <2> SUFFICES ASSUME NEW m PROVE WorkersAt(m)' = WorkersAt(m)
    OBVIOUS
  <2>1. \A a \in Workers : IpOf(a)' = IpOf(a)
    BY <1>1, <1>2 DEF Workers
  <2> QED BY <1>5, <2>1 DEF WorkersAt
<1> QED BY <1>2, <1>3, <1>4, <1>5, <1>6

\* Roles other than the one recorded, or forgotten, are as they were.
LEMMA OtherRoles ==
  ASSUME SeedAssumption, NEW a \in Roles,
         \A b \in Roles : b # a => config'[b] = config[b],
         a = HeadRole => (\A w \in Workers : ~OnHead(w) /\ ~OnHead(w)')
  PROVE  \A b \in Roles : b # a => /\ Known(b)' <=> Known(b)
                                   /\ IpOf(b)' = IpOf(b) /\ (Known(b) => StepsOf(b)' = StepsOf(b))
                                   /\ Known(b) /\ b # HeadRole => (OnHead(b)' <=> OnHead(b))
<1>1. HeadRole \in Roles /\ \A b \in Roles : b # HeadRole => b \in Aliases
  BY DEF Roles
<1> SUFFICES ASSUME NEW b \in Roles, b # a
             PROVE  /\ Known(b)' <=> Known(b)
                    /\ IpOf(b)' = IpOf(b) /\ (Known(b) => StepsOf(b)' = StepsOf(b))
                    /\ Known(b) /\ b # HeadRole => (OnHead(b)' <=> OnHead(b))
  OBVIOUS
<1>2. (Known(b)' <=> Known(b)) /\ IpOf(b)' = IpOf(b) /\ config'[b].profile = config[b].profile
  BY DEF Known, IpOf
<1>3. ASSUME Known(b), b # HeadRole PROVE OnHead(b)' <=> OnHead(b)
  <2>1. CASE a = HeadRole
    BY <1>1, <1>3, <2>1 DEF Workers
  <2>2. CASE a # HeadRole
    <3>1. (Known(HeadRole)' <=> Known(HeadRole)) /\ IpOf(HeadRole)' = IpOf(HeadRole)
      BY <1>1, <2>2 DEF Known, IpOf
    <3> QED BY <1>2, <3>1 DEF OnHead
  <2> QED BY <2>1, <2>2
<1> QED BY <1>2, <1>3 DEF StepsOf

\* Of whom a new role is told.
LEMMA NewRole ==
  ASSUME SeedAssumption, Inv, RecordEntry, NEW a \in Roles, a = Current.role, NewEntry(a)
  PROVE  /\ Known(a)' /\ IpOf(a)' = Current.ip /\ Current.ip \in Machines /\ config'[a].done = {}
         /\ \A b \in Roles : b # a => /\ Known(b)' <=> Known(b)
                                      /\ IpOf(b)' = IpOf(b) /\ (Known(b) => StepsOf(b)' = StepsOf(b))
                                      /\ Known(b) /\ b # HeadRole => (OnHead(b)' <=> OnHead(b))
         /\ \A b \in Workers : b # a /\ IpOf(b) # Current.ip
         /\ Workers' = IF a = HeadRole THEN Workers ELSE Workers \cup {a}
<1>1. Known(a)' /\ IpOf(a)' = Current.ip /\ config'[a].done = {}
  BY EntryIsSomething DEF NewEntry, Known, IpOf
<1>2. Current.ip \in Machines
  BY PhaseAtHand DEF RecordEntry, InPhase, Fits
<1>3. \A b \in Workers : b # a /\ IpOf(b) # Current.ip
  BY DEF NewEntry, WorkersAt, Workers
<1>4. a = HeadRole => \A w \in Workers : ~OnHead(w) /\ ~OnHead(w)'
  <2> SUFFICES ASSUME a = HeadRole, NEW w \in Workers PROVE ~OnHead(w) /\ ~OnHead(w)'
    OBVIOUS
  <2>1. w \in Roles /\ w # a
    BY SeedAssumption DEF Workers, Roles
  <2>2. IpOf(w)' = IpOf(w) /\ IpOf(w) # Current.ip
    BY <1>3, <2>1 DEF NewEntry, IpOf
  <2> QED BY <1>1, <2>2 DEF OnHead, NewEntry
<1>5. \A b \in Roles : b # a => /\ Known(b)' <=> Known(b)
                                /\ IpOf(b)' = IpOf(b) /\ (Known(b) => StepsOf(b)' = StepsOf(b))
                                /\ Known(b) /\ b # HeadRole => (OnHead(b)' <=> OnHead(b))
  BY <1>4, OtherRoles DEF NewEntry
<1>6. Workers' = IF a = HeadRole THEN Workers ELSE Workers \cup {a}
  <2>1. Aliases = Roles \ {HeadRole}
    BY SeedAssumption DEF Roles
  <2> QED BY <1>1, <1>5, <2>1 DEF Workers
<1> QED BY <1>1, <1>2, <1>3, <1>5, <1>6

LEMMA GoneRole ==
  ASSUME SeedAssumption, Inv, NEW a \in Roles, NoEntry(a)
  PROVE  /\ ~Known(a)'
         /\ \A b \in Roles : b # a => /\ Known(b)' <=> Known(b)
                                      /\ IpOf(b)' = IpOf(b) /\ (Known(b) => StepsOf(b)' = StepsOf(b))
                                      /\ Known(b) /\ b # HeadRole => (OnHead(b)' <=> OnHead(b))
         /\ Workers' = Workers \ {a}
<1>1. ~Known(a)'
  BY DEF NoEntry, Known
<1>2. \A b \in Roles : b # a => /\ Known(b)' <=> Known(b)
                                /\ IpOf(b)' = IpOf(b) /\ (Known(b) => StepsOf(b)' = StepsOf(b))
                                /\ Known(b) /\ b # HeadRole => (OnHead(b)' <=> OnHead(b))
  BY OtherRoles DEF NoEntry
<1>3. Workers' = Workers \ {a}
  <2>1. Aliases \subseteq Roles
    BY DEF Roles
  <2> QED BY <1>1, <1>2, <2>1 DEF Workers
<1> QED BY <1>1, <1>2, <1>3

LEMMA TypesKept ==
  ASSUME SeedAssumption, Inv, Next
  PROVE  TypeInv'
<1>1. FewWorkers'
  <2>1. FewWorkers
    BY DEF Inv, TypeInv
  <2>2. CASE SameEntries
    BY <2>1, <2>2, SameRoles DEF FewWorkers
  <2>3. CASE RecordEntry /\ NewEntry(Current.role)
    <3>1. Current.role \in Roles
      BY <2>3, RecordEntryCases
    <3>2. Workers' \in {Workers, Workers \cup {Current.role}}
      BY <2>3, <3>1, NewRole
    <3> QED BY <2>1, <3>2, FS_AddElement DEF FewWorkers
  <2>4. CASE Forget /\ NoEntry(Current.role)
    <3>1. Current.role \in Roles
      BY <2>4, ForgetCases
    <3>2. Workers' = Workers \ {Current.role}
      BY <2>4, <3>1, GoneRole
    <3> QED BY <2>1, <3>2, FS_RemoveElement DEF FewWorkers
  <2> QED BY <2>2, <2>3, <2>4, ConfigStays
<1>2. ConfigTyped'
  BY ConfigStays
<1> QED BY <1>1, <1>2, BoundsTyped, MachinesTyped, CommandTyped DEF TypeInv

\* Whose steps are whose.
LEMMA StepsOwned ==
  ASSUME SeedAssumption, NEW a \in Roles, Known(a)
  PROVE  /\ {"K3sServer", "ControlPlaneDetails", "HeadServer", "Kubeconfig"} \cap StepsOf(a) # {} => a = HeadRole
         /\ "JoinCluster" \in StepsOf(a) => a \in Workers /\ a # HeadRole /\ ~OnHead(a)
         /\ a = HeadRole => {"K3sServer", "ControlPlaneDetails"} \subseteq StepsOf(a)
         /\ a # HeadRole /\ ~OnHead(a) => "JoinCluster" \in StepsOf(a)
<1>1. a # HeadRole => a \in Workers
  BY DEF Roles, Workers
<1> QED BY <1>1 DEF StepsOf, HeadSteps

\* Two roles at one address have no step in common.
LEMMA DisjointSteps ==
  ASSUME SeedAssumption, OneWorkerEach, NEW a \in Roles, NEW b \in Roles, a # b,
         Known(a), Known(b), IpOf(a) = IpOf(b)
  PROVE  StepsOf(a) \cap StepsOf(b) = {}
<1>1. \A c \in Roles : c # HeadRole /\ Known(c) => c \in Workers
  BY DEF Roles, Workers
<1>2. a = HeadRole \/ b = HeadRole
  BY <1>1 DEF OneWorkerEach
<1>3. CASE a = HeadRole
  <2>1. b # HeadRole /\ OnHead(b)
    BY <1>3 DEF OnHead
  <2> QED BY <1>3, <2>1 DEF StepsOf, HeadSteps
<1>4. CASE b = HeadRole
  <2>1. a # HeadRole /\ OnHead(a)
    BY <1>4 DEF OnHead
  <2> QED BY <1>4, <2>1 DEF StepsOf, HeadSteps
<1> QED BY <1>2, <1>3, <1>4

LEMMA OneWorkerEachKept ==
  ASSUME SeedAssumption, Inv, Next
  PROVE  OneWorkerEach'
<1>1. OneWorkerEach
  BY DEF Inv, FileInv
<1>2. Aliases \subseteq Roles /\ Workers \subseteq Roles
  BY DEF Roles, Workers
<1>3. CASE SameEntries
  BY <1>1, <1>2, <1>3, SameRoles DEF OneWorkerEach
<1>4. CASE RecordEntry /\ NewEntry(Current.role)
  <2>1. PICK a \in Roles : a = Current.role
    BY <1>4, RecordEntryCases
  <2>2. /\ IpOf(a)' = Current.ip /\ (\A b \in Roles : b # a => IpOf(b)' = IpOf(b))
        /\ \A b \in Workers : b # a /\ IpOf(b) # Current.ip
    BY <1>4, <2>1, NewRole
  <2>3. Workers' = IF a = HeadRole THEN Workers ELSE Workers \cup {a}
    BY <1>4, <2>1, NewRole
  <2>4. \A b \in Workers : IpOf(b)' = IpOf(b)
    BY <1>2, <2>2
  <2>5. SUFFICES ASSUME NEW b \in Workers', NEW c \in Workers', IpOf(b)' = IpOf(c)'
                 PROVE  b = c
    BY DEF OneWorkerEach
  <2>6. CASE b \in Workers /\ c \in Workers
    BY <1>1, <2>4, <2>5, <2>6 DEF OneWorkerEach
  <2>7. CASE b = a /\ c \in Workers
    BY <2>2, <2>4, <2>5, <2>7
  <2>8. CASE c = a /\ b \in Workers
    BY <2>2, <2>4, <2>5, <2>8
  <2> QED BY <2>3, <2>6, <2>7, <2>8
<1>5. CASE Forget /\ NoEntry(Current.role)
  <2>1. PICK a \in Roles : a = Current.role
    BY <1>5, ForgetCases
  <2>2. (\A b \in Roles : b # a => IpOf(b)' = IpOf(b)) /\ Workers' = Workers \ {a}
    BY <1>5, <2>1, GoneRole
  <2> QED BY <1>1, <1>2, <2>2 DEF OneWorkerEach
<1> QED BY <1>3, <1>4, <1>5, ConfigStays

LEMMA StepsOfEntriesKept ==
  ASSUME SeedAssumption, Inv, Next
  PROVE  StepsOfEntries'
<1>1. StepsOfEntries /\ installed \in [Machines -> SUBSET Names]
  BY DEF Inv, FileInv, TypeInv
<1> SUFFICES ASSUME NEW m \in Machines, NEW n \in installed'[m]
             PROVE  \E a \in Roles : Known(a)' /\ IpOf(a)' = m /\ n \in StepsOf(a)'
  BY DEF StepsOfEntries
<1>2. ASSUME n \in installed[m]
      PROVE  \E a \in Roles : Known(a)' /\ IpOf(a)' = m /\ n \in StepsOf(a)'
  <2>1. PICK b \in Roles : Known(b) /\ IpOf(b) = m /\ n \in StepsOf(b)
    BY <1>1, <1>2 DEF StepsOfEntries
  <2>2. CASE SameEntries
    BY <2>1, <2>2, SameRoles
  <2>3. CASE RecordEntry /\ NewEntry(Current.role)
    <3> DEFINE a == Current.role
    <3>1. a \in Roles /\ ~Known(a)
      BY <2>3, RecordEntryCases DEF NewEntry
    <3>2. (Known(b)' <=> Known(b)) /\ IpOf(b)' = IpOf(b) /\ StepsOf(b)' = StepsOf(b)
      BY <2>1, <2>3, <3>1, NewRole
    <3> QED BY <2>1, <3>2
  <2>4. CASE Forget /\ NoEntry(Current.role)
    <3> DEFINE a == Current.role
    <3>1. a \in Roles /\ TornDown(a)
      BY <2>4, ForgetCases
    <3>2. b # a
      BY <1>2, <2>1, <3>1 DEF TornDown
    <3>3. (Known(b)' <=> Known(b)) /\ IpOf(b)' = IpOf(b) /\ StepsOf(b)' = StepsOf(b)
      BY <2>1, <2>4, <3>1, <3>2, GoneRole
    <3> QED BY <2>1, <3>3
  <2> QED BY <2>2, <2>3, <2>4, ConfigStays
<1>3. ASSUME n \notin installed[m]
      PROVE  \E a \in Roles : Known(a)' /\ IpOf(a)' = m /\ n \in StepsOf(a)'
  <2>1. cg.ops # <<>> /\ Stands
    <3>1. ~Destroy
      BY <1>1, <1>3 DEF Destroy
    <3>2. installed' # installed
      BY <1>3
    <3>3. ~Falls
      <4> SUFFICES ASSUME Falls PROVE FALSE
        OBVIOUS
      <4>1. installed'[m] \subseteq installed[m]
        BY <1>1 DEF Falls
      <4> QED BY <1>3, <4>1
    <3> QED BY <3>1, <3>2, <3>3, InstalledMoves
  <2>2. /\ cg.role \in Roles /\ Known(cg.role) /\ Host \in Machines /\ Host = IpOf(cg.role)
        /\ Op1.name \in StepsOf(cg.role)
    BY <2>1, OperatorAtHand
  <2>3. m = Host /\ n = Op1.name
    BY <1>1, <1>3, <2>1, <2>2 DEF Stands
  <2>4. SameEntries
    BY <2>1, ConfigStays, RecordEntryCases, ForgetCases
  <2> QED BY <2>2, <2>3, <2>4, SameRoles
<1> QED BY <1>2, <1>3

LEMMA DoneOfEntriesKept ==
  ASSUME SeedAssumption, Inv, Next
  PROVE  DoneOfEntries'
<1>1. DoneOfEntries
  BY DEF Inv, FileInv
<1> SUFFICES ASSUME NEW b \in Roles, Known(b)'
             PROVE  config'[b].done \subseteq StepsOf(b)'
  BY DEF DoneOfEntries
<1>2. CASE SameEntries /\ (config' = config \/ (OnStepDone /\ b # cg.role))
  <2>1. Known(b) /\ StepsOf(b)' = StepsOf(b)
    BY <1>2, SameRoles
  <2>2. config'[b] = config[b]
    BY <1>2, StepRecorded DEF Inv, TypeInv, ConfigTyped
  <2> QED BY <1>1, <2>1, <2>2 DEF DoneOfEntries
<1>3. CASE SameEntries /\ OnStepDone /\ b = cg.role
  <2>1. Known(b) /\ StepsOf(b)' = StepsOf(b)
    BY <1>3, SameRoles
  <2>2. Op1.name \in StepsOf(b)
    BY <1>3, OnStepDoneMoves, OperatorAtHand
  <2>3. config'[b].done = RecordStep(config[b].done, Op1.name, cg.way)
    BY <1>3, StepRecorded DEF Inv, TypeInv, ConfigTyped
  <2> QED BY <1>1, <2>1, <2>2, <2>3 DEF DoneOfEntries, RecordStep
<1>4. CASE RecordEntry /\ NewEntry(Current.role)
  <2>1. Current.role \in Roles
    BY <1>4, RecordEntryCases
  <2>2. CASE b = Current.role
    BY <1>4, <2>2 DEF NewEntry
  <2>3. CASE b # Current.role
    <3>1. Known(b) /\ StepsOf(b)' = StepsOf(b) /\ config'[b] = config[b]
      BY <1>4, <2>1, <2>3, NewRole DEF NewEntry
    <3> QED BY <1>1, <3>1 DEF DoneOfEntries
  <2> QED BY <2>2, <2>3
<1>5. CASE Forget /\ NoEntry(Current.role)
  <2>1. Current.role \in Roles
    BY <1>5, ForgetCases
  <2>2. b # Current.role
    BY <1>5, <2>1, GoneRole
  <2>3. Known(b) /\ StepsOf(b)' = StepsOf(b) /\ config'[b] = config[b]
    BY <1>5, <2>1, <2>2, GoneRole DEF NoEntry
  <2> QED BY <1>1, <2>3 DEF DoneOfEntries
<1>6. SameEntries => config' = config \/ OnStepDone
  <2> SUFFICES ASSUME SameEntries, config' # config, RecordEntry \/ Forget PROVE FALSE
    BY ConfigMoves
  <2>1. CASE RecordEntry
    <3>1. ~Known(Current.role) /\ config'[Current.role] \in Entries /\ Current.role \in Roles
      BY <2>1, RecordEntryCases DEF Inv, TypeInv, ConfigTyped
    <3> QED BY <3>1, EntryIsSomething DEF SameEntries, Known
  <2>2. CASE Forget
    <3>1. Current.role \in Roles /\ config' = [config EXCEPT ![Current.role] = Nothing]
      BY <2>2, ForgetCases
    <3>2. config[Current.role] = Nothing
      BY <3>1 DEF SameEntries, Inv, TypeInv, ConfigTyped
    <3>3. config' = config
      BY <3>1, <3>2 DEF Inv, TypeInv, ConfigTyped
    <3> QED BY <3>3
  <2> QED BY <2>1, <2>2
<1> QED BY <1>2, <1>3, <1>4, <1>5, <1>6, ConfigStays

-----------------------------------------------------------------------------
(* Servers and those who join them *)

LEMMA NothingRecorded ==
  ASSUME Inv, cg.ops # <<>>
  PROVE  ~RecordEntry /\ ~Forget /\ ~Destroy
BY DEF RecordEntry, Forget, Destroy, InPhase

\* The operators of the head and of a worker elsewhere run for these.
LEMMA ServersOperator ==
  ASSUME SeedAssumption, Inv, cg.ops # <<>>,
         Op1.name \in {"K3sServer", "ControlPlaneDetails", "HeadServer", "Kubeconfig"}
  PROVE  cg.role = HeadRole /\ Known(HeadRole) /\ Host = IpOf(HeadRole) /\ Host \in Machines
<1>1. /\ Op1.name \in StepsOf(cg.role) /\ cg.role \in Roles /\ Known(cg.role) /\ Host = IpOf(cg.role)
      /\ Host \in Machines
  BY OperatorAtHand
<1> QED BY <1>1, StepsOwned
LEMMA JoinsOperator ==
  ASSUME SeedAssumption, Inv, cg.ops # <<>>, Op1.name = "JoinCluster"
  PROVE  cg.role # HeadRole /\ cg.role \in WorkersAt(Host) /\ ~OnHead(cg.role) /\ Host \in Machines
<1>1. /\ Op1.name \in StepsOf(cg.role) /\ cg.role \in Roles /\ Known(cg.role) /\ Host = IpOf(cg.role)
      /\ Host \in Machines
  BY OperatorAtHand
<1> QED BY <1>1, StepsOwned DEF WorkersAt

\* A server is taken down when no worker is left.
LEMMA ServerGoesLast ==
  ASSUME SeedAssumption, Inv, TearDownServer \/ Destroy
  PROVE  Workers = {}
<1>1. CASE TearDownServer
  <2>1. cg.ops # <<>> /\ cg.way = "teardown" /\ Op1.name = "K3sServer"
    BY <1>1 DEF TearDownServer, Doing
  <2>2. cg.plan # <<>> /\ Current.do = "teardown" /\ Current.role = HeadRole
    BY <2>1, OperatorAtHand, ServersOperator
  <2> QED BY <2>2, PhaseAtHand DEF Takes
<1>2. CASE Destroy
  <2>1. cg.plan # <<>> /\ Current.do = "destroy"
    BY <1>2 DEF Destroy, InPhase
  <2>2. Current.role = HeadRole
    BY <2>1, PhaseAtHand DEF Fits
  <2> QED BY <2>1, <2>2, PhaseAtHand DEF Takes
<1> QED BY <1>1, <1>2

\* Otherwise it stands.
LEMMA ServersStay ==
  ASSUME Inv, Next, ~TearDownServer, ~Destroy, NEW m \in Machines, k3s[m].kind = "server"
  PROVE  k3s'[m] = k3s[m]
<1>1. k3s \in [Machines -> [kind : Kinds, cluster : 0..made]]
  BY DEF Inv, TypeInv
<1>2. CASE SetUpServer
  BY <1>1, <1>2, SetUpServerCases
<1>3. CASE DirectJoin
  <2>1. k3s[m] # NoK3s
    BY DEF NoK3s
  <2> QED BY <1>1, <1>3, <2>1 DEF DirectJoin
<1>4. CASE UninstallAgent
  BY <1>1, <1>4 DEF UninstallAgent
<1>5. ASSUME NEW n \in Machines, JoinInstalls(n) PROVE k3s'[m] = k3s[m]
  BY <1>1, <1>5 DEF JoinInstalls
<1> QED BY <1>2, <1>3, <1>4, <1>5, K3sMoves
LEMMA ClustersStay ==
  ASSUME Inv, Next, ~TearDownServer, ~Destroy
  PROVE  Clusters \subseteq Clusters'
<1> SUFFICES ASSUME NEW m \in Machines, k3s[m].kind = "server" PROVE k3s[m].cluster \in Clusters'
  BY DEF Clusters
<1>1. k3s'[m] = k3s[m]
  BY ServersStay
<1> QED BY <1>1 DEF Clusters

\* Where a server comes from.
LEMMA ServersAppear ==
  ASSUME SeedAssumption, Inv, Next, NEW m \in Machines, k3s'[m].kind = "server",
         k3s'[m] # k3s[m]
  PROVE  SetUpServer /\ m = Host /\ k3s[m].kind = "none"
<1>1. k3s \in [Machines -> [kind : Kinds, cluster : 0..made]]
  BY DEF Inv, TypeInv
<1>2. CASE Destroy
  BY <1>1, <1>2 DEF Destroy, NoK3s
<1>3. CASE SetUpServer
  BY <1>1, <1>3, SetUpServerCases
<1>4. CASE TearDownServer
  BY <1>1, <1>4 DEF TearDownServer, NoK3s
<1>5. CASE DirectJoin
  BY <1>1, <1>5 DEF DirectJoin, Agent
<1>6. CASE UninstallAgent
  BY <1>1, <1>6 DEF UninstallAgent, NoK3s
<1>7. ASSUME NEW n \in Machines, JoinInstalls(n) PROVE FALSE
  BY <1>1, <1>7 DEF JoinInstalls, Agent
<1> QED BY <1>2, <1>3, <1>4, <1>5, <1>6, <1>7, K3sMoves

LEMMA ServerOfHeadKept ==
  ASSUME SeedAssumption, Inv, Next
  PROVE  ServerOfHead'
<1>1. ServerOfHead
  BY DEF Inv, FileInv
<1>2. HeadRole \in Roles
  BY DEF Roles
<1> SUFFICES ASSUME NEW m \in Machines, k3s'[m].kind = "server"
             PROVE  Known(HeadRole)' /\ IpOf(HeadRole)' = m
  BY DEF ServerOfHead
<1>3. CASE k3s'[m] = k3s[m]
  <2>1. Known(HeadRole) /\ IpOf(HeadRole) = m
    BY <1>1, <1>3 DEF ServerOfHead
  <2>2. CASE SameEntries
    BY <1>2, <2>1, <2>2, SameRoles
  <2>3. CASE RecordEntry /\ NewEntry(Current.role)
    <3>1. Current.role \in Roles /\ Current.role # HeadRole
      BY <2>1, <2>3, RecordEntryCases DEF NewEntry
    <3> QED BY <1>2, <2>1, <2>3, <3>1, NewRole
  <2>4. CASE Forget /\ NoEntry(Current.role)
    <3>1. Current.role \in Roles /\ TornDown(Current.role)
      BY <2>4, ForgetCases
    <3>2. Current.role # HeadRole
      BY <1>3, <2>1, <3>1 DEF TornDown
    <3> QED BY <1>2, <2>1, <2>4, <3>1, <3>2, GoneRole
  <2> QED BY <2>2, <2>3, <2>4, ConfigStays
<1>4. CASE k3s'[m] # k3s[m]
  <2>1. SetUpServer /\ m = Host
    BY <1>4, ServersAppear
  <2>2. cg.ops # <<>> /\ Op1.name = "K3sServer"
    BY <2>1, SetUpServerCases
  <2>3. Known(HeadRole) /\ IpOf(HeadRole) = m
    BY <2>1, <2>2, ServersOperator
  <2>4. SameEntries
    BY <2>2, NothingRecorded, ConfigStays
  <2> QED BY <1>2, <2>3, <2>4, SameRoles
<1> QED BY <1>3, <1>4

LEMMA TokensOfServersKept ==
  ASSUME SeedAssumption, Inv, Next
  PROVE  TokensOfServers'
<1>1. /\ TokensOfServers /\ k3s \in [Machines -> [kind : Kinds, cluster : 0..made]]
      /\ secrets \in [Machines -> [token : 0..made, address : BOOLEAN]]
  BY DEF Inv, FileInv, TypeInv
<1> SUFFICES ASSUME NEW m \in Machines, secrets'[m].token # 0
             PROVE  k3s'[m].kind = "server" /\ k3s'[m].cluster = secrets'[m].token
  BY DEF TokensOfServers
<1>2. CASE secrets'[m].token = secrets[m].token
  <2>1. k3s[m].kind = "server" /\ k3s[m].cluster = secrets'[m].token
    BY <1>1, <1>2 DEF TokensOfServers
  <2>2. ~Destroy
    <3> SUFFICES ASSUME Destroy PROVE FALSE
      OBVIOUS
    <3>1. Workers = {} /\ cg.plan # <<>> /\ cg.ops = <<>> /\ Current.do = "destroy"
      BY ServerGoesLast DEF Destroy, InPhase
    <3>2. Current.role = HeadRole
      BY <3>1, PhaseAtHand DEF Fits
    <3>3. TornDown(HeadRole)
      BY <3>1, <3>2 DEF Inv, CommandInv, TornInv
    <3>4. Known(HeadRole) /\ IpOf(HeadRole) = m
      BY <2>1 DEF Inv, FileInv, ServerOfHead
    <3> QED BY <2>1, <3>3, <3>4 DEF TornDown
  <2>3. TearDownServer => m # Host
    <3> SUFFICES ASSUME TearDownServer, m = Host PROVE FALSE
      OBVIOUS
    <3>1. /\ cg.ops # <<>> /\ cg.way = "teardown" /\ Op1.name = "K3sServer"
      BY DEF TearDownServer, Doing
    <3>2. /\ cg.role = HeadRole /\ cg.ops \in Seq(Operator) /\ K3sFirst(cg.ops, "teardown")
      BY <3>1, OperatorAtHand, ServersOperator
    <3>3. "ControlPlaneDetails" \notin Left
      BY <3>1, <3>2, ServerOnce DEF Left, Op1
    <3>4. Tearing
      BY <3>1 DEF Inv, CommandInv, OpsInv
    <3>5. secrets[Host].token = 0
      BY <3>2, <3>3, <3>4 DEF Tearing, Undone
    <3> QED BY <3>5, <1>2
  <2>4. k3s'[m] = k3s[m]
    <3>1. CASE TearDownServer
      BY <1>1, <2>3, <3>1 DEF TearDownServer
    <3> QED BY <2>1, <2>2, <3>1, ServersStay
  <2> QED BY <2>1, <2>4
<1>3. CASE secrets'[m].token # secrets[m].token
  <2>1. PublishToken
    <3>1. CASE Destroy
      BY <1>1, <1>3, <3>1 DEF Destroy, NoSecrets
    <3>2. CASE PublishAddress
      BY <1>1, <1>3, <3>2 DEF PublishAddress, SetSecret
    <3>3. CASE DeleteToken
      <4>1. secrets' = [secrets EXCEPT ![Host]["token"] = 0]
        BY <3>3 DEF DeleteToken, DropSecret, NoSecrets
      <4> QED BY <1>1, <1>3, <4>1
    <3>4. CASE DeleteAddress
      BY <1>1, <1>3, <3>4 DEF DeleteAddress, DropSecret, NoSecrets
    <3> QED BY <1>3, <3>1, <3>2, <3>3, <3>4, SecretsMove
  <2>2. cg.ops # <<>> /\ Can /\ cg.way = "setup" /\ Op1.name = "ControlPlaneDetails" /\ k3s' = k3s
    BY <2>1 DEF PublishToken, Doing
  <2>3. m = Host /\ secrets'[m].token = k3s[m].cluster
    BY <1>1, <1>3, <2>1 DEF PublishToken, SetSecret
  <2>4. "server" \in Op1.up
    BY <2>2, OperatorAtHand DEF Operator
  <2>5. k3s[Host].kind = "server"
    BY <2>2, <2>4 DEF Can, Meets
  <2> QED BY <2>2, <2>3, <2>5
<1> QED BY <1>2, <1>3

\* Where an agent or a join comes from.
LEMMA JoinsAppear ==
  ASSUME Inv, Next, NEW m \in Machines, Joins(m)', ~Joins(m)
  PROVE  (DirectJoin \/ DeferredJoin) /\ m = Host
<1>1. /\ k3s \in [Machines -> [kind : Kinds, cluster : 0..made]]
      /\ join \in [Machines -> [timer : BOOLEAN, script : {"idle", "install", "remove"}, token : 0..made]]
  BY DEF Inv, TypeInv
<1>2. k3s[m].kind # "agent" /\ ~join[m].timer /\ join[m].script # "install"
  BY DEF Joins
<1>3. ASSUME k3s'[m].kind = "agent" PROVE DirectJoin /\ m = Host
  <2>1. CASE Destroy
    BY <1>1, <1>2, <1>3, <2>1 DEF Destroy, NoK3s
  <2>2. CASE SetUpServer
    BY <1>1, <1>2, <1>3, <2>2, SetUpServerCases
  <2>3. CASE TearDownServer
    BY <1>1, <1>2, <1>3, <2>3 DEF TearDownServer, NoK3s
  <2>4. CASE DirectJoin
    BY <1>1, <1>2, <1>3, <2>4 DEF DirectJoin
  <2>5. CASE UninstallAgent
    BY <1>1, <1>2, <1>3, <2>5 DEF UninstallAgent, NoK3s
  <2>6. ASSUME NEW n \in Machines, JoinInstalls(n) PROVE FALSE
    <3>1. n # m
      BY <1>2, <2>6 DEF JoinInstalls
    <3> QED BY <1>1, <1>2, <1>3, <2>6, <3>1 DEF JoinInstalls
  <2> QED BY <1>2, <1>3, <2>1, <2>2, <2>3, <2>4, <2>5, <2>6, K3sMoves
<1>4. ASSUME join'[m].timer \/ join'[m].script = "install" PROVE DeferredJoin /\ m = Host
  <2>1. CASE Destroy
    <3>1. join'[m] = join[m] \/ join'[m] = NoJoin
      BY <1>1, <2>1 DEF Destroy
    <3> QED BY <1>2, <1>4, <3>1 DEF NoJoin
  <2>2. CASE DeferredJoin
    <3>1. join'[m] = join[m] \/ m = Host
      BY <1>1, <2>2 DEF DeferredJoin
    <3> QED BY <1>2, <1>4, <2>2, <3>1
  <2>3. CASE RemoveTimer
    <3>1. join' = [join EXCEPT ![Host].timer = FALSE]
      BY <2>3 DEF RemoveTimer
    <3>2. join'[m] = join[m] \/ (~join'[m].timer /\ join'[m].script = join[m].script)
      BY <1>1, <3>1
    <3> QED BY <1>2, <1>4, <3>2
  <2>4. ASSUME NEW n \in Machines, TimerFires(n) PROVE FALSE
    <3>1. n # m
      BY <1>2, <2>4 DEF TimerFires
    <3>2. join'[m] = join[m]
      BY <1>1, <2>4, <3>1 DEF TimerFires
    <3> QED BY <1>2, <1>4, <3>2
  <2>5. ASSUME NEW n \in Machines, JoinInstalls(n) \/ JoinDownloadsNothing(n) PROVE FALSE
    <3>1. n # m
      BY <1>2, <2>5 DEF JoinInstalls, JoinDownloadsNothing
    <3>2. join'[m] = join[m]
      BY <1>1, <2>5, <3>1 DEF JoinInstalls, JoinDownloadsNothing
    <3> QED BY <1>2, <1>4, <3>2
  <2>6. ASSUME NEW n \in Machines, SelfRemove(n) PROVE FALSE
    <3>1. join'[m] = join[m] \/ join'[m] = NoJoin
      BY <1>1, <2>6 DEF SelfRemove
    <3> QED BY <1>2, <1>4, <3>1 DEF NoJoin
  <2> QED BY <1>2, <1>4, <2>1, <2>2, <2>3, <2>4, <2>5, <2>6, JoinMoves
<1> QED BY <1>3, <1>4 DEF Joins

LEMMA JoinsOfWorkersKept ==
  ASSUME SeedAssumption, Inv, Next
  PROVE  JoinsOfWorkers'
<1>1. JoinsOfWorkers
  BY DEF Inv, FileInv
<1> SUFFICES ASSUME NEW m \in Machines, m \notin late', Joins(m)'
             PROVE  \E a \in WorkersAt(m)' : ~OnHead(a)'
  BY DEF JoinsOfWorkers
<1>2. \E a \in WorkersAt(m) : ~OnHead(a)
  <2>1. CASE Joins(m)
    BY <1>1, <2>1, LateGrows DEF JoinsOfWorkers
  <2>2. CASE ~Joins(m)
    <3>1. (DirectJoin \/ DeferredJoin) /\ m = Host
      BY <2>2, JoinsAppear
    <3>2. cg.ops # <<>> /\ Op1.name = "JoinCluster"
      BY <3>1 DEF DirectJoin, DeferredJoin, Doing
    <3> QED BY <3>1, <3>2, JoinsOperator
  <2> QED BY <2>1, <2>2
<1>3. PICK b \in WorkersAt(m) : ~OnHead(b)
  BY <1>2
<1>4. b \in Roles /\ b # HeadRole /\ Known(b) /\ IpOf(b) = m /\ b \in Aliases
  BY SeedAssumption DEF WorkersAt, Workers, Roles
<1>5. CASE SameEntries
  BY <1>3, <1>4, <1>5, SameRoles
<1>6. CASE RecordEntry /\ NewEntry(Current.role)
  <2>1. PICK a \in Roles : a = Current.role
    BY <1>6, RecordEntryCases
  <2>2. b # a
    BY <1>4, <1>6, <2>1 DEF NewEntry
  <2>3. Known(b)' /\ IpOf(b)' = m /\ ~OnHead(b)'
    BY <1>3, <1>4, <1>6, <2>1, <2>2, NewRole
  <2> QED BY <1>4, <2>3 DEF WorkersAt, Workers
<1>7. CASE Forget /\ NoEntry(Current.role)
  <2>1. PICK a \in Roles : a = Current.role
    BY <1>7, ForgetCases
  <2>2. b # a
    <3> SUFFICES ASSUME b = a PROVE FALSE
      OBVIOUS
    <3>1. TornDown(b) /\ k3s' = k3s /\ join' = join /\ late' = late
      BY <1>7, <2>1, ForgetCases
    <3>2. Elsewhere(b)
      BY <1>3, <1>4, <3>1 DEF Elsewhere
    <3>3. k3s[m].kind # "agent" /\ NoJoinLeft(m)
      BY <1>4, <3>1, <3>2 DEF TornDown
    <3>4. Joins(m)
      BY <3>1 DEF Joins
    <3> QED BY <3>3, <3>4 DEF Joins, NoJoinLeft
  <2>3. Known(b)' /\ IpOf(b)' = m /\ ~OnHead(b)'
    BY <1>3, <1>4, <1>7, <2>1, <2>2, GoneRole
  <2> QED BY <1>4, <2>3 DEF WorkersAt, Workers
<1> QED BY <1>5, <1>6, <1>7, ConfigStays

LEMMA TokensOfAgentsKept ==
  ASSUME SeedAssumption, Inv, Next
  PROVE  TokensOfAgents'
<1>1. /\ TokensOfAgents /\ JoinsOfWorkers
      /\ k3s \in [Machines -> [kind : Kinds, cluster : 0..made]]
      /\ join \in [Machines -> [timer : BOOLEAN, script : {"idle", "install", "remove"}, token : 0..made]]
  BY DEF Inv, FileInv, TypeInv
<1> SUFFICES ASSUME NEW m \in Machines, m \notin late'
             PROVE  /\ k3s'[m].kind = "agent" => k3s'[m].cluster \in Clusters'
                    /\ join'[m].script = "install" => join'[m].token \in Clusters'
  BY DEF TokensOfAgents
<1>2. m \notin late
  BY LateGrows
<1>3. CASE TearDownServer \/ Destroy
  <2>1. ~Joins(m)
    BY <1>1, <1>2, <1>3, ServerGoesLast DEF JoinsOfWorkers, WorkersAt
  <2>2. ~DirectJoin /\ ~DeferredJoin
    <3>1. CASE TearDownServer
      BY <3>1 DEF TearDownServer, DirectJoin, DeferredJoin, Doing
    <3>2. CASE Destroy
      BY <3>2 DEF Destroy, InPhase, DirectJoin, DeferredJoin, Doing
    <3> QED BY <1>3, <3>1, <3>2
  <2>3. ~Joins(m)'
    BY <2>1, <2>2, JoinsAppear
  <2> QED BY <2>3 DEF Joins
<1>4. CASE ~TearDownServer /\ ~Destroy
  <2>1. Clusters \subseteq Clusters'
    BY <1>4, ClustersStay
  <2>2. ASSUME k3s'[m].kind = "agent" PROVE k3s'[m].cluster \in Clusters
    <3>1. CASE k3s'[m] = k3s[m]
      BY <1>1, <1>2, <2>2, <3>1 DEF TokensOfAgents
    <3>2. CASE SetUpServer
      BY <1>1, <1>2, <2>2, <3>2, SetUpServerCases DEF TokensOfAgents
    <3>3. CASE DirectJoin /\ k3s'[m] # k3s[m]
      <4>1. cg.ops # <<>> /\ Op1.name = "JoinCluster" /\ cg.way = "setup" /\ cg.direct
        BY <3>3 DEF DirectJoin, Doing
      <4>2. "JoinCluster" \in Left
        BY <4>1, OperatorAtHand
      <4>3. cg.token \in Clusters
        BY <4>1, <4>2 DEF Inv, CommandInv, OpsInv, SettingUp
      <4>4. k3s'[m] = Agent(cg.token)
        BY <1>1, <3>3 DEF DirectJoin
      <4> QED BY <4>3, <4>4 DEF Agent
    <3>4. CASE UninstallAgent /\ k3s'[m] # k3s[m]
      BY <1>1, <2>2, <3>4 DEF UninstallAgent, NoK3s
    <3>5. ASSUME NEW n \in Machines, JoinInstalls(n), k3s'[m] # k3s[m] PROVE k3s'[m].cluster \in Clusters
      <4>1. n = m /\ k3s'[m] = Agent(join[m].token) /\ join[m].script = "install"
        BY <1>1, <3>5 DEF JoinInstalls
      <4>2. join[m].token \in Clusters
        BY <1>1, <1>2, <4>1 DEF TokensOfAgents
      <4> QED BY <4>1, <4>2 DEF Agent
    <3> QED BY <1>4, <3>1, <3>2, <3>3, <3>4, <3>5, K3sMoves
  <2>3. ASSUME join'[m].script = "install" PROVE join'[m].token \in Clusters
    <3>1. CASE join'[m].script = join[m].script /\ join'[m].token = join[m].token
      BY <1>1, <1>2, <2>3, <3>1 DEF TokensOfAgents
    <3>2. ASSUME NEW n \in Machines, TimerFires(n), n = m PROVE join'[m].token \in Clusters
      <4>1. PICK h \in HeadCreds :
              join' = [join EXCEPT ![n].script = "install", ![n].token = secrets[h].token]
        BY <3>2 DEF TimerFires
      <4>2. join'[m].token = secrets[h].token
        BY <1>1, <3>2, <4>1
      <4> QED BY <4>2, CredsAreOfServers
    <3>3. CASE DeferredJoin \/ RemoveTimer
      <4>1. \/ join' = [join EXCEPT ![Host].timer = TRUE]
            \/ join' = [join EXCEPT ![Host].timer = FALSE]
        BY <3>3 DEF DeferredJoin, RemoveTimer
      <4>2. join'[m].script = join[m].script /\ join'[m].token = join[m].token
        <5>1. CASE join' = [join EXCEPT ![Host].timer = TRUE]
          BY <1>1, <5>1
        <5>2. CASE join' = [join EXCEPT ![Host].timer = FALSE]
          BY <1>1, <5>2
        <5> QED BY <4>1, <5>1, <5>2
      <4> QED BY <3>1, <4>2
    <3>4. ASSUME NEW n \in Machines, TimerFires(n), n # m PROVE join'[m] = join[m]
      BY <1>1, <3>4 DEF TimerFires
    <3>5. ASSUME NEW n \in Machines, JoinInstalls(n) \/ JoinDownloadsNothing(n) \/ SelfRemove(n)
          PROVE  n # m /\ join'[m] = join[m]
      <4>1. join' = [join EXCEPT ![n].script = "remove"] \/ join' = [join EXCEPT ![n] = NoJoin]
        BY <3>5 DEF JoinInstalls, JoinDownloadsNothing, SelfRemove
      <4>2. n # m
        BY <1>1, <2>3, <4>1 DEF NoJoin
      <4> QED BY <1>1, <4>1, <4>2
    <3> QED BY <1>4, <3>1, <3>2, <3>3, <3>4, <3>5, JoinMoves
  <2> QED BY <2>1, <2>2, <2>3
<1> QED BY <1>3, <1>4

LEMMA FileKept ==
  ASSUME SeedAssumption, Inv, Next
  PROVE  FileInv'
BY OneWorkerEachKept, StepsOfEntriesKept, DoneOfEntriesKept, ServerOfHeadKept, JoinsOfWorkersKept,
   TokensOfServersKept, TokensOfAgentsKept DEF FileInv

-----------------------------------------------------------------------------
(* Where `done` and the machine differ *)

LEMMA NamesFinite == IsFiniteSet(Names)
<1>1. \A s, t : IsFiniteSet(s) /\ IsFiniteSet(t) => IsFiniteSet(s \cup t)
  BY FS_Union
<1>2. \A x, y : IsFiniteSet({x, y})
  <2>1. ASSUME NEW x, NEW y PROVE IsFiniteSet({x, y})
    <3>1. IsFiniteSet({x}) /\ IsFiniteSet({y})
      BY FS_Singleton
    <3>2. {x, y} = {x} \cup {y}
      OBVIOUS
    <3> QED BY <1>1, <3>1, <3>2
  <2> QED BY <2>1
<1>3. \A x, y, z, w : IsFiniteSet({x, y, z, w})
  <2>1. ASSUME NEW x, NEW y, NEW z, NEW w PROVE IsFiniteSet({x, y, z, w})
    <3>1. {x, y, z, w} = {x, y} \cup {z, w}
      OBVIOUS
    <3>2. IsFiniteSet({x, y}) /\ IsFiniteSet({z, w})
      BY <1>2
    <3> QED BY <1>1, <3>1, <3>2
  <2> QED BY <2>1
<1> DEFINE a == {"InstallPrereqs", "TailscaleHostname", "HeadServer", "EnvSecrets"}
           b == {"TerraformOutputs", "K3sServer", "Kubeconfig", "LocalPath"}
           c == {"PostgresCredentials", "MinioCredentials", "BootstrapSecrets", "ControlPlaneDetails"}
           d == {"NodeLabel", "WorkerLabels", "ArgoReady", "JoinCluster"}
           e == {"ComputeLabels", "ComputeLabels"}
<1>4. IsFiniteSet(a) /\ IsFiniteSet(b) /\ IsFiniteSet(c) /\ IsFiniteSet(d) /\ IsFiniteSet(e)
  BY <1>2, <1>3
<1>5. Names = (a \cup b) \cup (c \cup d) \cup e
  BY DEF Names
<1> HIDE DEF a, b, c, d, e
<1>6. IsFiniteSet(a \cup b) /\ IsFiniteSet(c \cup d)
  BY <1>1, <1>4
<1>7. IsFiniteSet((a \cup b) \cup (c \cup d))
  BY <1>1, <1>6
<1> QED BY <1>1, <1>4, <1>5, <1>7

\* A smaller difference is no larger.
LEMMA FewerDiffer ==
  ASSUME NEW S, NEW T, T \subseteq Names, S \subseteq T
  PROVE  Cardinality(S) \in Nat /\ Cardinality(T) \in Nat /\ Cardinality(S) <= Cardinality(T)
<1>1. IsFiniteSet(T)
  BY NamesFinite, FS_Subset
<1> QED BY <1>1, FS_Subset, FS_CardinalityType
LEMMA OneMoreDiffers ==
  ASSUME NEW S, NEW T, NEW n, T \subseteq Names, S \subseteq T \cup {n}
  PROVE  Cardinality(S) \in Nat /\ Cardinality(T) \in Nat /\ Cardinality(S) <= Cardinality(T) + 1
<1>1. IsFiniteSet(T)
  BY NamesFinite, FS_Subset
<1>2. /\ IsFiniteSet(T \cup {n}) /\ Cardinality(T) \in Nat
      /\ Cardinality(T \cup {n}) \in {Cardinality(T), Cardinality(T) + 1}
  BY <1>1, FS_AddElement, FS_CardinalityType
<1>3. IsFiniteSet(S) /\ Cardinality(S) \in Nat /\ Cardinality(S) <= Cardinality(T \cup {n})
  BY <1>2, FS_Subset, FS_CardinalityType
<1> QED BY <1>2, <1>3

LEMMA DoneMoves ==
  ASSUME SeedAssumption, Inv, Next
  PROVE  \/ OnStepDone \/ Interrupt \/ Destroy \/ RecordEntry \/ Forget
         \/ /\ config' = config /\ cg.ops # <<>> /\ (Stands \/ Falls \/ installed' = installed)
            /\ cg' = Turned("rest") \/ cg' = Turned("record")
         \/ /\ config' = config /\ installed' = installed
            /\ cg.ops = <<>> \/ cg.at = "do" \/ cg' = cg
<1>1. CASE Operating
  <2>1. CASE SetUpServer
    BY <2>1, SetUpServerCases DEF Turn, Turned
  <2>2. CASE ~SetUpServer /\ ~OnStepDone /\ ~CannotGoOn
    <3>1. cg' = Turned("rest") \/ cg' = Turned("record")
      BY <1>1, <2>2 DEF Operating, SetUpOperator, TearDownOperator, ScrubKubeconfig,
           MergeKubeconfig, TearDownServer, PublishToken, PublishAddress, DeleteToken,
           DeleteAddress, DirectJoin, DeferredJoin, UninstallAgent, RemoveTimer, Turn, Turned
    <3>2. ~Destroy /\ cg.ops # <<>> /\ ~RecordEntry /\ ~Forget
      BY <1>1, OperatingAt, NothingRecorded
    <3>3. config' = config
      BY <2>2, <3>2, ConfigMoves
    <3> QED BY <3>1, <3>2, <3>3, InstalledMoves
  <2>3. CASE CannotGoOn
    BY <2>3 DEF CannotGoOn, machineVars
  <2> QED BY <2>1, <2>2, <2>3
<1>2. CASE Starting
  <2>1. config' = config /\ installed' = installed
    BY <1>2, StartingMoves
  <2>2. cg = Idle
    BY <1>2 DEF Starting, StartAddHead, StartAddWorker, StartDelWorker, StartDelHead, StartDelAll,
         StartRestart, Starts
  <2> QED BY <2>1, <2>2 DEF Idle
<1>3. CASE RunPipeline("setup") \/ RunPipeline("teardown")
  BY <1>3, RunPipelineMoves
<1>4. CASE Apply
  BY <1>4 DEF Apply, InPhase, machineVars
<1>5. CASE \E m \in Machines :
             TimerFires(m) \/ JoinInstalls(m) \/ SelfRemove(m) \/ JoinDownloadsNothing(m)
  BY <1>5 DEF TimerFires, JoinInstalls, SelfRemove, JoinDownloadsNothing
<1> QED BY <1>1, <1>2, <1>3, <1>4, <1>5, Unfold

LEMMA DiffersTyped ==
  ASSUME TypeInv, NEW b \in Roles, Known(b)
  PROVE  /\ Differs(b) \subseteq Names /\ IpOf(b) \in Machines
         /\ config[b].done \subseteq Names /\ installed[IpOf(b)] \subseteq Names
<1>1. IpOf(b) \in Machines /\ config[b].done \subseteq Names
  BY EntryTyped DEF TypeInv
<1>2. installed[IpOf(b)] \subseteq Names
  BY <1>1 DEF TypeInv
<1> QED BY <1>1, <1>2 DEF Differs, Standing

\* Of a role whose entry and machine are as they were.
LEMMA SameDiffers ==
  ASSUME NEW b \in Roles, IpOf(b)' = IpOf(b), StepsOf(b)' = StepsOf(b),
         config'[b].done = config[b].done,
         installed'[IpOf(b)] \cap StepsOf(b) = installed[IpOf(b)] \cap StepsOf(b)
  PROVE  Differs(b)' = Differs(b)
<1>1. Standing(b)' = Standing(b)
  BY DEF Standing
<1> QED BY <1>1 DEF Differs

LEMMA DoneKept ==
  ASSUME SeedAssumption, Inv, Next
  PROVE  DoneInv'
<1> SUFFICES ASSUME NEW b \in Roles, Known(b)'
             PROVE  Cardinality(Differs(b)' \ Pending(b)') <= troubles'
  BY DEF DoneInv
<1>1. /\ TypeInv /\ DoneInv /\ OneWorkerEach /\ troubles \in Nat /\ troubles' \in Nat /\ troubles <= troubles'
  BY BoundsTyped DEF Inv, FileInv, TypeInv
<1>2. ASSUME Known(b), Differs(b)' \ Pending(b)' \subseteq Differs(b) \ Pending(b)
      PROVE  Cardinality(Differs(b)' \ Pending(b)') <= troubles'
  <2> DEFINE S == Differs(b)' \ Pending(b)'
             T == Differs(b) \ Pending(b)
  <2>1. T \subseteq Names /\ S \subseteq T
    BY <1>1, <1>2, DiffersTyped
  <2>2. Cardinality(T) <= troubles
    BY <1>1, <1>2 DEF DoneInv
  <2>3. Cardinality(S) \in Nat /\ Cardinality(T) \in Nat /\ Cardinality(S) <= Cardinality(T)
    BY <2>1, FewerDiffer
  <2> HIDE DEF S, T
  <2>4. Cardinality(S) <= troubles'
    BY <1>1, <2>2, <2>3
  <2> QED BY <2>4 DEF S
<1>3. ASSUME Differs(b)' = {} PROVE Cardinality(Differs(b)' \ Pending(b)') <= troubles'
  <2>1. Differs(b)' \ Pending(b)' = {}
    BY <1>3
  <2>2. Cardinality({}) = 0
    BY FS_EmptySet
  <2> QED BY <1>1, <2>1, <2>2
<1>4. config' = config => SameEntries
  BY DEF SameEntries
<1>5. CASE OnStepDone
  <2>1. cg.ops # <<>> /\ cg.at = "record" /\ installed' = installed /\ SameEntries
    BY <1>5, OnStepDoneMoves, NothingRecorded, ConfigStays
  <2>2. Known(b) /\ IpOf(b)' = IpOf(b) /\ StepsOf(b)' = StepsOf(b)
    BY <2>1, SameRoles
  <2>3. Pending(b)' = {}
    <3>1. cg'.ops = <<>> \/ cg'.at = "do"
      BY <1>1, <1>5, OnStepDoneMoves, PlannedHas, ContinuedHas
    <3> QED BY <3>1 DEF Pending
  <2>4. CASE b # cg.role
    <3>1. config'[b].done = config[b].done
      BY <1>1, <1>5, <2>4, StepRecorded DEF TypeInv, ConfigTyped
    <3>2. Differs(b)' = Differs(b) /\ Pending(b) = {}
      BY <2>1, <2>2, <2>4, <3>1, SameDiffers DEF Pending
    <3> QED BY <1>2, <2>2, <2>3, <3>2
  <2>5. CASE b = cg.role
    <3> DEFINE n == Op1.name
    <3>1. config'[b].done = RecordStep(config[b].done, n, cg.way)
      BY <1>1, <1>5, <2>5, StepRecorded DEF TypeInv, ConfigTyped
    <3>2. n \in StepsOf(b) /\ Host = IpOf(b) /\ cg.way \in Ways
      BY <2>1, <2>5, OperatorAtHand
    <3>3. IF cg.way = "setup" THEN n \in Standing(b) ELSE n \notin Standing(b)
      <4>1. CASE cg.way = "setup"
        <5>1. SettingUp
          BY <2>1, <4>1 DEF Inv, CommandInv, OpsInv
        <5> QED BY <2>1, <3>2, <4>1, <5>1 DEF SettingUp, Standing
      <4>2. CASE cg.way = "teardown"
        <5>1. Tearing
          BY <2>1, <4>2 DEF Inv, CommandInv, OpsInv
        <5>2. Undone(n)
          BY <2>1 DEF Undone
        <5> QED BY <2>5, <3>2, <4>2, <5>1, <5>2 DEF Tearing, Standing
      <4> QED BY <3>2, <4>1, <4>2 DEF Ways
    <3>4. Standing(b)' = Standing(b)
      BY <2>1, <2>2 DEF Standing
    <3>5. Pending(b) = {n}
      BY <2>1, <2>5 DEF Pending
    <3> HIDE DEF n
    <3>6. Differs(b)' \subseteq Differs(b) \ {n}
      BY <3>1, <3>3, <3>4 DEF Differs, RecordStep
    <3> QED BY <1>2, <2>2, <2>3, <3>5, <3>6
  <2> QED BY <2>4, <2>5
<1>6. CASE Interrupt
  <2>1. config' = config /\ installed' = installed /\ troubles' = troubles + 1 /\ SameEntries
    BY <1>4, <1>6 DEF Interrupt, machineVars
  <2>2. Known(b) /\ Differs(b)' = Differs(b)
    BY <2>1, SameRoles, SameDiffers
  <2> DEFINE T == Differs(b) \ Pending(b)
  <2>3. Differs(b)' \ Pending(b)' \subseteq T \cup {Op1.name} /\ T \subseteq Names
    BY <1>1, <2>2, DiffersTyped DEF Pending
  <2>4. Cardinality(T) <= troubles
    BY <1>1, <2>2 DEF DoneInv
  <2> HIDE DEF T
  <2>5. /\ Cardinality(Differs(b)' \ Pending(b)') \in Nat /\ Cardinality(T) \in Nat
        /\ Cardinality(Differs(b)' \ Pending(b)') <= Cardinality(T) + 1
    BY <2>3, OneMoreDiffers
  <2> QED BY <1>1, <2>1, <2>4, <2>5
<1>7. CASE Destroy
  <2>1. config' = config /\ Workers = {} /\ cg.plan # <<>> /\ cg.ops = <<>> /\ Current.do = "destroy"
    BY <1>7, ServerGoesLast DEF Destroy, InPhase
  <2>2. Known(b) /\ IpOf(b)' = IpOf(b) /\ StepsOf(b)' = StepsOf(b)
    BY <1>4, <2>1, SameRoles
  <2>3. b = HeadRole /\ Current.role = HeadRole
    BY <2>1, <2>2, PhaseAtHand DEF Workers, Roles, Fits
  <2>4. installed[IpOf(b)] \cap StepsOf(b) = {} /\ config[b].done = {}
    BY <2>1, <2>2, <2>3 DEF Inv, CommandInv, TornInv, TornDown
  <2>5. installed'[IpOf(b)] \subseteq installed[IpOf(b)]
    BY <1>1, <1>7, <2>2, DiffersTyped DEF Destroy, TypeInv
  <2>6. Standing(b)' = {} /\ config'[b].done = {}
    BY <2>1, <2>2, <2>4, <2>5 DEF Standing
  <2> QED BY <1>3, <2>6 DEF Differs
<1>8. CASE RecordEntry \/ Forget
  <2>1. cg.ops = <<>> /\ installed' = installed
    BY <1>8, RecordEntryCases, ForgetCases
  <2>2. Pending(b) = {}
    BY <2>1 DEF Pending
  <2>3. CASE SameEntries
    <3>1. Known(b) /\ IpOf(b)' = IpOf(b) /\ StepsOf(b)' = StepsOf(b)
      BY <2>3, SameRoles
    <3>2. config'[b].done = config[b].done
      <4>1. config'[b] # Nothing
        BY DEF Known
      <4>2. CASE RecordEntry
        <5>1. Current.role # b \/ config' = config
          BY <3>1, <4>2, RecordEntryCases
        <5> QED BY <1>1, <4>2, <5>1, RecordEntryCases DEF TypeInv, ConfigTyped
      <4>3. CASE Forget
        BY <1>1, <4>1, <4>3, ForgetCases DEF TypeInv, ConfigTyped
      <4> QED BY <1>8, <4>2, <4>3
    <3>3. Differs(b)' = Differs(b)
      BY <2>1, <3>1, <3>2, SameDiffers
    <3> QED BY <1>2, <2>2, <3>1, <3>3
  <2>4. CASE RecordEntry /\ NewEntry(Current.role)
    <3>1. PICK a \in Roles : a = Current.role
      BY <2>4, RecordEntryCases
    <3>2. CASE b = a
      <4>1. /\ IpOf(b)' = Current.ip /\ config'[b].done = {} /\ ~Known(b) /\ Current.ip \in Machines
            /\ \A w \in Workers : w # b /\ IpOf(w) # Current.ip
        BY <2>4, <3>1, <3>2, NewRole DEF NewEntry
      <4>2. ASSUME NEW n \in Standing(b)' PROVE FALSE
        <5>1. n \in installed[Current.ip] /\ n \in StepsOf(b)'
          BY <2>1, <4>1 DEF Standing
        <5>2. PICK c \in Roles : Known(c) /\ IpOf(c) = Current.ip /\ n \in StepsOf(c)
          BY <4>1, <5>1 DEF Inv, FileInv, StepsOfEntries
        <5>3. c # b /\ c = HeadRole
          BY <4>1, <5>2 DEF Workers, Roles
        <5>4. Known(c)' /\ IpOf(c)' = IpOf(c) /\ StepsOf(c)' = StepsOf(c)
          BY <2>4, <3>1, <3>2, <5>2, <5>3, NewRole
        <5>5. StepsOf(b)' \cap StepsOf(c)' = {}
          <6>1. OnHead(b)'
            BY <4>1, <5>2, <5>3, <5>4 DEF OnHead
          <6> QED BY <5>3, <6>1 DEF StepsOf, HeadSteps
        <5> QED BY <5>1, <5>2, <5>4, <5>5
      <4>3. Differs(b)' = {}
        BY <4>1, <4>2 DEF Differs
      <4> QED BY <1>3, <4>3
    <3>3. CASE b # a
      <4>1. Known(b) /\ IpOf(b)' = IpOf(b) /\ StepsOf(b)' = StepsOf(b) /\ config'[b] = config[b]
        BY <2>4, <3>1, <3>3, NewRole DEF NewEntry
      <4>2. Differs(b)' = Differs(b)
        BY <2>1, <4>1, SameDiffers
      <4> QED BY <1>2, <2>2, <4>1, <4>2
    <3> QED BY <3>2, <3>3
  <2>5. CASE Forget /\ NoEntry(Current.role)
    <3>1. PICK a \in Roles : a = Current.role
      BY <2>5, ForgetCases
    <3>2. b # a
      BY <2>5, <3>1, GoneRole
    <3>3. Known(b) /\ IpOf(b)' = IpOf(b) /\ StepsOf(b)' = StepsOf(b) /\ config'[b] = config[b]
      BY <2>5, <3>1, <3>2, GoneRole DEF NoEntry
    <3>4. Differs(b)' = Differs(b)
      BY <2>1, <3>3, SameDiffers
    <3> QED BY <1>2, <2>2, <3>3, <3>4
  <2> QED BY <2>3, <2>4, <2>5, ConfigStays
<1>9. CASE /\ config' = config /\ cg.ops # <<>> /\ (Stands \/ Falls \/ installed' = installed)
           /\ cg' = Turned("rest") \/ cg' = Turned("record")
  <2>1. Known(b) /\ IpOf(b)' = IpOf(b) /\ StepsOf(b)' = StepsOf(b) /\ config'[b].done = config[b].done
    BY <1>4, <1>9, SameRoles
  <2>2. /\ cg.role \in Roles /\ Known(cg.role) /\ Host = IpOf(cg.role) /\ Host \in Machines
        /\ Op1.name \in StepsOf(cg.role)
    BY <1>9, OperatorAtHand
  <2>3. cg'.ops = cg.ops /\ cg'.role = cg.role /\ cg'.at # "do" /\ Op1' = Op1
    BY <1>1, <1>9, TurnedHas DEF Op1
  <2>4. IpOf(b) \in Machines
    BY <1>1, <2>1, DiffersTyped
  <2>5. CASE b # cg.role
    <3>1. Pending(b)' = {} /\ Pending(b) = {}
      BY <2>3, <2>5 DEF Pending
    <3>2. installed'[IpOf(b)] \cap StepsOf(b) = installed[IpOf(b)] \cap StepsOf(b)
      <4>1. CASE IpOf(b) = Host
        <5>1. Op1.name \notin StepsOf(b)
          BY <1>1, <2>1, <2>2, <2>5, <4>1, DisjointSteps
        <5> QED BY <1>1, <1>9, <2>2, <4>1, <5>1 DEF Stands, Falls, TypeInv
      <4>2. CASE IpOf(b) # Host
        BY <1>1, <1>9, <2>4, <4>2 DEF Stands, Falls, TypeInv
      <4> QED BY <4>1, <4>2
    <3>3. Differs(b)' = Differs(b)
      BY <2>1, <3>2, SameDiffers
    <3> QED BY <1>2, <2>1, <3>1, <3>3
  <2>6. CASE b = cg.role
    <3> DEFINE n == Op1.name
    <3>1. Pending(b)' = {n} /\ Pending(b) \subseteq {n}
      BY <1>9, <2>3, <2>6 DEF Pending
    <3> HIDE DEF n
    <3>2. installed'[Host] \ {n} = installed[Host] \ {n}
      BY <1>1, <1>9, <2>2 DEF Stands, Falls, TypeInv, n
    <3>3. Standing(b)' \ {n} = Standing(b) \ {n}
      BY <2>1, <2>2, <2>6, <3>2 DEF Standing
    <3>4. Differs(b)' \ {n} = Differs(b) \ {n}
      BY <2>1, <3>3 DEF Differs
    <3> QED BY <1>2, <2>1, <3>1, <3>4
  <2> QED BY <2>5, <2>6
<1>10. CASE /\ config' = config /\ installed' = installed
            /\ cg.ops = <<>> \/ cg.at = "do" \/ cg' = cg
  <2>1. Known(b) /\ Differs(b)' = Differs(b)
    BY <1>4, <1>10, SameRoles, SameDiffers
  <2>2. Pending(b) = {} \/ Pending(b)' = Pending(b)
    BY <1>10 DEF Pending, Op1
  <2> QED BY <1>2, <2>1, <2>2
<1> QED BY <1>5, <1>6, <1>7, <1>8, <1>9, <1>10, DoneMoves

-----------------------------------------------------------------------------
(* The plan *)

\* Under the same entries a plan may rely on the same.
LEMMA SamePlanHolds ==
  ASSUME SeedAssumption, SameEntries, NEW p \in Seq(PhaseOf), PlanHolds(p)
  PROVE  PlanHolds(p)'
<1>1. /\ Workers' = Workers /\ \A m : WorkersAt(m)' = WorkersAt(m)
      /\ \A a \in Roles : (Known(a)' <=> Known(a)) /\ IpOf(a)' = IpOf(a)
  BY SameRoles
<1>2. \A i \in 1..Len(p) : p[i].role \in Roles
  <2>1. \A i \in 1..Len(p) : p[i] \in PhaseOf
    OBVIOUS
  <2> QED BY <2>1 DEF PhaseOf
<1>3. ASSUME NEW a \in Roles, NEW m, RecordHolds(a, m) PROVE RecordHolds(a, m)'
  BY <1>1, <1>3 DEF RecordHolds
<1> QED BY <1>1, <1>2, <1>3 DEF PlanHolds

\* What is left of a plan after a phase that forgets nobody.
LEMMA RestHolds ==
  ASSUME NEW p \in Seq(PhaseOf), p # <<>>, Shape(p), PlanHolds(p), p[1].do # "forget",
         p[1].do = "record" => Known(p[1].role)
  PROVE  PlanHolds(Tail(p))
<1> DEFINE q == Tail(p)
<1>1. /\ Len(q) = Len(p) - 1 /\ Len(p) \in Nat
      /\ \A i \in 1..Len(q) : /\ q[i] = p[i + 1] /\ i + 1 \in 1..Len(p)
                              /\ i = 1 => Leads(p[1], p[i + 1])
  BY RestOfPlan
<1> HIDE DEF q
<1>2. ASSUME NEW i \in 1..Len(q)
      PROVE  /\ q[i].do = "teardown" => Known(q[i].role)
             /\ q[i].do = "record" => RecordHolds(q[i].role, q[i].ip)
             /\ i = 1 /\ q[i].do = "setup" => Known(q[i].role)
  <2>1. q[i] = p[i + 1] /\ i + 1 \in 1..Len(p) /\ (i = 1 => Leads(p[1], p[i + 1]))
    BY <1>1
  <2> QED BY <2>1 DEF PlanHolds, Leads
<1>3. ASSUME NEW i \in 1..Len(q), q[i].do \in Takes, q[i].role = HeadRole, NEW a \in Workers
      PROVE  \E j \in 1..i - 1 : q[j].do = "forget" /\ q[j].role = a
  <2>1. q[i] = p[i + 1] /\ i + 1 \in 1..Len(p)
    BY <1>1
  <2>2. PICK j \in 1..(i + 1) - 1 : p[j].do = "forget" /\ p[j].role = a
    BY <1>3, <2>1 DEF PlanHolds
  <2>3. j - 1 \in 1..i - 1 /\ j - 1 \in 1..Len(q)
    <3>1. j # 1
      BY <2>2
    <3> QED BY <3>1, <1>1
  <2>4. q[j - 1] = p[j]
    <3>1. q[j - 1] = p[(j - 1) + 1] /\ (j - 1) + 1 = j
      BY <1>1, <2>3
    <3> QED BY <3>1
  <2> QED BY <2>2, <2>3, <2>4
<1>4. PlanHolds(q)
  BY <1>2, <1>3 DEF PlanHolds
<1> QED BY <1>4 DEF q

\* After an entry is made.
LEMMA RestHoldsAnew ==
  ASSUME SeedAssumption, Inv, RecordEntry, NewEntry(Current.role)
  PROVE  \A p : p = Tail(cg.plan) => PlanHolds(p)'
<1>1. PICK x : x = cg.plan[1]
  OBVIOUS
<1>2. PICK a \in Roles : a = Current.role
  BY RecordEntryCases
<1>3. /\ cg.plan \in Seq(PhaseOf) /\ cg.plan # <<>> /\ Shape(cg.plan) /\ PlanHolds(cg.plan)
      /\ Current = x /\ x.do = "record" /\ x.role = a
  BY <1>1, <1>2, RecordEntryCases, PhaseAtHand
<1>4. PICK q : q = Tail(cg.plan)
  OBVIOUS
<1>5. /\ q \in Seq(PhaseOf)
      /\ \A i \in 1..Len(q) : /\ q[i] = cg.plan[i + 1] /\ i + 1 \in 1..Len(cg.plan) /\ q[i].role \in Roles
                              /\ Precedes(x, q[i]) /\ (i = 1 => Leads(x, q[i]))
  BY <1>1, <1>3, <1>4, RestOfPlan DEF PhaseOf
<1>6. PICK m : m = x.ip
  OBVIOUS
<1>7. /\ Known(a)' /\ IpOf(a)' = m
      /\ \A b \in Roles : b # a => (Known(b)' <=> Known(b)) /\ IpOf(b)' = IpOf(b)
      /\ Workers' = IF a = HeadRole THEN Workers ELSE Workers \cup {a}
      /\ HeadRole \notin Workers /\ Workers \subseteq Roles
  BY <1>2, <1>3, <1>6, NewRole DEF Workers, SeedAssumption, Roles
<1>8. ASSUME NEW i \in 1..Len(q), q[i].do = "record" PROVE RecordHolds(q[i].role, q[i].ip)'
  <2>1. PICK b \in Roles : b = q[i].role
    BY <1>5
  <2> DEFINE n == q[i].ip
  <2>2. b # HeadRole /\ b # a /\ (a # HeadRole => m # n)
    BY <1>3, <1>5, <1>6, <1>8, <2>1 DEF Precedes
  <2>3. IF Known(b) THEN IpOf(b) = n ELSE WorkersAt(n) = {}
    <3>1. RecordHolds(b, n)
      BY <1>5, <1>3, <1>8, <2>1 DEF PlanHolds
    <3> QED BY <2>2, <3>1 DEF RecordHolds
  <2>4. WorkersAt(n) = {} => WorkersAt(n)' = {}
    <3> SUFFICES ASSUME WorkersAt(n) = {}, NEW w \in Workers', IpOf(w)' = n PROVE FALSE
      BY DEF WorkersAt
    <3>1. CASE w \in Workers
      <4>1. w # a
        <5>1. ~Known(a)
          BY <1>2 DEF NewEntry
        <5> QED BY <5>1, <3>1 DEF Workers
      <4> QED BY <1>7, <3>1, <4>1 DEF WorkersAt
    <3>2. CASE w \notin Workers
      BY <1>7, <2>2, <3>2
    <3> QED BY <3>1, <3>2
  <2>5. RecordHolds(b, n)'
    BY <1>7, <2>2, <2>3, <2>4 DEF RecordHolds
  <2> QED BY <2>1, <2>5
<1>9. ASSUME NEW i \in 1..Len(q)
      PROVE  /\ q[i].do \notin Takes
             /\ i = 1 /\ q[i].do = "setup" => Known(q[i].role)'
  BY <1>3, <1>5, <1>7 DEF Precedes, Leads
<1>10. PlanHolds(q)'
  BY <1>8, <1>9 DEF PlanHolds, Takes
<1> QED BY <1>4, <1>10

\* After one is forgotten.
LEMMA RestHoldsWithout ==
  ASSUME SeedAssumption, Inv, Forget, NoEntry(Current.role)
  PROVE  \A p : p = Tail(cg.plan) => PlanHolds(p)'
<1>1. PICK x : x = cg.plan[1]
  OBVIOUS
<1>2. PICK a \in Roles : a = Current.role
  BY ForgetCases
<1>3. /\ cg.plan \in Seq(PhaseOf) /\ cg.plan # <<>> /\ Shape(cg.plan) /\ PlanHolds(cg.plan)
      /\ Current = x /\ x.do = "forget" /\ x.role = a
  BY <1>1, <1>2, ForgetCases, PhaseAtHand
<1>4. PICK q : q = Tail(cg.plan)
  OBVIOUS
<1>5. /\ q \in Seq(PhaseOf) /\ Len(q) = Len(cg.plan) - 1 /\ Len(cg.plan) \in Nat
      /\ \A i \in 1..Len(q) : /\ q[i] = cg.plan[i + 1] /\ i + 1 \in 1..Len(cg.plan) /\ q[i].role \in Roles
                              /\ Precedes(x, q[i]) /\ (i = 1 => Leads(x, q[i]))
  <2>1. /\ q \in Seq(PhaseOf) /\ Len(q) = Len(cg.plan) - 1
        /\ \A i \in 1..Len(q) : /\ q[i] = cg.plan[i + 1] /\ i + 1 \in 1..Len(cg.plan)
                                /\ Precedes(x, q[i]) /\ (i = 1 => Leads(x, q[i]))
    BY <1>1, <1>3, <1>4, RestOfPlan
  <2>2. q \in Seq(PhaseOf) => \A i \in 1..Len(q) : q[i] \in PhaseOf
    OBVIOUS
  <2>3. \A i \in 1..Len(q) : q[i].role \in Roles
    BY <2>1, <2>2 DEF PhaseOf
  <2> QED BY <1>3, <2>1, <2>3
<1>6. /\ ~Known(a)' /\ Workers' = Workers \ {a} /\ (a = HeadRole => Workers = {})
      /\ \A b \in Roles : b # a => (Known(b)' <=> Known(b)) /\ IpOf(b)' = IpOf(b)
      /\ Workers \subseteq Roles /\ OneWorkerEach
  BY <1>2, GoneRole DEF NoEntry, Workers, Roles, Inv, FileInv
<1>7. \A n : WorkersAt(n)' = WorkersAt(n) \ {a}
  BY <1>6 DEF WorkersAt
<1>8. ASSUME NEW i \in 1..Len(q), q[i].do = "record" PROVE RecordHolds(q[i].role, q[i].ip)'
  <2>1. PICK b \in Roles : b = q[i].role
    BY <1>5
  <2> DEFINE n == q[i].ip
  <2>2. RecordHolds(b, n)
    BY <1>5, <1>3, <1>8, <2>1 DEF PlanHolds
  <2>3. CASE b = HeadRole
    <3>1. CASE a = HeadRole
      <4>1. WorkersAt(n)' = {}
        BY <1>6, <1>7, <3>1 DEF WorkersAt
      <4> QED BY <2>1, <2>3, <4>1 DEF RecordHolds
    <3>2. CASE a # HeadRole
      <4>1. RecordHolds(b, n)'
        BY <1>6, <1>7, <2>2, <2>3, <3>2 DEF RecordHolds
      <4> QED BY <2>1, <4>1
    <3> QED BY <3>1, <3>2
  <2>4. CASE b # HeadRole /\ b = a
    <3>1. WorkersAt(n) \subseteq {a}
      <4>1. CASE Known(a)
        <5>1. IpOf(a) = n /\ a \in Workers
          BY <2>2, <2>4, <4>1 DEF RecordHolds, Workers, Roles
        <5> QED BY <1>6, <5>1 DEF OneWorkerEach, WorkersAt
      <4>2. CASE ~Known(a)
        BY <2>2, <2>4, <4>2 DEF RecordHolds
      <4> QED BY <4>1, <4>2
    <3>2. WorkersAt(n)' = {}
      BY <1>7, <3>1
    <3>3. RecordHolds(b, n)'
      BY <1>6, <2>4, <3>2 DEF RecordHolds
    <3> QED BY <2>1, <3>3
  <2>5. CASE b # HeadRole /\ b # a
    <3>1. RecordHolds(b, n)'
      BY <1>6, <1>7, <2>2, <2>5 DEF RecordHolds
    <3> QED BY <2>1, <3>1
  <2> QED BY <2>3, <2>4, <2>5
<1>9. ASSUME NEW i \in 1..Len(q)
      PROVE  /\ q[i].do = "teardown" => Known(q[i].role)'
             /\ i = 1 => q[i].do # "setup"
  <2>1. q[i].do = "teardown" => Known(q[i].role)
    BY <1>3, <1>5 DEF PlanHolds
  <2> QED BY <1>3, <1>5, <1>6, <2>1 DEF Precedes, Leads
<1>10. ASSUME NEW i \in 1..Len(q), q[i].do \in Takes, q[i].role = HeadRole, NEW w \in Workers'
       PROVE  \E j \in 1..i - 1 : q[j].do = "forget" /\ q[j].role = w
  <2>1. q[i] = cg.plan[i + 1] /\ i + 1 \in 1..Len(cg.plan) /\ w \in Workers /\ w # a
    BY <1>5, <1>6
  <2>2. PICK j \in 1..(i + 1) - 1 : cg.plan[j].do = "forget" /\ cg.plan[j].role = w
    BY <1>3, <1>10, <2>1 DEF PlanHolds
  <2>3. j # 1
    BY <1>1, <1>3, <2>1, <2>2
  <2>4. j - 1 \in 1..i - 1 /\ j - 1 \in 1..Len(q)
    BY <1>5, <2>3
  <2>5. q[j - 1] = cg.plan[j]
    <3>1. q[j - 1] = cg.plan[(j - 1) + 1] /\ (j - 1) + 1 = j
      BY <1>5, <2>4
    <3> QED BY <3>1
  <2> QED BY <2>2, <2>4, <2>5
<1>11. PlanHolds(q)'
  BY <1>8, <1>9, <1>10 DEF PlanHolds
<1> QED BY <1>4, <1>11

\* The plan in the state to come.
LEMMA PlanIs ==
  ASSUME NEW q, cg'.plan = q, Shape(q), PlanHolds(q)'
  PROVE  Shape(cg.plan)' /\ PlanHolds(cg.plan)'
<1>1. Shape(cg.plan)'
  BY DEF Shape
<1>2. PlanHolds(cg.plan)'
  BY DEF PlanHolds, RecordHolds, WorkersAt, Workers, Known, IpOf
<1> QED BY <1>1, <1>2

LEMMA PlanMoves ==
  ASSUME SeedAssumption, Inv, Next
  PROVE  \E q \in Seq(PhaseOf) : cg'.plan = q /\ Shape(q) /\ PlanHolds(q)'
<1>1. /\ TypeInv /\ cg.plan \in Seq(PhaseOf) /\ Shape(cg.plan) /\ PlanHolds(cg.plan)
      /\ config \in [Roles -> Entries \cup {Nothing}]
  BY CommandIs DEF Inv, CommandInv, PlanInv, TypeInv, ConfigTyped
<1>2. config' = config => SameEntries
  BY DEF SameEntries
<1>3. PICK rest : rest = Tail(cg.plan)
  OBVIOUS
<1>4. cg.plan # <<>> => rest \in Seq(PhaseOf) /\ Shape(rest) /\ Current = cg.plan[1]
  BY <1>1, <1>3, RestOfPlan, PhaseAtHand
<1>5. CASE RecordEntry
  <2>1. cg.plan # <<>> /\ cg'.plan = rest
    BY <1>3, <1>5, RecordEntryCases, PlannedHas
  <2>2. CASE Known(Current.role) /\ config' = config
    <3>1. PlanHolds(rest)
      BY <1>1, <1>3, <1>4, <2>1, <2>2, <1>5, RecordEntryCases, RestHolds
    <3> QED BY <1>2, <1>4, <2>1, <2>2, <3>1, SamePlanHolds
  <2>3. CASE NewEntry(Current.role)
    BY <1>3, <1>4, <1>5, <2>1, <2>3, RestHoldsAnew
  <2>4. ~SameEntries \/ (Known(Current.role) /\ config' = config)
    <3>1. SUFFICES ASSUME ~Known(Current.role) PROVE ~SameEntries
      BY <1>5, RecordEntryCases
    <3>2. PICK a \in Roles : a = Current.role
      BY <1>5, RecordEntryCases
    <3>3. PICK e \in Entries : config' = [config EXCEPT ![a] = e]
      BY <1>5, <3>1, <3>2, RecordEntryCases
    <3>4. config'[a] = e /\ e # Nothing /\ config[a] = Nothing
      BY <1>1, <3>1, <3>2, <3>3, EntryIsSomething DEF Known
    <3> QED BY <3>2, <3>4 DEF SameEntries
  <2>5. ~Forget
    BY <1>5, RecordEntryCases, ForgetCases
  <2> QED BY <2>2, <2>3, <2>4, <2>5, ConfigStays
<1>6. CASE Forget
  <2>1. cg.plan # <<>> /\ cg'.plan = rest
    BY <1>3, <1>6, ForgetCases, PlannedHas
  <2>2. NoEntry(Current.role)
    <3>1. PICK a \in Roles : a = Current.role
      BY <1>6, ForgetCases
    <3>2. config' = [config EXCEPT ![a] = Nothing] /\ TornDown(a) /\ (a = HeadRole => Workers = {})
      BY <1>6, <3>1, ForgetCases
    <3>3. NoEntry(a)
      BY <1>1, <3>2 DEF NoEntry
    <3> QED BY <3>1, <3>3
  <2> QED BY <1>3, <1>4, <1>6, <2>1, <2>2, RestHoldsWithout
<1>7. CASE ~RecordEntry /\ ~Forget
  <2>1. SameEntries
    BY <1>7, ConfigStays
  <2>2. cg'.plan = cg.plan => \E q \in Seq(PhaseOf) : cg'.plan = q /\ Shape(q) /\ PlanHolds(q)'
    <3>1. PICK p \in Seq(PhaseOf) : p = cg.plan
      BY <1>1
    <3>2. Shape(p) /\ PlanHolds(p)'
      BY <1>1, <2>1, <3>1, SamePlanHolds
    <3> QED BY <3>1, <3>2
  <2>3. cg'.plan = <<>> => \E q \in Seq(PhaseOf) : cg'.plan = q /\ Shape(q) /\ PlanHolds(q)'
    <3>1. PlanHolds(<<>>)
      BY DEF PlanHolds
    <3>2. PlanHolds(<<>>)' /\ Shape(<<>>) /\ <<>> \in Seq(PhaseOf)
      BY <2>1, <3>1, EmptyPlan, SamePlanHolds
    <3> QED BY <3>2
  <2>4. Idle.plan = <<>>
    BY DEF Idle
  <2>5. ASSUME NEW p, Begins(p), cg' = Planned(p)
        PROVE  \E q \in Seq(PhaseOf) : cg'.plan = q /\ Shape(q) /\ PlanHolds(q)'
    <3>1. p \in Seq(PhaseOf) /\ Shape(p) /\ PlanHolds(p) /\ cg'.plan = p
      BY <2>5, PlannedHas DEF Begins
    <3> QED BY <2>1, <3>1, SamePlanHolds
  <2>6. ASSUME cg.plan # <<>>, Current.do \notin {"record", "forget"}, cg' = Planned(rest)
        PROVE  \E q \in Seq(PhaseOf) : cg'.plan = q /\ Shape(q) /\ PlanHolds(q)'
    <3>1. cg'.plan = rest /\ rest \in Seq(PhaseOf) /\ Shape(rest)
      BY <1>4, <2>6, PlannedHas
    <3>2. PlanHolds(rest)
      BY <1>1, <1>3, <1>4, <2>6, RestHolds
    <3> QED BY <2>1, <3>1, <3>2, SamePlanHolds
  <2>7. CASE Apply \/ Destroy
    <3>1. cg.plan # <<>> /\ Current.do \notin {"record", "forget"} /\ cg' = Planned(rest)
      BY <1>3, <2>7, FinishesWith DEF Apply, Destroy, InPhase
    <3> QED BY <2>6, <3>1
  <2>8. CASE OnStepDone
    <3>1. cg.plan # <<>> /\ Current.do \notin {"record", "forget"}
      BY <2>8, OnStepDoneMoves, OperatorAtHand DEF Ways
    <3> QED BY <1>1, <1>3, <2>2, <2>6, <2>8, <3>1, OnStepDoneMoves, ContinuedHas
  <2>9. CASE RunPipeline("setup") \/ RunPipeline("teardown")
    <3>1. cg' = Idle \/ cg'.plan = cg.plan
      BY <1>1, <2>9, RunPipelineSets, PipedHas DEF Ways
    <3> QED BY <2>2, <2>3, <2>4, <3>1
  <2>10. cg' = Turned("rest") \/ cg' = Turned("record") => cg'.plan = cg.plan
    BY <1>1, TurnedHas
  <2> QED BY <1>7, <2>2, <2>3, <2>4, <2>5, <2>7, <2>8, <2>9, <2>10, CommandMoves
<1> QED BY <1>5, <1>6, <1>7

LEMMA PlanKept ==
  ASSUME SeedAssumption, Inv, Next
  PROVE  PlanInv'
<1>1. TypeInv /\ (cg.plan = <<>> => cg = Idle) /\ (cg.ops = <<>> => cg.at = "do")
  BY DEF Inv, CommandInv, PlanInv
<1>2. Shape(cg.plan)' /\ PlanHolds(cg.plan)'
  BY PlanMoves, PlanIs
<1>3. \A p : (Planned(p).plan = <<>> => Planned(p) = Idle) /\ Planned(p).at = "do" /\ Idle.at = "do"
  <2>1. \A p : Planned(p).plan = p /\ Idle = Planned(<<>>) /\ Planned(p).at = "do"
    BY PlannedHas, FinishesWith
  <2>2. Idle.at = "do"
    BY DEF Idle
  <2> QED BY <2>1, <2>2
<1>4. cg' = cg \/ cg' = Idle \/ (\E p : cg' = Planned(p))
      \/ (cg'.plan = cg.plan /\ cg.plan # <<>> /\ (cg'.ops = <<>> => cg'.at = "do"))
  <2>1. CASE RunPipeline("setup") \/ RunPipeline("teardown")
    <3>1. cg.ops = <<>> /\ cg.at = "do" /\ cg.plan # <<>>
      BY <1>1, <2>1, RunPipelineMoves
    <3> QED BY <1>1, <2>1, <3>1, RunPipelineSets, PipedHas DEF Ways
  <2>2. CASE cg.ops # <<>> /\ (cg' = Turned("rest") \/ cg' = Turned("record"))
    BY <1>1, <2>2, TurnedHas, OperatorAtHand
  <2>3. CASE OnStepDone
    BY <1>1, <2>3, OnStepDoneMoves, ContinuedHas, OperatorAtHand
  <2> QED BY <2>1, <2>2, <2>3, CommandMoves
<1>5. (cg'.plan = <<>> => cg' = Idle) /\ (cg'.ops = <<>> => cg'.at = "do")
  BY <1>1, <1>3, <1>4
<1> QED BY <1>2, <1>5 DEF PlanInv

-----------------------------------------------------------------------------
(* The operators *)

\* The role at work stays where it is.
LEMMA RoleStays ==
  ASSUME SeedAssumption, Inv, Next, cg.ops # <<>>, cg'.role = cg.role
  PROVE  /\ SameEntries /\ Host' = Host /\ StepsOf(cg.role)' = StepsOf(cg.role) /\ Known(cg.role)'
         /\ Elsewhere(cg.role)' => Elsewhere(cg.role)
<1>1. SameEntries
  BY NothingRecorded, ConfigStays
<1>2. PICK a \in Roles : a = cg.role /\ Known(a)
  BY OperatorAtHand
<1>3. /\ Known(a)' /\ IpOf(a)' = IpOf(a) /\ StepsOf(a)' = StepsOf(a)
      /\ OnHead(a)' <=> OnHead(a)
  BY <1>1, <1>2, SameRoles
<1>4. Host' = Host
  BY <1>2, <1>3 DEF Host, IpOf
<1>5. StepsOf(cg.role)' = StepsOf(cg.role)
  <2>1. StepsOf(cg.role)' = StepsOf(a)'
    BY <1>2 DEF StepsOf, OnHead, Known, IpOf
  <2> QED BY <1>2, <1>3, <2>1
<1>6. Known(cg.role)'
  BY <1>2, <1>3 DEF Known
<1>7. Elsewhere(cg.role)' => Elsewhere(cg.role)
  <2>1. Elsewhere(cg.role)' = Elsewhere(a)'
    BY <1>2 DEF Elsewhere, OnHead, Known, IpOf
  <2>2. Elsewhere(a)' => Elsewhere(a)
    BY <1>3, LateGrows DEF Elsewhere
  <2> QED BY <1>2, <2>1, <2>2
<1> QED BY <1>1, <1>4, <1>5, <1>6, <1>7

\* A pipeline begins with nothing done of it.
LEMMA OpsBegin ==
  ASSUME SeedAssumption, Inv, Next, NEW way \in Ways, RunPipeline(way)
  PROVE  OpsInv'
<1>1. CASE cg' = Idle
  BY <1>1 DEF OpsInv, Idle
<1>2. CASE cg' # Idle
  <2>1. PICK a \in Roles : a = Current.role
    BY <1>2, RunPipelineSets
  <2>2. PICK direct \in BOOLEAN, t \in 0..made :
          /\ cg' = Piped(a, way, direct, t, InOrder(PipelineOf(a, direct), way)) /\ Known(a)
          /\ way = "setup" /\ direct /\ a # HeadRole /\ ~OnHead(a) => t \in Clusters
    BY <1>2, <2>1, RunPipelineSets
  <2> PICK ops : ops = InOrder(PipelineOf(a, direct), way)
    OBVIOUS
  <2>3. /\ cg'.plan = cg.plan /\ cg'.ops = ops /\ cg'.at = cg.at /\ cg'.role = a /\ cg'.way = way
        /\ cg'.direct = direct /\ cg'.token = t
    BY <2>2, PipedHas DEF Inv
  <2>4. /\ cg.plan # <<>> /\ cg.at = "do" /\ Current.do = way /\ Current' = Current
        /\ UNCHANGED <<config, installed, k3s, secrets, join, late>>
    BY <2>3, RunPipelineMoves DEF Inv, CommandInv, PlanInv, Current
  <2>5. NamesOf(ops) = StepsOf(a) /\ K3sFirst(ops, way)
    BY <2>2, PipelineSteps, PipelineInOrder DEF Ways
  <2>6. Left' = StepsOf(a) /\ StepsOf(cg.role)' = StepsOf(a) /\ Known(cg.role)'
    BY <2>2, <2>3, <2>4, <2>5 DEF Left, StepsOf, OnHead, Known, IpOf
  <2>7. OpsAre'
    <3>1. Left' \subseteq StepsOf(cg.role)' /\ K3sFirst(cg.ops, cg.way)'
      BY <2>3, <2>5, <2>6
    <3>2. cg'.plan # <<>> /\ cg'.way = Current'.do /\ cg'.role = Current'.role /\ cg'.way \in Ways
      BY <2>1, <2>3, <2>4
    <3> QED BY <2>6, <3>1, <3>2 DEF OpsAre
  <2>8. ASSUME way = "setup" PROVE SettingUp'
    <3>1. "JoinCluster" \in StepsOf(a) => a # HeadRole /\ ~OnHead(a)
      BY <2>2, StepsOwned
    <3>2. Clusters' = Clusters
      BY <2>4 DEF Clusters
    <3>3. cg'.at # "record"
      BY <2>3, <2>4
    <3> QED BY <2>2, <2>3, <2>6, <2>8, <3>1, <3>2, <3>3 DEF SettingUp
  <2>9. ASSUME way = "teardown" PROVE Tearing'
    <3>1. \A n : (Undone(n)' \/ Finished(n)') => n \notin StepsOf(a)
      BY <2>3, <2>4, <2>6 DEF Undone, Finished
    <3>2. config[a].done \subseteq StepsOf(a)
      BY <2>2 DEF Inv, FileInv, DoneOfEntries
    <3>3. /\ a = HeadRole => {"K3sServer", "ControlPlaneDetails"} \subseteq StepsOf(a)
          /\ a # HeadRole /\ ~OnHead(a) => "JoinCluster" \in StepsOf(a)
      BY <2>2, StepsOwned
    <3>4. Elsewhere(cg.role)' => a # HeadRole /\ ~OnHead(a)
      BY <2>3, <2>4 DEF Elsewhere, OnHead, Known, IpOf
    <3>5. \A n \in (installed[Host] \cap StepsOf(cg.role))' : ~Undone(n)'
      BY <2>6, <3>1
    <3>6. (config[cg.role].done \subseteq Left)'
      BY <2>3, <2>4, <2>6, <3>2
    <3>7. cg'.role = HeadRole => ~Undone("ControlPlaneDetails")' /\ ~Undone("K3sServer")'
      BY <2>3, <3>1, <3>3
    <3>8. Elsewhere(cg.role)' => ~Undone("JoinCluster")' /\ ~Finished("JoinCluster")'
      BY <3>1, <3>3, <3>4
    <3> QED BY <3>5, <3>6, <3>7, <3>8 DEF Tearing
  <2> QED BY <2>3, <2>7, <2>8, <2>9 DEF OpsInv
<1> QED BY <1>1, <1>2

\* While the operators are the same, or one fewer.
LEMMA OpsStay ==
  ASSUME SeedAssumption, Inv, Next, cg.ops # <<>>, cg'.plan = cg.plan, cg'.role = cg.role,
         cg'.way = cg.way, cg'.ops = cg.ops \/ cg'.ops = Tail(cg.ops)
  PROVE  /\ OpsAre' /\ Left' \subseteq Left
         /\ cg'.ops = cg.ops => Left' = Left /\ Op1' = Op1
         /\ cg'.ops = Tail(cg.ops) => Left \subseteq Left' \cup {Op1.name}
<1>1. /\ cg.ops \in Seq(Operator) /\ Left \subseteq StepsOf(cg.role) /\ K3sFirst(cg.ops, cg.way)
      /\ cg.plan # <<>> /\ cg.role = Current.role /\ cg.way = Current.do /\ cg.way \in Ways
  BY OperatorAtHand
<1>2. PICK ops, way : ops = cg.ops /\ way = cg.way
  OBVIOUS
<1>3. /\ NamesOf(Tail(ops)) \subseteq NamesOf(ops) /\ K3sFirst(Tail(ops), way)
      /\ NamesOf(ops) \subseteq NamesOf(Tail(ops)) \cup {Head(ops).name}
  BY <1>1, <1>2, RestOfPipeline
<1>4. Current' = Current
  BY DEF Current
<1>5. /\ Left' \subseteq Left /\ (cg'.ops = cg.ops => Left' = Left /\ Op1' = Op1)
      /\ cg'.ops = Tail(cg.ops) => Left \subseteq Left' \cup {Op1.name}
  BY <1>2, <1>3 DEF Left, Op1
<1>6. K3sFirst(cg.ops, cg.way)'
  <2>1. K3sFirst(cg'.ops, cg'.way)
    BY <1>1, <1>2, <1>3
  <2> QED BY <2>1
<1>7. Left' \subseteq StepsOf(cg.role)' /\ Known(cg.role)'
  BY <1>1, <1>5, RoleStays
<1> QED BY <1>1, <1>4, <1>5, <1>6, <1>7 DEF OpsAre

\* What a setup has seen to stays so, but for a server that is taken down.
LEMMA SetUpGoesOn ==
  ASSUME SeedAssumption, Inv, Next, cg.ops # <<>>, cg.way = "setup", SettingUp,
         ~TearDownServer, ~Destroy, cg'.role = cg.role, cg'.direct = cg.direct, cg'.token = cg.token,
         Left' \subseteq Left, cg'.at = "record" => Op1'.name \in installed'[Host]
  PROVE  SettingUp'
<1>1. Clusters \subseteq Clusters' /\ Host' = Host
  BY ClustersStay, RoleStays
<1>2. "JoinCluster" \in Left' /\ cg'.direct => cg'.token \in Clusters'
  BY <1>1 DEF SettingUp
<1> QED BY <1>1, <1>2 DEF SettingUp

\* What a teardown has seen to stays so.
LEMMA TearDownGoesOn ==
  ASSUME SeedAssumption, Inv, Next, cg.ops # <<>>, Tearing, cg'.role = cg.role,
         \A n \in installed'[Host] \cap StepsOf(cg.role) : ~Undone(n)',
         config'[cg.role].done \subseteq Left',
         cg.role = HeadRole =>
           /\ Undone("ControlPlaneDetails")' => secrets'[Host].token = 0
           /\ Undone("K3sServer")' => k3s'[Host].kind # "server",
         Elsewhere(cg.role) /\ Host \notin late' =>
           /\ Undone("JoinCluster")' => k3s'[Host].kind # "agent"
           /\ Finished("JoinCluster")' => ~join'[Host].timer /\ join'[Host].script # "install"
  PROVE  Tearing'
<1>1. Host' = Host /\ StepsOf(cg.role)' = StepsOf(cg.role) /\ (Elsewhere(cg.role)' => Elsewhere(cg.role))
  BY RoleStays
<1>2. Elsewhere(cg.role)' => Host \notin late'
  <2>1. Elsewhere(cg.role)' => Host' \notin late'
    BY DEF Elsewhere, Host
  <2> QED BY <1>1, <2>1
<1>3. \A n \in (installed[Host] \cap StepsOf(cg.role))' : ~Undone(n)'
  BY <1>1
<1>4. (config[cg.role].done \subseteq Left)'
  OBVIOUS
<1>5. cg'.role = HeadRole =>
        /\ Undone("ControlPlaneDetails")' => secrets'[Host'].token = 0
        /\ Undone("K3sServer")' => k3s'[Host'].kind # "server"
  BY <1>1
<1>6. Elsewhere(cg.role)' =>
        /\ Undone("JoinCluster")' => k3s'[Host'].kind # "agent"
        /\ Finished("JoinCluster")' => NoJoinLeft(Host)'
  BY <1>1, <1>2 DEF NoJoinLeft
<1> QED BY <1>3, <1>4, <1>5, <1>6 DEF Tearing

\* What the timers and their scripts do meanwhile.
Timers(m) == TimerFires(m) \/ JoinInstalls(m) \/ SelfRemove(m) \/ JoinDownloadsNothing(m)

LEMMA TimersMove ==
  ASSUME NEW m \in Machines, Timers(m)
  PROVE  UNCHANGED <<config, installed, secrets, stack, cg, runs, made>>
BY DEF Timers, TimerFires, JoinInstalls, SelfRemove, JoinDownloadsNothing, boundVars

\* A machine that nobody joins, or whose join is removed, comes to be joined
\* only late.
LEMMA JoinsComeLate ==
  ASSUME Inv, NEW m \in Machines, Timers(m), NEW h \in Machines, h \notin late'
  PROVE  /\ k3s[h].kind # "server" => k3s'[h].kind # "server"
         /\ k3s[h].kind # "agent" /\ (NoJoinLeft(h) \/ Removed(h)) => k3s'[h].kind # "agent"
         /\ NoJoinLeft(h) => NoJoinLeft(h)'
<1>1. /\ k3s \in [Machines -> [kind : Kinds, cluster : 0..made]]
      /\ join \in [Machines -> [timer : BOOLEAN, script : {"idle", "install", "remove"}, token : 0..made]]
  BY DEF Inv, TypeInv
<1>2. CASE TimerFires(m)
  <2>1. k3s' = k3s /\ join[m].timer
    BY <1>2 DEF TimerFires
  <2>2. NoJoinLeft(h) => join'[h] = join[h]
    BY <1>1, <1>2, <2>1 DEF TimerFires, NoJoinLeft
  <2> QED BY <2>1, <2>2 DEF NoJoinLeft
<1>3. CASE JoinInstalls(m)
  <2>1. /\ join[m].script = "install" /\ join' = [join EXCEPT ![m].script = "remove"]
        /\ k3s' = [k3s EXCEPT ![m] = IF @.kind = "server" THEN @ ELSE Agent(join[m].token)]
        /\ Removed(m) => m \in late'
    BY <1>3 DEF JoinInstalls
  <2>2. CASE h = m
    <3>1. ~NoJoinLeft(h) /\ ~Removed(h)
      BY <2>1, <2>2 DEF NoJoinLeft
    <3>2. k3s[h].kind # "server" => k3s'[h].kind = "agent"
      BY <1>1, <2>1, <2>2 DEF Agent
    <3> QED BY <3>1, <3>2
  <2>3. CASE h # m
    BY <1>1, <2>1, <2>3 DEF NoJoinLeft
  <2> QED BY <2>2, <2>3
<1>4. CASE SelfRemove(m) \/ JoinDownloadsNothing(m)
  <2>1. k3s' = k3s
    BY <1>4 DEF SelfRemove, JoinDownloadsNothing
  <2>2. join' = [join EXCEPT ![m] = NoJoin] \/ join' = [join EXCEPT ![m].script = "remove"]
    BY <1>4 DEF SelfRemove, JoinDownloadsNothing
  <2>3. CASE join' = [join EXCEPT ![m] = NoJoin]
    BY <1>1, <2>1, <2>3 DEF NoJoin, NoJoinLeft
  <2>4. CASE join' = [join EXCEPT ![m].script = "remove"]
    BY <1>1, <2>1, <2>4 DEF NoJoinLeft
  <2> QED BY <2>2, <2>3, <2>4
<1> QED BY <1>2, <1>3, <1>4 DEF Timers

LEMMA OpsMeanwhile ==
  ASSUME SeedAssumption, Inv, Next, NEW m \in Machines, Timers(m)
  PROVE  OpsInv'
<1> SUFFICES ASSUME cg.ops # <<>> PROVE OpsInv'
  BY TimersMove DEF OpsInv
<1>1. /\ UNCHANGED <<config, installed, secrets, cg>> /\ OpsAre'
      /\ Left' = Left /\ Op1' = Op1 /\ ~TearDownServer /\ ~Destroy
  <2>1. UNCHANGED <<config, installed, secrets, cg>>
    BY TimersMove
  <2>2. ~TearDownServer /\ ~Destroy
    <3>1. TearDownServer => cg' # cg
      <4> SUFFICES ASSUME TearDownServer PROVE cg'.at # cg.at
        OBVIOUS
      <4> QED BY TurnedHas DEF TearDownServer, Doing, Turn, Turned, Inv
    <3> QED BY <2>1, <3>1, NothingRecorded
  <2> QED BY <2>1, <2>2, OpsStay
<1>2. /\ Host \in Machines /\ cg.way \in Ways /\ cg.role \in Roles /\ Known(cg.role)
      /\ cg.plan # <<>> /\ cg.role = Current.role /\ cg.way = Current.do /\ Host = IpOf(cg.role)
  BY OperatorAtHand
<1>3. CASE cg.way = "setup"
  <2>1. SettingUp
    BY <1>3 DEF Inv, CommandInv, OpsInv
  <2>2. SettingUp'
    BY <1>1, <1>3, <2>1, SetUpGoesOn DEF SettingUp
  <2> QED BY <1>1, <1>3, <2>2 DEF OpsInv
<1>4. CASE cg.way = "teardown"
  <2>1. Tearing
    BY <1>4 DEF Inv, CommandInv, OpsInv
  <2>2. \A n : (Undone(n)' <=> Undone(n)) /\ (Finished(n)' <=> Finished(n))
    BY <1>1 DEF Undone, Finished
  <2>3. Elsewhere(cg.role) => Removed(Host)
    <3>1. Elsewhere(cg.role) => cg.role \in WorkersAt(Host)
      BY <1>2 DEF Elsewhere, WorkersAt, Workers, Roles
    <3>2. cg # Idle
      BY DEF Idle
    <3> QED BY <1>2, <1>4, <3>1, <3>2 DEF Removed
  <2>4. Host \notin late' =>
          /\ k3s[Host].kind # "agent" /\ Removed(Host) => k3s'[Host].kind # "agent"
          /\ NoJoinLeft(Host) => ~join'[Host].timer /\ join'[Host].script # "install"
    <3>1. PICK h \in Machines : h = Host
      BY <1>2
    <3>2. h \notin late' =>
            /\ k3s[h].kind # "agent" /\ Removed(h) => k3s'[h].kind # "agent"
            /\ NoJoinLeft(h) => NoJoinLeft(h)'
      BY JoinsComeLate
    <3> QED BY <3>1, <3>2 DEF NoJoinLeft
  <2>5. k3s[Host].kind # "server" => k3s'[Host].kind # "server"
    <3>1. ASSUME k3s'[Host].kind = "server", k3s'[Host] # k3s[Host] PROVE FALSE
      <4>1. SetUpServer
        BY <1>2, <3>1, ServersAppear
      <4> QED BY <1>4, <4>1, SetUpServerCases
    <3> QED BY <3>1
  <2>6. \A n \in installed'[Host] \cap StepsOf(cg.role) : ~Undone(n)'
    BY <1>1, <2>1, <2>2 DEF Tearing
  <2>7. config'[cg.role].done \subseteq Left'
    BY <1>1, <2>1 DEF Tearing
  <2>8. cg.role = HeadRole =>
          /\ Undone("ControlPlaneDetails")' => secrets'[Host].token = 0
          /\ Undone("K3sServer")' => k3s'[Host].kind # "server"
    BY <1>1, <2>1, <2>2, <2>5 DEF Tearing
  <2>9. Elsewhere(cg.role) /\ Host \notin late' =>
          /\ Undone("JoinCluster")' => k3s'[Host].kind # "agent"
          /\ Finished("JoinCluster")' => ~join'[Host].timer /\ join'[Host].script # "install"
    BY <2>1, <2>2, <2>3, <2>4 DEF Tearing
  <2>10. Tearing'
    BY <1>1, <2>1, <2>6, <2>7, <2>8, <2>9, TearDownGoesOn
  <2> QED BY <1>1, <1>4, <2>10 DEF OpsInv
<1> QED BY <1>2, <1>3, <1>4 DEF Ways

\* A step is recorded.
LEMMA OpsRecorded ==
  ASSUME SeedAssumption, Inv, Next, OnStepDone
  PROVE  OpsInv'
<1> SUFFICES ASSUME cg'.ops # <<>> PROVE OpsInv'
  BY DEF OpsInv
<1>1. /\ cg.ops # <<>> /\ cg.at = "record" /\ cg' = Continued(Tail(cg.ops))
      /\ UNCHANGED <<installed, k3s, secrets, join, late>>
  BY OnStepDoneMoves, PlannedHas
<1>2. /\ cg'.plan = cg.plan /\ cg'.role = cg.role /\ cg'.way = cg.way /\ cg'.ops = Tail(cg.ops)
      /\ cg'.at = "do" /\ cg'.direct = cg.direct /\ cg'.token = cg.token
  BY <1>1, ContinuedHas DEF Inv
<1>3. OpsAre' /\ Left' \subseteq Left /\ Left \subseteq Left' \cup {Op1.name}
  BY <1>1, <1>2, OpsStay
<1>4. cg.way \in Ways /\ cg.role \in Roles /\ Host \in Machines
  BY <1>1, OperatorAtHand
<1>5. ~TearDownServer /\ ~Destroy
  BY <1>1, NothingRecorded DEF TearDownServer, Doing
<1>6. CASE cg.way = "setup"
  <2>1. SettingUp
    BY <1>1, <1>6 DEF Inv, CommandInv, OpsInv
  <2>2. SettingUp'
    BY <1>1, <1>2, <1>3, <1>5, <1>6, <2>1, SetUpGoesOn
  <2> QED BY <1>2, <1>3, <1>6, <2>2 DEF OpsInv
<1>7. CASE cg.way = "teardown"
  <2>1. Tearing
    BY <1>1, <1>7 DEF Inv, CommandInv, OpsInv
  <2>2. \A n : (Undone(n)' => Undone(n)) /\ (Finished(n)' => Finished(n))
    BY <1>1, <1>2, <1>3 DEF Undone, Finished
  <2>3. config'[cg.role].done = config[cg.role].done \ {Op1.name}
    BY <1>4, <1>7, StepRecorded DEF RecordStep, Inv, TypeInv, ConfigTyped
  <2>4. config'[cg.role].done \subseteq Left'
    BY <1>3, <2>1, <2>3 DEF Tearing
  <2>5. \A n \in installed'[Host] \cap StepsOf(cg.role) : ~Undone(n)'
    BY <1>1, <2>1, <2>2 DEF Tearing
  <2>6. cg.role = HeadRole =>
          /\ Undone("ControlPlaneDetails")' => secrets'[Host].token = 0
          /\ Undone("K3sServer")' => k3s'[Host].kind # "server"
    BY <1>1, <2>1, <2>2 DEF Tearing
  <2>7. Elsewhere(cg.role) /\ Host \notin late' =>
          /\ Undone("JoinCluster")' => k3s'[Host].kind # "agent"
          /\ Finished("JoinCluster")' => ~join'[Host].timer /\ join'[Host].script # "install"
    BY <1>1, <2>1, <2>2 DEF Tearing, NoJoinLeft
  <2>8. Tearing'
    BY <1>1, <1>2, <2>1, <2>4, <2>5, <2>6, <2>7, TearDownGoesOn
  <2> QED BY <1>2, <1>3, <1>7, <2>8 DEF OpsInv
<1> QED BY <1>4, <1>6, <1>7 DEF Ways

\* An operator goes on, or is through.
LEMMA TurnedStays ==
  ASSUME Inv, cg.ops # <<>>, NEW v, cg' = Turned(v)
  PROVE  /\ cg'.plan = cg.plan /\ cg'.role = cg.role /\ cg'.way = cg.way /\ cg'.ops = cg.ops
         /\ cg'.direct = cg.direct /\ cg'.token = cg.token /\ cg'.at = v
BY TurnedHas DEF Inv

\* An operator is set up.
LEMMA OpsSetUp ==
  ASSUME SeedAssumption, Inv, Next, cg.ops # <<>>, cg.way = "setup", NEW v, cg' = Turned(v),
         v = "record" => Stands
  PROVE  OpsInv'
<1>1. /\ cg'.plan = cg.plan /\ cg'.role = cg.role /\ cg'.way = cg.way /\ cg'.ops = cg.ops
      /\ cg'.direct = cg.direct /\ cg'.token = cg.token /\ cg'.at = v
  BY TurnedStays
<1>2. OpsAre' /\ Left' = Left /\ Op1' = Op1
  BY <1>1, OpsStay
<1>3. SettingUp /\ ~TearDownServer /\ ~Destroy /\ Host \in Machines
  BY NothingRecorded, OperatorAtHand DEF Inv, CommandInv, OpsInv, TearDownServer, Doing
<1>4. cg'.at = "record" => Op1'.name \in installed'[Host]
  <2> SUFFICES ASSUME cg'.at = "record" PROVE Op1.name \in installed'[Host]
    BY <1>2
  <2>1. Stands
    BY <1>1
  <2>2. installed \in [Machines -> SUBSET Names]
    BY DEF Inv, TypeInv
  <2> QED BY <1>3, <2>1, <2>2 DEF Stands
<1>5. SettingUp'
  BY <1>1, <1>2, <1>3, <1>4, SetUpGoesOn
<1> QED BY <1>1, <1>2, <1>5 DEF OpsInv

\* The operators that tear down, each by what it does of the three.
TearingDown ==
  TearDownOperator \/ TearDownServer \/ DeleteToken \/ DeleteAddress \/ UninstallAgent \/ RemoveTimer

LEMMA TearingDownMoves ==
  ASSUME SeedAssumption, Inv, TearingDown
  PROVE  /\ cg.ops # <<>> /\ cg.way = "teardown" /\ config' = config
         /\ cg' = Turned("rest") \/ cg' = Turned("record")
         /\ Falls \/ (cg.at = "rest" /\ installed' = installed)
         /\ \/ /\ Op1.name = "ControlPlaneDetails" /\ UNCHANGED <<k3s, join, late>>
               /\ cg.at = "do" => secrets'[Host].token = 0
               /\ cg.at # "do" => secrets'[Host].token = secrets[Host].token
            \/ /\ Op1.name = "K3sServer" /\ UNCHANGED <<secrets, join, late>>
               /\ k3s'[Host] = NoK3s
            \/ /\ Op1.name = "JoinCluster" /\ UNCHANGED <<secrets, join, late>> /\ cg' = Turned("rest")
               /\ k3s'[Host].kind # "agent"
            \/ /\ Op1.name = "JoinCluster" /\ UNCHANGED <<secrets, k3s>> /\ cg.at = "rest"
               /\ ~join'[Host].timer /\ join'[Host].script = join[Host].script
               /\ join[Host].script = "install" => Host \in late'
            \/ Op1.name \notin Stateful /\ UNCHANGED <<k3s, secrets, join, late>>
<1>1. /\ k3s \in [Machines -> [kind : Kinds, cluster : 0..made]]
      /\ join \in [Machines -> [timer : BOOLEAN, script : {"idle", "install", "remove"}, token : 0..made]]
      /\ secrets \in [Machines -> [token : 0..made, address : BOOLEAN]]
  BY DEF Inv, TypeInv
<1>2. /\ cg.ops # <<>> /\ cg.way = "teardown" /\ config' = config
      /\ cg' = Turned("rest") \/ cg' = Turned("record")
  BY DEF TearingDown, TearDownOperator, TearDownServer, DeleteToken, DeleteAddress, UninstallAgent,
     RemoveTimer, Doing, Turn, Turned
<1>3. Falls \/ (cg.at = "rest" /\ installed' = installed)
  BY DEF TearingDown, TearDownOperator, TearDownServer, DeleteToken, DeleteAddress, UninstallAgent,
     RemoveTimer, Doing
<1>4. Host \in Machines
  BY <1>2, OperatorAtHand
<1>5. CASE TearDownOperator
  BY <1>2, <1>3, <1>5 DEF TearDownOperator
<1>6. CASE TearDownServer
  <2>1. Op1.name = "K3sServer" /\ UNCHANGED <<secrets, join, late>> /\ k3s'[Host] = NoK3s
    BY <1>1, <1>4, <1>6 DEF TearDownServer
  <2> QED BY <1>2, <1>3, <2>1
<1>7. CASE DeleteToken
  <2>1. Op1.name = "ControlPlaneDetails" /\ UNCHANGED <<k3s, join, late>> /\ cg.at = "do"
    BY <1>7 DEF DeleteToken, Doing
  <2>2. secrets' = [secrets EXCEPT ![Host]["token"] = 0]
    BY <1>7 DEF DeleteToken, DropSecret, NoSecrets
  <2>3. secrets'[Host].token = 0
    BY <1>1, <1>4, <2>2
  <2> QED BY <1>2, <1>3, <2>1, <2>3
<1>8. CASE DeleteAddress
  <2>1. Op1.name = "ControlPlaneDetails" /\ UNCHANGED <<k3s, join, late>> /\ cg.at = "rest"
    BY <1>8 DEF DeleteAddress, Doing
  <2>2. secrets' = [secrets EXCEPT ![Host]["address"] = FALSE]
    BY <1>8 DEF DeleteAddress, DropSecret, NoSecrets
  <2>3. secrets'[Host].token = secrets[Host].token
    BY <1>1, <1>4, <2>2
  <2> QED BY <1>2, <1>3, <2>1, <2>3
<1>9. CASE UninstallAgent
  <2>1. Op1.name = "JoinCluster" /\ UNCHANGED <<secrets, join, late>> /\ cg' = Turned("rest")
    BY <1>9 DEF UninstallAgent, Turn, Turned
  <2>2. k3s' = [k3s EXCEPT ![Host] = IF @.kind = "agent" THEN NoK3s ELSE @]
    BY <1>9 DEF UninstallAgent
  <2>3. k3s'[Host].kind # "agent"
    BY <1>1, <1>4, <2>2 DEF NoK3s
  <2> QED BY <1>2, <1>3, <2>1, <2>3
<1>10. CASE RemoveTimer
  <2>1. /\ Op1.name = "JoinCluster" /\ UNCHANGED <<secrets, k3s>> /\ cg.at = "rest"
        /\ join' = [join EXCEPT ![Host].timer = FALSE]
        /\ join[Host].script = "install" => Host \in late'
    BY <1>10 DEF RemoveTimer, Doing
  <2>2. ~join'[Host].timer /\ join'[Host].script = join[Host].script
    BY <1>1, <1>4, <2>1
  <2> QED BY <1>2, <1>3, <2>1, <2>2
<1> QED BY <1>5, <1>6, <1>7, <1>8, <1>9, <1>10 DEF TearingDown

LEMMA OpsTornDown ==
  ASSUME SeedAssumption, Inv, Next, TearingDown
  PROVE  OpsInv'
<1>1. /\ cg.ops # <<>> /\ cg.way = "teardown" /\ config' = config
      /\ cg' = Turned("rest") \/ cg' = Turned("record")
      /\ Falls \/ (cg.at = "rest" /\ installed' = installed)
  BY TearingDownMoves
<1>2. /\ cg'.plan = cg.plan /\ cg'.role = cg.role /\ cg'.way = cg.way /\ cg'.ops = cg.ops
      /\ cg'.at \in {"rest", "record"}
  BY <1>1, TurnedStays
<1>3. OpsAre' /\ Left' = Left /\ Op1' = Op1
  BY <1>1, <1>2, OpsStay
<1>4. Tearing /\ Host \in Machines /\ Op1.name \in Left /\ installed \in [Machines -> SUBSET Names]
  BY <1>1, OperatorAtHand DEF Inv, CommandInv, OpsInv, TypeInv
<1>5. \A n : /\ Undone(n)' <=> n \notin Left \/ Op1.name = n
             /\ Finished(n)' <=> n \notin Left \/ (Op1.name = n /\ cg'.at = "record")
  BY <1>2, <1>3 DEF Undone, Finished
<1>6. \A n \in installed'[Host] \cap StepsOf(cg.role) : ~Undone(n)'
  <2> SUFFICES ASSUME NEW n \in installed'[Host], n \in StepsOf(cg.role) PROVE n \in Left /\ Op1.name # n
    BY <1>5
  <2>1. CASE Falls
    <3>1. n \in installed[Host] /\ n # Op1.name
      BY <1>4, <2>1 DEF Falls
    <3> QED BY <1>4, <3>1 DEF Tearing, Undone
  <2>2. CASE cg.at = "rest" /\ installed' = installed
    BY <1>4, <2>2 DEF Tearing, Undone
  <2> QED BY <1>1, <2>1, <2>2
<1>7. config'[cg.role].done \subseteq Left'
  BY <1>1, <1>3, <1>4 DEF Tearing
<1>8. cg.role = HeadRole =>
        /\ Undone("ControlPlaneDetails")' => secrets'[Host].token = 0
        /\ Undone("K3sServer")' => k3s'[Host].kind # "server"
  <2> SUFFICES ASSUME cg.role = HeadRole
               PROVE  /\ Undone("ControlPlaneDetails")' => secrets'[Host].token = 0
                      /\ Undone("K3sServer")' => k3s'[Host].kind # "server"
    OBVIOUS
  <2>1. /\ Undone("ControlPlaneDetails") => secrets[Host].token = 0
        /\ Undone("K3sServer") => k3s[Host].kind # "server"
    BY <1>4 DEF Tearing
  <2>2. ASSUME Undone("ControlPlaneDetails")' PROVE secrets'[Host].token = 0
    <3>1. CASE Op1.name = "ControlPlaneDetails"
      <4>1. /\ cg.at = "do" => secrets'[Host].token = 0
            /\ cg.at # "do" => secrets'[Host].token = secrets[Host].token
        BY <3>1, TearingDownMoves DEF Stateful
      <4> QED BY <2>1, <3>1, <4>1 DEF Undone
    <3>2. CASE Op1.name # "ControlPlaneDetails"
      <4>1. secrets' = secrets
        BY <3>2, TearingDownMoves
      <4> QED BY <1>5, <2>1, <2>2, <3>2, <4>1 DEF Undone
    <3> QED BY <3>1, <3>2
  <2>3. ASSUME Undone("K3sServer")' PROVE k3s'[Host].kind # "server"
    <3>1. CASE Op1.name = "K3sServer"
      BY <3>1, TearingDownMoves DEF Stateful, NoK3s
    <3>2. CASE Op1.name # "K3sServer"
      <4>1. k3s[Host].kind # "server"
        BY <1>5, <2>1, <2>3, <3>2 DEF Undone
      <4> SUFFICES ASSUME k3s'[Host].kind = "server", k3s'[Host] # k3s[Host] PROVE FALSE
        BY <4>1
      <4>2. SetUpServer
        BY <1>4, ServersAppear
      <4> QED BY <1>1, <4>2, SetUpServerCases
    <3> QED BY <3>1, <3>2
  <2> QED BY <2>2, <2>3
<1>9. Elsewhere(cg.role) /\ Host \notin late' =>
        /\ Undone("JoinCluster")' => k3s'[Host].kind # "agent"
        /\ Finished("JoinCluster")' => ~join'[Host].timer /\ join'[Host].script # "install"
  <2> SUFFICES ASSUME Elsewhere(cg.role), Host \notin late'
               PROVE  /\ Undone("JoinCluster")' => k3s'[Host].kind # "agent"
                      /\ Finished("JoinCluster")' => ~join'[Host].timer /\ join'[Host].script # "install"
    OBVIOUS
  <2>1. /\ Undone("JoinCluster") => k3s[Host].kind # "agent"
        /\ Finished("JoinCluster") => ~join[Host].timer /\ join[Host].script # "install"
    BY <1>4 DEF Tearing, NoJoinLeft
  <2>2. CASE Op1.name = "JoinCluster"
    <3>1. \/ cg' = Turned("rest") /\ k3s'[Host].kind # "agent"
          \/ /\ k3s' = k3s /\ cg.at = "rest" /\ ~join'[Host].timer
             /\ join'[Host].script = join[Host].script
             /\ join[Host].script = "install" => Host \in late'
      BY <2>2, TearingDownMoves DEF Stateful
    <3>2. CASE cg' = Turned("rest") /\ k3s'[Host].kind # "agent"
      <4>1. cg'.at = "rest"
        BY <1>1, <3>2, TurnedStays
      <4> QED BY <1>4, <1>5, <2>2, <3>2, <4>1
    <3>3. CASE /\ k3s' = k3s /\ cg.at = "rest" /\ ~join'[Host].timer
               /\ join'[Host].script = join[Host].script
               /\ join[Host].script = "install" => Host \in late'
      <4>1. Undone("JoinCluster")
        BY <2>2, <3>3 DEF Undone
      <4> QED BY <2>1, <3>3, <4>1
    <3> QED BY <3>1, <3>2, <3>3
  <2>3. CASE Op1.name # "JoinCluster"
    <3>1. join' = join /\ (k3s' = k3s \/ k3s'[Host] = NoK3s)
      BY <2>3, TearingDownMoves
    <3>2. k3s[Host].kind # "agent" => k3s'[Host].kind # "agent"
      BY <3>1 DEF NoK3s
    <3>3. \/ "JoinCluster" \in Left
          \/ Undone("JoinCluster") /\ Finished("JoinCluster")
      BY DEF Undone, Finished
    <3> QED BY <1>5, <2>1, <2>3, <3>1, <3>2, <3>3
  <2> QED BY <2>2, <2>3
<1>10. Tearing'
  BY <1>1, <1>2, <1>4, <1>6, <1>7, <1>8, <1>9, TearDownGoesOn
<1> QED BY <1>1, <1>2, <1>3, <1>10 DEF OpsInv

LEMMA OpsKept ==
  ASSUME SeedAssumption, Inv, Next
  PROVE  OpsInv'
<1>1. Planned(<<>>) = Idle /\ \A p : Planned(p).ops = <<>>
  BY PlannedHas, FinishesWith
<1>2. CASE Starting \/ Interrupt \/ Apply \/ Destroy \/ RecordEntry \/ Forget \/ CannotGoOn
  <2>1. \E p : cg' = Planned(p)
    <3>1. CASE Starting
      BY <3>1 DEF Starting, StartAddHead, StartAddWorker, StartDelWorker, StartDelHead, StartDelAll,
         StartRestart, Starts, Planned
    <3>2. CASE Interrupt \/ Apply \/ Destroy \/ RecordEntry \/ Forget \/ CannotGoOn
      BY <1>1, <3>2, FinishesWith DEF Interrupt, Apply, Destroy, RecordEntry, Forget, CannotGoOn, Abort
    <3> QED BY <1>2, <3>1, <3>2
  <2> QED BY <1>1, <2>1 DEF OpsInv
<1>3. CASE RunPipeline("setup") \/ RunPipeline("teardown")
  BY <1>3, OpsBegin DEF Ways
<1>4. CASE \E m \in Machines :
             TimerFires(m) \/ JoinInstalls(m) \/ SelfRemove(m) \/ JoinDownloadsNothing(m)
  BY <1>4, OpsMeanwhile DEF Timers
<1>5. CASE Operating
  <2>1. CASE SetUpServer
    <3>1. /\ cg.ops # <<>> /\ cg.way = "setup"
          /\ cg' = Idle \/ (cg' = Turned("record") /\ Stands)
      BY <2>1, SetUpServerCases DEF Turn, Turned, Abort
    <3> QED BY <1>1, <3>1, OpsSetUp DEF OpsInv
  <2>2. CASE SetUpOperator \/ ScrubKubeconfig \/ MergeKubeconfig \/ PublishToken \/ PublishAddress
             \/ DirectJoin \/ DeferredJoin
    <3>1. /\ cg.ops # <<>> /\ cg.way = "setup"
          /\ cg' = Turned("rest") \/ (cg' = Turned("record") /\ Stands)
      BY <2>2 DEF SetUpOperator, ScrubKubeconfig, MergeKubeconfig, PublishToken, PublishAddress,
         DirectJoin, DeferredJoin, Doing, Turn, Turned
    <3> QED BY <3>1, OpsSetUp
  <2>3. CASE TearingDown
    BY <2>3, OpsTornDown
  <2>4. CASE OnStepDone
    BY <2>4, OpsRecorded
  <2> QED BY <1>2, <1>5, <2>1, <2>2, <2>3, <2>4 DEF Operating, TearingDown
<1> QED BY <1>2, <1>3, <1>4, <1>5, Unfold

-----------------------------------------------------------------------------
(* What is forgotten, and the server to come *)

\* What is left of a sequence after its first element.
LEMMA Tails ==
  ASSUME NEW S, NEW s \in Seq(S), s # <<>>
  PROVE  /\ Tail(s) \in Seq(S)
         /\ Len(s) # 1 => Tail(s) # <<>>
         /\ \A i \in 1..Len(Tail(s)) : Tail(s)[i] = s[i + 1] /\ i + 1 \in 1..Len(s) /\ i + 1 > 1
<1>1. /\ Tail(s) \in Seq(S) /\ Len(Tail(s)) = Len(s) - 1
      /\ \A i \in 1..Len(Tail(s)) : Tail(s)[i] = s[i + 1] /\ i + 1 \in 1..Len(s)
  OBVIOUS
<1>2. Len(s) # 1 => Len(Tail(s)) # 0
  BY <1>1
<1>3. \A i \in 1..Len(Tail(s)) : i + 1 > 1
  OBVIOUS
<1> QED BY <1>1, <1>2, <1>3

\* A phase that is through leads to the one after it.
LEMMA NextPhase ==
  ASSUME Inv, cg.plan # <<>>, cg' = Planned(Tail(cg.plan)), cg'.plan # <<>>
  PROVE  Leads(Current, Current')
<1>1. PICK p : p = cg.plan
  OBVIOUS
<1>2. p \in Seq(PhaseOf) /\ p # <<>> /\ Shape(p) /\ Current = p[1] /\ cg'.plan = Tail(p)
  BY <1>1, PhaseAtHand, PlannedHas
<1>3. /\ Tail(p) \in Seq(PhaseOf) /\ Tail(p) # <<>> /\ Current' = Tail(p)[1] /\ 1 \in 1..Len(Tail(p))
  <2>1. Tail(p) \in Seq(PhaseOf) /\ Tail(p) # <<>> /\ Current' = Head(Tail(p))
    BY <1>2, RestOfPlan DEF Current
  <2> QED BY <2>1
<1>4. Tail(p)[1] = p[1 + 1] /\ Leads(p[1], p[1 + 1])
  BY <1>2, <1>3, RestOfPlan
<1> QED BY <1>2, <1>3, <1>4

\* The pipeline that tears a role down is through.
LEMMA TornByPipeline ==
  ASSUME SeedAssumption, Inv, Next, OnStepDone, Len(cg.ops) = 1, cg.way = "teardown",
         NEW r, r = cg.role
  PROVE  TornDown(r)'
<1>1. /\ cg.ops # <<>> /\ cg.at = "record"
      /\ UNCHANGED <<installed, k3s, secrets, join, late>>
  BY OnStepDoneMoves
<1>2. Tearing /\ r \in Roles /\ Known(r) /\ Host = IpOf(r)
  BY <1>1, OperatorAtHand DEF Inv, CommandInv, OpsInv
<1>3. Left = {Op1.name}
  <2>1. cg.ops \in Seq(Operator) /\ Op1 = cg.ops[1]
    BY <1>1, OperatorAtHand
  <2> QED BY <2>1 DEF Left, NamesOf
<1>4. \A n : Undone(n) /\ Finished(n)
  BY <1>1, <1>3 DEF Undone, Finished
<1>5. config'[r].done = {}
  <2>1. config'[r].done = config[r].done \ {Op1.name}
    BY <1>2, StepRecorded DEF RecordStep, Inv, TypeInv, ConfigTyped
  <2> QED BY <1>2, <1>3, <2>1 DEF Tearing
<1>6. SameEntries
  BY <1>1, NothingRecorded, ConfigStays
<1>7. IpOf(r)' = IpOf(r) /\ StepsOf(r)' = StepsOf(r) /\ (OnHead(r)' <=> OnHead(r))
  BY <1>2, <1>6, SameRoles
<1>8. Elsewhere(r)' => Elsewhere(r)
  BY <1>1, <1>7 DEF Elsewhere
<1>9. /\ installed[Host] \cap StepsOf(r) = {}
      /\ r = HeadRole => k3s[Host].kind # "server" /\ secrets[Host].token = 0
      /\ Elsewhere(r) => k3s[Host].kind # "agent" /\ NoJoinLeft(Host)
  BY <1>2, <1>4 DEF Tearing
<1>10. Elsewhere(r)' => NoJoinLeft(IpOf(r))'
  <2>1. NoJoinLeft(IpOf(r))' <=> NoJoinLeft(Host)
    BY <1>1, <1>2, <1>7 DEF NoJoinLeft
  <2> QED BY <1>8, <1>9, <2>1
<1> QED BY <1>1, <1>2, <1>5, <1>7, <1>8, <1>9, <1>10 DEF TornDown

\* What is torn down stays so while its phase is at hand.
LEMMA TornMeanwhile ==
  ASSUME SeedAssumption, Inv, Next, NEW m \in Machines, Timers(m), cg.plan # <<>>, cg.ops = <<>>,
         Current.do \in {"destroy", "forget"}, NEW r \in Roles, r = Current.role, TornDown(r)
  PROVE  TornDown(r)'
<1>1. UNCHANGED <<config, installed, secrets, cg>>
  BY TimersMove
<1>2. /\ SameEntries /\ (Known(r)' <=> Known(r)) /\ IpOf(r)' = IpOf(r) /\ StepsOf(r)' = StepsOf(r)
      /\ OnHead(r)' <=> OnHead(r)
  <2>1. SameEntries
    BY <1>1 DEF SameEntries
  <2> QED BY <2>1, SameRoles
<1> SUFFICES ASSUME Known(r) PROVE TornDown(r)'
  BY <1>2 DEF TornDown
<1>3. PICK h \in Machines : h = IpOf(r)
  BY EntryTyped DEF Inv, TypeInv
<1>4. k3s[h].kind # "server" => k3s'[h].kind # "server"
  <2>1. ASSUME k3s'[h].kind = "server", k3s'[h] # k3s[h] PROVE FALSE
    <3>1. SetUpServer
      BY <2>1, ServersAppear
    <3> QED BY <3>1, SetUpServerCases
  <2> QED BY <2>1
<1>5. Elsewhere(r)' => k3s'[h].kind # "agent" /\ NoJoinLeft(h)'
  <2> SUFFICES ASSUME Elsewhere(r)' PROVE k3s'[h].kind # "agent" /\ NoJoinLeft(h)'
    OBVIOUS
  <2>1. r # HeadRole /\ ~OnHead(r) /\ h \notin late' /\ Elsewhere(r)
    BY <1>2, <1>3, LateGrows DEF Elsewhere
  <2>2. Current.do = "forget" /\ r \in WorkersAt(h)
    <3>1. Current.do # "destroy"
      BY <2>1, PhaseAtHand DEF Fits
    <3> QED BY <1>3, <2>1, <3>1 DEF WorkersAt, Workers, Roles
  <2>3. Removed(h)
    <3>1. cg # Idle
      BY DEF Idle
    <3> QED BY <2>2, <3>1 DEF Removed
  <2>4. k3s[h].kind # "agent" /\ NoJoinLeft(h)
    BY <1>3, <2>1 DEF TornDown
  <2> QED BY <2>1, <2>3, <2>4, JoinsComeLate
<1>6. /\ (installed[IpOf(r)] \cap StepsOf(r) = {})' /\ config'[r].done = {}
      /\ r = HeadRole => (k3s[IpOf(r)].kind # "server" /\ secrets[IpOf(r)].token = 0)'
  BY <1>1, <1>2, <1>3, <1>4 DEF TornDown
<1>7. Elsewhere(r)' => (k3s[IpOf(r)].kind # "agent")' /\ NoJoinLeft(IpOf(r))'
  BY <1>2, <1>3, <1>5 DEF NoJoinLeft
<1> QED BY <1>6, <1>7 DEF TornDown

\* The host that terraform takes down takes what is left with it.
LEMMA TornByDestroy ==
  ASSUME SeedAssumption, Inv, Next, Destroy
  PROVE  TornDown(HeadRole)'
<1>1. /\ cg.plan # <<>> /\ cg.ops = <<>> /\ Current.do = "destroy" /\ UNCHANGED <<config, late>>
      /\ installed' = [installed EXCEPT ![AwsHost] = {}] /\ k3s' = [k3s EXCEPT ![AwsHost] = NoK3s]
      /\ secrets' = [secrets EXCEPT ![AwsHost] = NoSecrets]
  BY DEF Destroy, InPhase
<1>2. Current.role = HeadRole
  BY <1>1, PhaseAtHand DEF Fits
<1>3. TornDown(HeadRole)
  BY <1>1, <1>2 DEF Inv, CommandInv, TornInv
<1>4. SameEntries /\ HeadRole \in Roles
  BY <1>1 DEF SameEntries, Roles
<1>5. /\ IpOf(HeadRole)' = IpOf(HeadRole) /\ StepsOf(HeadRole)' = StepsOf(HeadRole)
      /\ Known(HeadRole)' <=> Known(HeadRole)
  BY <1>4, SameRoles
<1> SUFFICES ASSUME Known(HeadRole) PROVE TornDown(HeadRole)'
  BY <1>5 DEF TornDown
<1>6. PICK h \in Machines : h = IpOf(HeadRole)
  BY <1>4, EntryTyped DEF Inv, TypeInv
<1>7. /\ installed \in [Machines -> SUBSET Names]
      /\ k3s \in [Machines -> [kind : Kinds, cluster : 0..made]]
      /\ secrets \in [Machines -> [token : 0..made, address : BOOLEAN]]
  BY DEF Inv, TypeInv
<1>8. installed'[h] \subseteq installed[h]
  BY <1>1, <1>7
<1>9. k3s[h].kind # "server" => k3s'[h].kind # "server"
  BY <1>1, <1>7 DEF NoK3s
<1>10. secrets[h].token = 0 => secrets'[h].token = 0
  BY <1>1, <1>7 DEF NoSecrets
<1>11. ~Elsewhere(HeadRole)'
  BY DEF Elsewhere
<1> QED BY <1>1, <1>3, <1>5, <1>6, <1>8, <1>9, <1>10, <1>11 DEF TornDown

LEMMA TornKept ==
  ASSUME SeedAssumption, Inv, Next
  PROVE  TornInv'
<1> SUFFICES ASSUME cg'.plan # <<>>, cg'.ops = <<>>, Current'.do \in {"destroy", "forget"}
             PROVE  TornDown(Current.role)'
  BY DEF TornInv
<1>1. PICK r : r = Current'.role
  OBVIOUS
<1>2. SUFFICES TornDown(r)'
  BY <1>1 DEF TornDown, Elsewhere, NoJoinLeft, StepsOf, OnHead, Known, IpOf
<1>3. TypeInv
  BY DEF Inv
<1>4. ASSUME cg'.plan = cg.plan, Current.do \in Ways PROVE FALSE
  <2>1. Current' = Current
    BY <1>4 DEF Current
  <2> QED BY <1>4, <2>1 DEF Ways
<1>5. Idle.plan = <<>>
  BY DEF Idle
<1>6. CASE Starting
  <2>1. PICK p : Begins(p) /\ Starts(p)
    BY <1>6, CommandsBegin DEF Inv, TypeInv, FileInv
  <2>2. cg'.plan = p
    BY <2>1, PlannedHas DEF Starts, Planned
  <2>3. Current' = p[1] /\ p[1].do \notin {"destroy", "forget"}
    BY <2>1, <2>2 DEF Begins, Current
  <2> QED BY <2>3
<1>7. CASE Interrupt
  BY <1>5, <1>7 DEF Interrupt, Abort
<1>8. CASE RunPipeline("setup") \/ RunPipeline("teardown")
  <2>1. cg' = Idle \/ (cg'.plan = cg.plan /\ Current.do \in Ways)
    BY <1>3, <1>8, RunPipelineMoves, RunPipelineSets, PipedHas DEF Ways
  <2> QED BY <1>4, <1>5, <2>1
<1>9. CASE \E m \in Machines :
             TimerFires(m) \/ JoinInstalls(m) \/ SelfRemove(m) \/ JoinDownloadsNothing(m)
  <2>1. PICK m \in Machines : Timers(m)
    BY <1>9 DEF Timers
  <2>2. cg' = cg
    BY <2>1, TimersMove
  <2>3. r = Current.role /\ Current.do \in {"destroy", "forget"}
    BY <1>1, <2>2 DEF Current
  <2>4. r \in Roles /\ TornDown(r)
    BY <2>2, <2>3, PhaseAtHand DEF Inv, CommandInv, TornInv
  <2> QED BY <2>1, <2>2, <2>3, <2>4, TornMeanwhile
<1>10. ASSUME cg.plan # <<>>, cg' = Planned(Tail(cg.plan))
       PROVE  Current.role = r /\ Current.do \in {"teardown", "destroy"}
  <2>1. Leads(Current, Current')
    BY <1>10, NextPhase
  <2> QED BY <1>1, <2>1 DEF Leads
<1>11. CASE Apply \/ Destroy \/ RecordEntry \/ Forget
  <2>1. cg.plan # <<>> /\ cg' = Planned(Tail(cg.plan))
    BY <1>11, FinishesWith DEF Apply, Destroy, RecordEntry, Forget, InPhase
  <2>2. Current.role = r /\ Current.do \in {"teardown", "destroy"}
    BY <1>10, <2>1
  <2>3. Destroy /\ Current.do = "destroy"
    BY <1>11, <2>2 DEF Apply, Destroy, RecordEntry, Forget, InPhase
  <2>4. r = HeadRole
    BY <2>1, <2>2, <2>3, PhaseAtHand DEF Fits
  <2> QED BY <2>3, <2>4, TornByDestroy
<1>12. CASE Operating
  <2>1. /\ cg.ops # <<>> /\ Current.do \in Ways /\ cg.plan # <<>> /\ cg.way = Current.do
        /\ cg.role = Current.role /\ cg.ops \in Seq(Operator)
    BY <1>12, OperatingAt, OperatorAtHand
  <2>2. OnStepDone
    <3>1. cg' # Turned("rest") /\ cg' # Turned("record") /\ cg' # cg
      BY <1>3, <2>1, TurnedHas
    <3>2. cg' # Idle
      BY <1>5
    <3>3. ~Starting /\ \A p : ~Starts(p)
      <4>1. cg # Idle
        BY <2>1 DEF Idle
      <4> QED BY <4>1 DEF Starting, StartAddHead, StartAddWorker, StartDelWorker, StartDelHead,
             StartDelAll, StartRestart, Starts
    <3>4. ~RunPipeline("setup") /\ ~RunPipeline("teardown")
      BY <2>1, RunPipelineMoves
    <3> QED BY <2>1, <3>1, <3>2, <3>3, <3>4, CommandMoves
  <2>3. Len(cg.ops) = 1 /\ cg' = Planned(Tail(cg.plan))
    <3>1. Len(cg.ops) # 1 => Tail(cg.ops) # <<>>
      BY <2>1, Tails
    <3>2. cg' = Continued(Tail(cg.ops)) => cg'.ops = Tail(cg.ops)
      BY <1>3, ContinuedHas
    <3> QED BY <2>2, <3>1, <3>2, OnStepDoneMoves
  <2>4. Current.role = r /\ Current.do = "teardown"
    BY <1>10, <2>1, <2>3 DEF Ways
  <2> QED BY <2>1, <2>2, <2>3, <2>4, TornByPipeline
<1> QED BY <1>6, <1>7, <1>8, <1>9, <1>11, <1>12, Unfold

\* No command installs a second server.
LEMMA MadeKept ==
  ASSUME SeedAssumption, Inv, Next
  PROVE  MadeInv'
<1> SUFFICES ASSUME ServerToCome' PROVE made' < runs'
  BY DEF MadeInv
<1>1. /\ TypeInv /\ made \in Nat /\ runs \in Nat /\ made <= runs /\ (ServerToCome => made < runs)
      /\ cg.plan \in Seq(PhaseOf) /\ cg.ops \in Seq(Operator)
  BY CommandIs DEF Inv, TypeInv, CommandInv, MadeInv
<1>2. CASE Starting
  BY <1>1, <1>2, StartingMoves, CommandsBegin DEF Inv, FileInv, TypeInv, Starts
<1>3. ~Starting => runs' = runs
  BY OperatingAt, RunPipelineMoves, Unfold
     DEF Interrupt, Apply, Destroy, RecordEntry, Forget, boundVars, TimerFires, JoinInstalls, SelfRemove,
         JoinDownloadsNothing
<1>4. PICK i \in 1..Len(cg'.plan) :
        /\ cg'.plan[i].do = "setup" /\ cg'.plan[i].role = HeadRole
        /\ \/ i > 1 \/ cg'.ops = <<>>
           \/ \E j \in 1..Len(cg'.ops) : cg'.ops[j].name = "K3sServer" /\ (j > 1 \/ cg'.at = "do")
  BY DEF ServerToCome
<1>5. CASE ~Starting /\ SetUpServer
  <2>1. cg.ops # <<>> /\ cg.at = "do" /\ cg.way = "setup" /\ Op1.name = "K3sServer"
    BY <1>5, SetUpServerCases
  <2>2. made < runs
    BY <2>1, ServerIsToCome
  <2>3. CASE made' = made
    BY <1>3, <1>5, <2>2, <2>3
  <2>4. CASE made' # made
    <3>1. cg' = Turned("record")
      BY <1>5, <2>4, SetUpServerCases DEF Turn, Turned
    <3>2. cg'.plan = cg.plan /\ cg'.ops = cg.ops /\ cg'.at = "record"
      BY <1>1, <3>1, TurnedHas
    <3>3. PICK p : p = cg.plan
      OBVIOUS
    <3>4. Shape(p) /\ p # <<>> /\ p[1].do = "setup" /\ 1 \in 1..Len(p)
      BY <2>1, <3>3, OperatorAtHand
    <3>5. i = 1
      <4> SUFFICES ASSUME i > 1 PROVE FALSE
        BY <1>4
      <4>1. Precedes(p[1], p[i])
        BY <3>2, <3>3, <3>4 DEF Shape
      <4> QED BY <1>4, <3>2, <3>3, <3>4, <4>1 DEF Precedes
    <3>6. PICK ops, way : ops = cg.ops /\ way = cg.way
      OBVIOUS
    <3>7. ops \in Seq(Operator) /\ ops # <<>> /\ K3sFirst(ops, way) /\ Head(ops).name = "K3sServer"
      BY <2>1, <3>6, OperatorAtHand DEF Op1
    <3>8. "K3sServer" \notin NamesOf(Tail(ops))
      BY <3>7, ServerOnce
    <3>9. PICK j \in 1..Len(ops) : ops[j].name = "K3sServer" /\ j > 1
      BY <1>4, <2>1, <3>2, <3>5, <3>6
    <3>10. ops[j] = Tail(ops)[j - 1] /\ j - 1 \in 1..Len(Tail(ops))
      BY <3>7, <3>9
    <3> QED BY <3>8, <3>9, <3>10 DEF NamesOf
  <2> QED BY <2>3, <2>4
<1>6. CASE ~Starting /\ ~SetUpServer
  <2>1. made' = made /\ runs' = runs
    <3>1. made' = made
      BY <1>6, MadeMoves
    <3> QED BY <1>3, <1>6, <3>1
  <2>2. SUFFICES ServerToCome
    BY <1>1, <2>1
  <2>3. cg' # Idle
    BY <1>4 DEF Idle
  <2>4. CASE cg' = cg
    BY <1>4, <2>4 DEF ServerToCome
  <2>5. CASE cg.plan # <<>> /\ cg' = Planned(Tail(cg.plan))
    <3>1. cg'.plan = Tail(cg.plan)
      BY <2>5, PlannedHas
    <3>2. cg'.plan[i] = cg.plan[i + 1] /\ i + 1 \in 1..Len(cg.plan) /\ i + 1 > 1
      BY <1>1, <2>5, <3>1, Tails
    <3> QED BY <1>4, <3>2 DEF ServerToCome
  <2>6. CASE RunPipeline("setup") \/ RunPipeline("teardown")
    <3>1. cg.ops = <<>> /\ cg'.plan = cg.plan
      BY <1>1, <2>3, <2>6, RunPipelineMoves, RunPipelineSets, PipedHas DEF Ways
    <3> QED BY <1>4, <3>1 DEF ServerToCome
  <2>7. CASE cg' = Turned("rest") \/ cg' = Turned("record")
    <3>1. cg'.plan = cg.plan /\ cg'.ops = cg.ops /\ cg'.at # "do"
      BY <1>1, <2>7, TurnedHas
    <3> QED BY <1>4, <3>1 DEF ServerToCome
  <2>8. CASE cg.ops # <<>> /\ Len(cg.ops) # 1 /\ cg' = Continued(Tail(cg.ops))
    <3>1. cg'.plan = cg.plan /\ cg'.ops = Tail(cg.ops)
      BY <1>1, <2>8, ContinuedHas
    <3>2. CASE i > 1
      BY <1>4, <3>1, <3>2 DEF ServerToCome
    <3>3. cg'.ops # <<>>
      BY <1>1, <2>8, <3>1, Tails
    <3>4. CASE \E j \in 1..Len(cg'.ops) : cg'.ops[j].name = "K3sServer" /\ (j > 1 \/ cg'.at = "do")
      <4>1. PICK j \in 1..Len(cg'.ops) : cg'.ops[j].name = "K3sServer"
        BY <3>4
      <4>2. cg'.ops[j] = cg.ops[j + 1] /\ j + 1 \in 1..Len(cg.ops) /\ j + 1 > 1
        BY <1>1, <2>8, <3>1, Tails
      <4>3. \E k \in 1..Len(cg.ops) : cg.ops[k].name = "K3sServer" /\ (k > 1 \/ cg.at = "do")
        BY <4>1, <4>2
      <4> QED BY <1>4, <3>1, <4>3 DEF ServerToCome
    <3> QED BY <1>4, <3>2, <3>3, <3>4
  <2>9. CASE OnStepDone
    <3>1. cg.plan # <<>> /\ cg.ops # <<>>
      BY <2>9, OnStepDoneMoves, OperatorAtHand
    <3> QED BY <2>5, <2>8, <2>9, <3>1, OnStepDoneMoves
  <2>10. \A p : ~Starts(p) \/ runs' = runs + 1
    BY DEF Starts
  <2>11. \A p : ~Starts(p)
    BY <1>1, <2>1, <2>10
  <2> QED BY <2>3, <2>4, <2>5, <2>6, <2>7, <2>9, <2>11, CommandMoves
<1> QED BY <1>2, <1>5, <1>6

-----------------------------------------------------------------------------
(* The theorems *)

LEMMA InvStarts ==
  ASSUME SeedAssumption, EntryAssumption, Init
  PROVE  Inv
<1>1. \A a \in Roles : config[a] = Nothing /\ ~Known(a)
  BY DEF Init, Known
<1>2. Workers = {}
  BY <1>1 DEF Workers, Roles
<1>3. TypeInv
  <2>1. ConfigTyped
    BY DEF Init, ConfigTyped
  <2>2. FewWorkers
    BY <1>2, FS_EmptySet DEF FewWorkers
  <2>3. installed \in [Machines -> SUBSET Names]
    BY DEF Init
  <2>4. /\ k3s \in [Machines -> [kind : Kinds, cluster : 0..made]]
        /\ secrets \in [Machines -> [token : 0..made, address : BOOLEAN]]
        /\ join \in [Machines -> [timer : BOOLEAN, script : {"idle", "install", "remove"}, token : 0..made]]
    BY DEF Init, NoK3s, NoSecrets, NoJoin, Kinds
  <2>5. cg \in [plan : Seq(PhaseOf), role : Roles \cup {Nothing}, way : {"none"} \cup Ways,
                ops : Seq(Operator), at : {"do", "rest", "record"}, direct : BOOLEAN, token : 0..made]
    BY DEF Init, Idle
  <2>6. /\ runs \in 0..MaxRuns /\ troubles \in 0..MaxTrouble /\ made \in Nat /\ made <= runs
        /\ late \subseteq Machines
    BY DEF Init, SeedAssumption
  <2> QED BY <2>1, <2>2, <2>3, <2>4, <2>5, <2>6 DEF TypeInv
<1>4. FileInv
  <2>1. \A m \in Machines : /\ installed[m] = {} /\ k3s[m].kind = "none" /\ secrets[m].token = 0
                            /\ ~join[m].timer /\ join[m].script = "idle"
    BY DEF Init, NoK3s, NoSecrets, NoJoin
  <2> QED BY <1>1, <1>2, <2>1 DEF FileInv, OneWorkerEach, StepsOfEntries, DoneOfEntries, ServerOfHead,
             JoinsOfWorkers, Joins, TokensOfServers, TokensOfAgents
<1>5. CommandInv
  <2>1. cg = Idle /\ cg.plan = <<>> /\ cg.ops = <<>> /\ cg.at = "do"
    BY DEF Init, Idle
  <2>2. PlanInv
    BY <2>1, EmptyPlan DEF PlanInv, PlanHolds
  <2> QED BY <2>1, <2>2 DEF CommandInv, OpsInv, TornInv, MadeInv, ServerToCome
<1>6. DoneInv
  BY <1>1 DEF DoneInv
<1> QED BY <1>3, <1>4, <1>5, <1>6 DEF Inv

LEMMA InvStays ==
  ASSUME Inv, UNCHANGED vars
  PROVE  Inv'
<1>1. UNCHANGED <<config, installed, k3s, secrets, join, stack, cg, runs, troubles, made, late>>
  BY DEF vars
<1>2. TypeInv'
  BY <1>1 DEF Inv, TypeInv, ConfigTyped, FewWorkers, Workers, Known
<1>3. FileInv'
  BY <1>1 DEF Inv, FileInv, OneWorkerEach, StepsOfEntries, DoneOfEntries, ServerOfHead, JoinsOfWorkers,
     Joins, TokensOfServers, TokensOfAgents, Clusters, WorkersAt, Workers, Known, IpOf, OnHead, StepsOf
<1>4. CommandInv'
  <2>1. PlanInv'
    BY <1>1 DEF Inv, CommandInv, PlanInv, PlanHolds, RecordHolds, WorkersAt, Workers, Known, IpOf
  <2>2. OpsInv'
    <3>1. OpsAre => OpsAre'
      BY <1>1 DEF OpsAre, Left, Current, Known, IpOf, OnHead, StepsOf
    <3>2. SettingUp => SettingUp'
      BY <1>1 DEF SettingUp, Left, Op1, Host, IpOf, Clusters
    <3>3. Tearing => Tearing'
      BY <1>1 DEF Tearing, Undone, Finished, Elsewhere, NoJoinLeft, Left, Op1, Host, Known, IpOf, OnHead,
         StepsOf
    <3> QED BY <1>1, <3>1, <3>2, <3>3 DEF Inv, CommandInv, OpsInv
  <2>3. TornInv'
    BY <1>1 DEF Inv, CommandInv, TornInv, TornDown, Elsewhere, NoJoinLeft, Current, Known, IpOf, OnHead,
       StepsOf
  <2>4. MadeInv'
    BY <1>1 DEF Inv, CommandInv, MadeInv, ServerToCome
  <2> QED BY <2>1, <2>2, <2>3, <2>4 DEF CommandInv
<1>5. DoneInv'
  BY <1>1 DEF Inv, DoneInv, Differs, Standing, Pending, Op1, Known, IpOf, OnHead, StepsOf
<1> QED BY <1>2, <1>3, <1>4, <1>5 DEF Inv

\* Everything the parts of the invariant say holds in every state.
THEOREM InvHolds == Spec => []Inv
<1>1. Init => Inv
  BY SeedAssumption, EntryAssumption, InvStarts
<1>2. Inv /\ [Next]_vars => Inv'
  <2>1. ASSUME Inv, Next PROVE Inv'
    <3>1. CommandInv'
      BY <2>1, SeedAssumption, PlanKept, OpsKept, TornKept, MadeKept DEF CommandInv
    <3> QED BY <2>1, <3>1, SeedAssumption, TypesKept, FileKept, DoneKept DEF Inv
  <2>2. Inv /\ UNCHANGED vars => Inv'
    BY InvStays
  <2> QED BY <2>1, <2>2
<1> QED BY <1>1, <1>2, PTL DEF Spec

\* Whatever the machines, the names and the bounds, the file, the machines and
\* the command hold what they can hold, and one worker at most is recorded at
\* an address.
THEOREM TypeCorrect == Spec => []TypeOK
<1>1. Inv => TypeOK
  <2> SUFFICES ASSUME Inv PROVE TypeOK
    OBVIOUS
  <2>1. TypeInv /\ OneWorkerEach
    BY DEF Inv, FileInv
  <2>2. \A a \in Roles : Known(a) => config[a] \in Entries
    BY <2>1, EntryTyped DEF TypeInv
  <2>3. ASSUME NEW m \in Machines PROVE Cardinality(WorkersAt(m)) <= 1
    <3>1. CASE WorkersAt(m) = {}
      BY <3>1, FS_EmptySet
    <3>2. CASE WorkersAt(m) # {}
      <4>1. PICK a : a \in WorkersAt(m)
        BY <3>2
      <4>2. WorkersAt(m) = {a}
        BY <2>1, <4>1 DEF OneWorkerEach, WorkersAt
      <4>3. Cardinality({a}) = 1
        BY FS_Singleton
      <4> QED BY <4>2, <4>3
    <3> QED BY <3>1, <3>2
  <2>4. /\ installed \in [Machines -> SUBSET Names]
        /\ k3s \in [Machines -> [kind : {"none", "server", "agent"}, cluster : 0..made]]
        /\ secrets \in [Machines -> [token : 0..made, address : BOOLEAN]]
        /\ join \in [Machines -> [timer : BOOLEAN, script : {"idle", "install", "remove"}, token : 0..made]]
    BY <2>1 DEF TypeInv, Kinds
  <2>5. /\ cg.role \in Roles \cup {Nothing} /\ cg.at \in {"do", "rest", "record"}
        /\ cg.way \in {"none", "setup", "teardown"} /\ cg.token \in 0..made
    BY <2>1, CommandIs DEF Ways
  <2>6. /\ runs \in 0..MaxRuns /\ troubles \in 0..MaxTrouble /\ made \in 0..MaxRuns
        /\ late \subseteq Machines
    BY <2>1, SeedAssumption DEF TypeInv
  <2> QED BY <2>2, <2>3, <2>4, <2>5, <2>6 DEF TypeOK
<1> QED BY <1>1, InvHolds, PTL

\* Wherever a command stopped, what a machine carries is of an entry from which
\* the command that removes it starts; a join removed while it ran apart.
THEOREM EverythingIsRecorded == Spec => []NothingIsUnrecorded
<1>1. Inv => NothingIsUnrecorded
  <2> SUFFICES ASSUME Inv, NEW m \in Machines \ late
               PROVE  /\ installed[m] # {} => \E a \in Roles : Known(a) /\ IpOf(a) = m
                      /\ k3s[m].kind = "server" \/ ServerUp(m) => Known(HeadRole) /\ IpOf(HeadRole) = m
                      /\ k3s[m].kind = "agent" \/ join[m].timer => \E a \in WorkersAt(m) : ~OnHead(a)
    BY DEF NothingIsUnrecorded
  <2>1. StepsOfEntries /\ ServerOfHead /\ JoinsOfWorkers
    BY DEF Inv, FileInv
  <2>2. ServerUp(m) => Known(HeadRole) /\ IpOf(HeadRole) = m
    <3> SUFFICES ASSUME ServerUp(m) PROVE Known(HeadRole) /\ IpOf(HeadRole) = m
      OBVIOUS
    <3>1. PICK a \in Roles : Known(a) /\ IpOf(a) = m /\ "HeadServer" \in StepsOf(a)
      BY <2>1 DEF ServerUp, StepsOfEntries
    <3>2. a = HeadRole
      BY <3>1, SeedAssumption, StepsOwned
    <3> QED BY <3>1, <3>2
  <2> QED BY <2>1, <2>2 DEF StepsOfEntries, ServerOfHead, JoinsOfWorkers, Joins
<1> QED BY <1>1, InvHolds, PTL

\* Credentials that can be read are those of the server beside them, and whoever
\* joined in time is of a server that runs, through every restart.
THEOREM JoinersFindTheHead == Spec => []JoinedToTheRunningHead
<1>1. Inv => JoinedToTheRunningHead
  <2> SUFFICES ASSUME Inv PROVE JoinedToTheRunningHead
    OBVIOUS
  <2>1. ASSUME NEW m \in HeadCreds PROVE k3s[m] = [kind |-> "server", cluster |-> secrets[m].token]
    <3>1. m \in Machines /\ k3s[m].kind = "server" /\ k3s[m].cluster = secrets[m].token
      BY CredsAreOfServers
    <3>2. k3s[m] \in [kind : Kinds, cluster : 0..made]
      BY <3>1 DEF Inv, TypeInv
    <3> QED BY <3>1, <3>2
  <2>2. \A m \in Machines \ late : k3s[m].kind = "agent" => k3s[m].cluster \in Clusters
    BY DEF Inv, FileInv, TokensOfAgents
  <2> QED BY <2>1, <2>2 DEF JoinedToTheRunningHead
<1> QED BY <1>1, InvHolds, PTL

\* Whatever commands in whichever direction were interrupted wherever, `done`
\* and the machine differ in one step for each, and in the step under way.
THEOREM DoneShowsWhereItStopped == Spec => []DoneTellsWhereItStopped
<1>1. Inv => DoneTellsWhereItStopped
  <2> SUFFICES ASSUME Inv, NEW a \in Roles, Known(a)
               PROVE  LET steps == {op.name : op \in ToSet(PipelineOf(a, TRUE))}
                          standing == installed[IpOf(a)] \cap steps
                          done == config[a].done
                      IN  Cardinality((done \ standing) \cup (standing \ done))
                            <= troubles + (IF cg.at = "do" THEN 0 ELSE 1)
    BY DEF DoneTellsWhereItStopped
  <2>1. {op.name : op \in ToSet(PipelineOf(a, TRUE))} = StepsOf(a)
    <3>1. PICK p : p = PipelineOf(a, TRUE)
      OBVIOUS
    <3>2. p \in Seq(Operator) /\ NamesOf(p) = StepsOf(a)
      BY <3>1, PipelineSteps
    <3>3. ToSet(p) = {p[i] : i \in 1..Len(p)}
      BY <3>2 DEF ToSet
    <3>4. {op.name : op \in ToSet(p)} = NamesOf(p)
      BY <3>3 DEF NamesOf
    <3> QED BY <3>1, <3>2, <3>4
  <2> SUFFICES Cardinality(Differs(a)) <= troubles + (IF cg.at = "do" THEN 0 ELSE 1)
    BY <2>1 DEF Differs, Standing
  <2> DEFINE S == Differs(a)
             T == Differs(a) \ Pending(a)
  <2>2. S \subseteq Names /\ T \subseteq S /\ T \subseteq Names /\ S \subseteq T \cup {Op1.name}
    BY DiffersTyped DEF Inv, Pending
  <2>3. Cardinality(T) <= troubles /\ troubles \in Nat
    BY DEF Inv, DoneInv, TypeInv
  <2>4. cg.at = "do" => S = T
    BY DEF Pending
  <2> HIDE DEF S, T
  <2>5. Cardinality(S) \in Nat /\ Cardinality(T) \in Nat /\ Cardinality(S) <= Cardinality(T) + 1
    BY <2>2, OneMoreDiffers
  <2>6. Cardinality(S) <= troubles + (IF cg.at = "do" THEN 0 ELSE 1)
    BY <2>3, <2>4, <2>5
  <2> QED BY <2>6 DEF S
<1> QED BY <1>1, InvHolds, PTL
=============================================================================
