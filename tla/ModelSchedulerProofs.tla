------------------------ MODULE ModelSchedulerProofs ------------------------
(***************************************************************************)
(* Proofs about ModelScheduler: what a decision pauses, for any models,    *)
(* requirements, nodes and resources.                                      *)
(***************************************************************************)
EXTENDS ModelScheduler, FiniteSetTheorems, SequenceTheorems, WellFoundedInduction, TLAPS

-----------------------------------------------------------------------------
(* Recursive definitions over numbers, and induction over them *)

LEMMA LeastNumber ==
  ASSUME NEW S \in SUBSET Nat, S # {}
  PROVE  \E x \in S : \A y \in S : x <= y
<1>1. PICK x \in S : \A y \in S : ~(<<y, x>> \in OpToRel(<, Nat))
  BY NatLessThanWellFounded, WFMin
<1>2. ASSUME NEW y \in S PROVE ~(y < x)
  BY <1>1 DEF OpToRel
<1> QED
  BY <1>2

\* A set of numbers that holds 0 and with every number the next one holds them all.
LEMMA EveryNumber ==
  ASSUME NEW S, 0 \in S, \A n \in Nat : n \in S => n + 1 \in S
  PROVE  Nat \subseteq S
<1> SUFFICES ASSUME Nat \ S # {} PROVE FALSE
  OBVIOUS
<1>1. PICK x \in Nat \ S : \A y \in Nat \ S : x <= y
  BY LeastNumber
<1>2. x - 1 \in Nat /\ x = (x - 1) + 1
  BY <1>1
<1>3. x - 1 \in S
  BY <1>1, <1>2
<1> QED
  BY <1>1, <1>2, <1>3

\* The sets a search has reached, step by step.
Reaching(f, start, edges, n) ==
  f = [k \in 0..n |-> IF k = 0 THEN edges[start]
                      ELSE f[k - 1] \cup UNION {edges[m] : m \in f[k - 1]}]

LEMMA ReachableIsChosen ==
  ASSUME NEW start, NEW edges
  PROVE  Reachable(start, edges) =
           (CHOOSE f : Reaching(f, start, edges, Cardinality(Models)))[Cardinality(Models)]
  BY DEF Reachable, Reaching

LEMMA ModelsAreFinite ==
  /\ IsFiniteSet(Models) /\ Cardinality(Models) \in Nat
  /\ \A S \in SUBSET Models : /\ IsFiniteSet(S)
                              /\ Cardinality(S) \in 0..Cardinality(Models)
<1>1. IsFiniteSet(Models)
  BY SchedulerAssumption
<1>2. Cardinality(Models) \in Nat
  BY <1>1, FS_CardinalityType
<1>3. ASSUME NEW S \in SUBSET Models
      PROVE  IsFiniteSet(S) /\ Cardinality(S) \in 0..Cardinality(Models)
  <2>1. IsFiniteSet(S) /\ Cardinality(S) <= Cardinality(Models)
    BY <1>1, FS_Subset
  <2>2. Cardinality(S) \in Nat
    BY <2>1, FS_CardinalityType
  <2> QED
    BY <2>1, <2>2, <1>2
<1> QED
  BY <1>1, <1>2, <1>3

LEMMA SearchesExist ==
  ASSUME NEW start, NEW edges
  PROVE  \A n \in Nat : \E f : Reaching(f, start, edges, n)
<1> DEFINE S == {n \in Nat : \E f : Reaching(f, start, edges, n)}
<1>1. 0 \in S
  <2> DEFINE f == [k \in 0..0 |-> edges[start]]
  <2>1. Reaching(f, start, edges, 0)
    BY DEF Reaching
  <2> QED
    BY <2>1
<1>2. ASSUME NEW n \in Nat, n \in S PROVE n + 1 \in S
  <2>1. PICK f : Reaching(f, start, edges, n)
    BY <1>2
  <2> DEFINE g == [k \in 0..n + 1 |-> IF k <= n THEN f[k]
                     ELSE f[n] \cup UNION {edges[m] : m \in f[n]}]
  <2>2. \A k \in 0..n : g[k] = f[k]
    OBVIOUS
  <2>3. g[n + 1] = f[n] \cup UNION {edges[m] : m \in f[n]}
    OBVIOUS
  <2>4. f[0] = edges[start]
    BY <2>1 DEF Reaching
  <2>5. \A k \in 1..n : f[k] = f[k - 1] \cup UNION {edges[m] : m \in f[k - 1]}
    BY <2>1 DEF Reaching
  <2>6. DOMAIN g = 0..n + 1 /\ g = [k \in 0..n + 1 |-> g[k]]
    OBVIOUS
  <2> HIDE DEF g
  <2>7. ASSUME NEW k \in 0..n + 1
        PROVE  g[k] = IF k = 0 THEN edges[start]
                      ELSE g[k - 1] \cup UNION {edges[m] : m \in g[k - 1]}
    <3>1. CASE k = 0
      BY <3>1, <2>2, <2>4
    <3>2. CASE k \in 1..n
      <4>1. k - 1 \in 0..n /\ k \in 0..n /\ k # 0
        BY <3>2
      <4>2. g[k] = f[k] /\ g[k - 1] = f[k - 1]
        BY <4>1, <2>2
      <4> QED
        BY <4>1, <4>2, <3>2, <2>5
    <3>3. CASE k = n + 1
      <4>1. k - 1 = n /\ k # 0 /\ n \in 0..n
        BY <3>3
      <4> QED
        BY <4>1, <3>3, <2>2, <2>3
    <3> QED
      BY <3>1, <3>2, <3>3
  <2>8. Reaching(g, start, edges, n + 1)
    BY <2>6, <2>7 DEF Reaching
  <2>9. n + 1 \in Nat
    OBVIOUS
  <2> QED
    BY <2>8, <2>9
<1>3. Nat \subseteq S
  <2> HIDE DEF S
  <2> QED
    BY <1>1, <1>2, EveryNumber
<1> QED
  BY <1>3

\* What is reached: a chain of sets, of which the last is Reachable.
LEMMA SearchSteps ==
  ASSUME NEW start \in Models, NEW edges \in [Models -> SUBSET Models]
  PROVE  \E f \in [0..Cardinality(Models) -> SUBSET Models] :
           /\ f[0] = edges[start]
           /\ \A k \in 1..Cardinality(Models) :
                f[k] = f[k - 1] \cup UNION {edges[m] : m \in f[k - 1]}
           /\ Reachable(start, edges) = f[Cardinality(Models)]
<1> DEFINE N == Cardinality(Models)
<1>0. N \in Nat
  BY ModelsAreFinite
<1> DEFINE f == CHOOSE f : Reaching(f, start, edges, N)
<1> HIDE DEF N
<1>1. Reaching(f, start, edges, N)
  BY <1>0, SearchesExist
<1>2. Reachable(start, edges) = f[N]
  BY ReachableIsChosen DEF N
<1> HIDE DEF f
<1>3. f[0] = edges[start]
  BY <1>0, <1>1 DEF Reaching
<1>4. ASSUME NEW k \in 1..N
      PROVE  f[k] = f[k - 1] \cup UNION {edges[m] : m \in f[k - 1]}
  <2>1. k \in 0..N /\ k # 0
    BY <1>0
  <2> QED
    BY <2>1, <1>1 DEF Reaching
<1> DEFINE S == {k \in Nat : k <= N => f[k] \in SUBSET Models}
<1>5. 0 \in S
  BY <1>3
<1>6. ASSUME NEW k \in Nat, k \in S PROVE k + 1 \in S
  <2>1. SUFFICES ASSUME k + 1 <= N PROVE f[k + 1] \in SUBSET Models
    OBVIOUS
  <2>2. k + 1 \in 1..N /\ (k + 1) - 1 = k
    BY <2>1, <1>0
  <2>3. f[k + 1] = f[k] \cup UNION {edges[m] : m \in f[k]}
    BY <2>2, <1>4
  <2>4. f[k] \in SUBSET Models
    BY <1>6, <2>1, <1>0
  <2> QED
    BY <2>3, <2>4
<1>7. Nat \subseteq S
  <2> HIDE DEF S
  <2> QED
    BY <1>5, <1>6, EveryNumber
<1>8. \A k \in 0..N : f[k] \in SUBSET Models
  BY <1>7, <1>0
<1>9. f \in [0..N -> SUBSET Models]
  <2>1. f = [k \in 0..N |-> IF k = 0 THEN edges[start]
                      ELSE f[k - 1] \cup UNION {edges[m] : m \in f[k - 1]}]
    BY <1>1 DEF Reaching
  <2>2. DOMAIN f = 0..N /\ f = [k \in 0..N |-> f[k]]
    BY <2>1
  <2> QED
    BY <2>2, <1>8
<1> QED
  BY <1>2, <1>3, <1>4, <1>9 DEF N

Closed(S, edges) == \A m \in S : edges[m] \subseteq S

\* What is reached is in every set that holds the first models and is closed.
LEMMA ReachableIsLeast ==
  ASSUME NEW start \in Models, NEW edges \in [Models -> SUBSET Models],
         NEW T, edges[start] \subseteq T, Closed(T, edges)
  PROVE  Reachable(start, edges) \subseteq T
<1> DEFINE N == Cardinality(Models)
<1>0. N \in Nat
  BY ModelsAreFinite
<1>1. PICK f \in [0..N -> SUBSET Models] :
           /\ f[0] = edges[start]
           /\ \A k \in 1..N : f[k] = f[k - 1] \cup UNION {edges[m] : m \in f[k - 1]}
           /\ Reachable(start, edges) = f[N]
  BY SearchSteps
<1> HIDE DEF N
<1> DEFINE S == {k \in Nat : k <= N => f[k] \subseteq T}
<1>5. 0 \in S
  BY <1>1
<1>6. ASSUME NEW k \in Nat, k \in S PROVE k + 1 \in S
  <2>1. SUFFICES ASSUME k + 1 <= N PROVE f[k + 1] \subseteq T
    OBVIOUS
  <2>2. k + 1 \in 1..N /\ (k + 1) - 1 = k
    BY <2>1, <1>0
  <2>3. f[k + 1] = f[k] \cup UNION {edges[m] : m \in f[k]}
    BY <2>2, <1>1
  <2>4. f[k] \subseteq T
    BY <1>6, <2>1, <1>0
  <2> QED
    BY <2>3, <2>4 DEF Closed
<1>7. Nat \subseteq S
  <2> HIDE DEF S
  <2> QED
    BY <1>5, <1>6, EveryNumber
<1> QED
  BY <1>7, <1>0, <1>1

\* It holds the first models and is closed: the search has as many steps as there are
\* models, and each finds another model or nothing more.
LEMMA ReachableIsClosed ==
  ASSUME NEW start \in Models, NEW edges \in [Models -> SUBSET Models]
  PROVE  /\ Reachable(start, edges) \subseteq Models
         /\ edges[start] \subseteq Reachable(start, edges)
         /\ Closed(Reachable(start, edges), edges)
<1> DEFINE N == Cardinality(Models)
<1>0. N \in Nat
  BY ModelsAreFinite
<1>1. PICK f \in [0..N -> SUBSET Models] :
           /\ f[0] = edges[start]
           /\ \A k \in 1..N : f[k] = f[k - 1] \cup UNION {edges[m] : m \in f[k - 1]}
           /\ Reachable(start, edges) = f[N]
  BY SearchSteps
<1> DEFINE S == {k \in Nat : k <= N => /\ edges[start] \subseteq f[k]
                                       /\ Closed(f[k], edges) \/ Cardinality(f[k]) >= k}
<1>2. \A k \in 0..N : f[k] \subseteq Models /\ IsFiniteSet(f[k]) /\ Cardinality(f[k]) \in 0..N
  BY <1>1, ModelsAreFinite
<1> HIDE DEF N
<1>5. 0 \in S
  <2>1. 0 \in 0..N
    BY <1>0
  <2>2. Cardinality(f[0]) >= 0
    BY <2>1, <1>2, <1>0
  <2> QED
    BY <1>1, <2>2
<1>6. ASSUME NEW k \in Nat, k \in S PROVE k + 1 \in S
  <2>1. SUFFICES ASSUME k + 1 <= N
                 PROVE  /\ edges[start] \subseteq f[k + 1]
                        /\ Closed(f[k + 1], edges) \/ Cardinality(f[k + 1]) >= k + 1
    OBVIOUS
  <2>2. k + 1 \in 1..N /\ (k + 1) - 1 = k /\ k \in 0..N /\ k + 1 \in 0..N
    BY <2>1, <1>0
  <2>3. f[k + 1] = f[k] \cup UNION {edges[m] : m \in f[k]}
    BY <2>2, <1>1
  <2>4. /\ edges[start] \subseteq f[k]
        /\ Closed(f[k], edges) \/ Cardinality(f[k]) >= k
    BY <1>6, <2>1, <1>0
  <2>5. CASE Closed(f[k], edges)
    <3>1. f[k + 1] = f[k]
      BY <2>3, <2>5 DEF Closed
    <3> QED
      BY <3>1, <2>4, <2>5
  <2>6. CASE ~Closed(f[k], edges)
    <3>1. PICK m \in f[k] : ~(edges[m] \subseteq f[k])
      BY <2>6 DEF Closed
    <3>2. f[k] \subseteq f[k + 1] /\ f[k] # f[k + 1]
      BY <3>1, <2>3
    <3>3. IsFiniteSet(f[k + 1]) /\ f[k] \in SUBSET f[k + 1]
      BY <3>2, <2>2, <1>2
    <3>4. Cardinality(f[k]) <= Cardinality(f[k + 1]) /\ Cardinality(f[k + 1]) # Cardinality(f[k])
      BY <3>2, <3>3, FS_Subset
    <3>5. Cardinality(f[k]) \in Nat /\ Cardinality(f[k + 1]) \in Nat
      BY <1>0, <1>2, <2>2
    <3>6. Cardinality(f[k + 1]) >= k + 1
      BY <3>4, <3>5, <2>4, <2>6
    <3> QED
      BY <3>6, <2>4, <3>2
  <2> QED
    BY <2>5, <2>6
<1>7. Nat \subseteq S
  <2> HIDE DEF S
  <2> QED
    BY <1>5, <1>6, EveryNumber
<1>8. N \in 0..N /\ f[N] \in SUBSET Models
  BY <1>0
<1>9. CASE Cardinality(f[N]) >= N
  <2>1. Cardinality(f[N]) = N
    BY <1>9, <1>8, <1>2, <1>0
  <2>2. f[N] = Models
    BY <2>1, <1>8, ModelsAreFinite, FS_Subset DEF N
  <2> QED
    BY <2>2, <1>1 DEF Closed
<1>10. CASE Closed(f[N], edges)
  BY <1>10, <1>7, <1>8, <1>0, <1>1
<1> QED
  BY <1>7, <1>8, <1>0, <1>9, <1>10

LEMMA ReversedTyped ==
  ASSUME NEW edges \in [Models -> SUBSET Models]
  PROVE  /\ Reversed(edges) \in [Models -> SUBSET Models]
         /\ \A m, d \in Models : m \in edges[d] <=> d \in Reversed(edges)[m]
BY DEF Reversed

LEMMA RequirementsTyped ==
  ASSUME NEW reports
  PROVE  RequiredDirectly(reports) \in [Models -> SUBSET Models]
BY SchedulerAssumption DEF RequiredDirectly, Known

\* What is reached from what is reached is reached.
LEMMA ReachedFurther ==
  ASSUME NEW edges \in [Models -> SUBSET Models], NEW o \in Models,
         NEW m \in Reachable(o, edges)
  PROVE  Reachable(m, edges) \subseteq Reachable(o, edges)
<1>1. m \in Models /\ Closed(Reachable(o, edges), edges)
  BY ReachableIsClosed
<1>2. edges[m] \subseteq Reachable(o, edges)
  BY <1>1 DEF Closed
<1> QED
  BY <1>1, <1>2, ReachableIsLeast

\* Whoever reaches a model is reached from it backwards.
LEMMA ReachedBackwards ==
  ASSUME NEW edges \in [Models -> SUBSET Models], NEW d \in Models,
         NEW m \in Reachable(d, edges)
  PROVE  d \in Reachable(m, Reversed(edges))
<1> DEFINE back == Reversed(edges)
           T == {x \in Models : d \in Reachable(x, back)}
<1>1. back \in [Models -> SUBSET Models]
  BY ReversedTyped
<1>2. \A x, y \in Models : y \in edges[x] <=> x \in back[y]
  BY ReversedTyped
<1> HIDE DEF back
<1>3. edges[d] \subseteq T
  <2> SUFFICES ASSUME NEW x \in edges[d] PROVE x \in T
    OBVIOUS
  <2>1. x \in Models /\ d \in back[x]
    BY <1>2
  <2> QED
    BY <2>1, <1>1, ReachableIsClosed
<1>4. Closed(T, edges)
  <2> SUFFICES ASSUME NEW x \in T, NEW y \in edges[x] PROVE y \in T
    BY DEF Closed
  <2>1. x \in Models /\ y \in Models /\ x \in back[y]
    BY <1>2
  <2>2. x \in Reachable(y, back)
    BY <2>1, <1>1, ReachableIsClosed
  <2>3. Reachable(x, back) \subseteq Reachable(y, back)
    BY <2>1, <2>2, <1>1, ReachedFurther
  <2> QED
    BY <2>1, <2>3
<1>5. Reachable(d, edges) \subseteq T
  <2> HIDE DEF T
  <2> QED
    BY <1>3, <1>4, ReachableIsLeast
<1> QED
  BY <1>5 DEF back

\* A group is of idle running models, its own model among them, and with each of its
\* models it has every running model that reaches that one.
LEMMA GroupsAreWhole ==
  ASSUME NEW running \in SUBSET Models, NEW unpausable, NEW reports,
         NEW groups, groups = PauseGroups(running, unpausable, reports),
         NEW o \in DOMAIN groups
  PROVE  /\ o \in running /\ o \in groups[o] /\ groups[o] \subseteq running
         /\ \A d \in groups[o] : reports[d] = "idle"
         /\ \A d \in running : \A m \in groups[o] :
              m \in Reachable(d, RequiredDirectly(reports)) => d \in groups[o]
<1> DEFINE edges == RequiredDirectly(reports)
           back == Reversed(edges)
<1>1. edges \in [Models -> SUBSET Models] /\ back \in [Models -> SUBSET Models]
  BY RequirementsTyped, ReversedTyped
<1>2. /\ o \in running
      /\ groups[o] = {o} \cup (Reachable(o, back) \cap running)
      /\ \A d \in groups[o] : reports[d] = "idle"
  BY DEF PauseGroups, Group
<1>3. ASSUME NEW d \in running, NEW m \in groups[o], m \in Reachable(d, edges)
      PROVE  d \in groups[o]
  <2>1. d \in Models /\ m \in Models /\ o \in Models
    BY <1>2
  <2>2. d \in Reachable(m, back)
    BY <2>1, <1>1, <1>3, ReachedBackwards
  <2>3. Reachable(m, back) \subseteq Reachable(o, back) \/ m = o
    BY <2>1, <1>1, <1>2, ReachedFurther
  <2> QED
    BY <2>2, <2>3, <1>2
<1> QED
  BY <1>2, <1>3

\* What is freed on a node is of whole groups, and leaves room there.
LEMMA FreedInGroups ==
  ASSUME NEW groups, IsFiniteSet(DOMAIN groups), NEW m, NEW n, NEW uses,
         NEW c \in FreeingOn(m, n, groups, uses)
  PROVE  /\ \E O \in SUBSET DOMAIN groups : c = UNION {groups[o] : o \in O}
         /\ HasRoomFor(m, FreeWithout(c, n))
<1> DEFINE idle == {o \in DOMAIN groups : node[o] = n}
           gone(s, i) == UNION {groups[s[k]] : k \in 1..i}
           enough(s, i) == HasRoomFor(m, FreeWithout(gone(s, i), n))
<1>1. PICK s \in LeastRecentlyUsedFirst(idle, uses) :
        \E i \in 1..Len(s) : enough(s, i) /\ c = gone(s, i)
  BY DEF FreeingOn
<1>2. PICK i \in 1..Len(s) : enough(s, i) /\ c = gone(s, i)
  BY <1>1
<1>3. IsFiniteSet(idle) /\ Cardinality(idle) \in Nat
  BY FS_Subset, FS_CardinalityType
<1>4. s \in [1..Cardinality(idle) -> idle]
  BY <1>1 DEF LeastRecentlyUsedFirst
<1>5. Len(s) = Cardinality(idle)
  BY <1>3, <1>4
<1>6. c = UNION {groups[o] : o \in {s[k] : k \in 1..i}}
  BY <1>2
<1>7. {s[k] : k \in 1..i} \subseteq DOMAIN groups
  BY <1>3, <1>4, <1>5
<1> QED
  BY <1>2, <1>6, <1>7

-----------------------------------------------------------------------------
(* What a set of replicas holds: a sum, whatever order it is taken in *)

Summed(f, T) ==
  IF T = {} THEN [r \in Resources |-> 0]
  ELSE LET m == CHOOSE m \in T : TRUE
       IN  [r \in Resources |-> Need[m][r] + f[T \ {m}][r]]

Summing(f, sets) == f = [T \in sets |-> Summed(f, T)]

SumOf == CHOOSE f : Summing(f, SUBSET Models)

UpTo(n) == {T \in SUBSET Models : Cardinality(T) <= n}

LEMMA OneLess ==
  ASSUME NEW T \in SUBSET Models, NEW x \in T
  PROVE  /\ T \ {x} \in SUBSET Models
         /\ Cardinality(T) \in Nat \ {0}
         /\ Cardinality(T \ {x}) = Cardinality(T) - 1
<1>1. IsFiniteSet(T) /\ Cardinality(T) \in Nat
  BY ModelsAreFinite
<1>2. Cardinality(T) # 0
  BY <1>1, FS_EmptySet
<1>3. Cardinality(T \ {x}) = Cardinality(T) - 1
  BY <1>1, FS_RemoveElement
<1> QED
  BY <1>1, <1>2, <1>3

\* The sum of a set is of its elements and the sums of the smaller sets.
LEMMA SummedOfLess ==
  ASSUME NEW T \in SUBSET Models, NEW f, NEW g,
         \A x \in T : f[T \ {x}] = g[T \ {x}]
  PROVE  Summed(f, T) = Summed(g, T)
<1>1. CASE T = {}
  BY <1>1 DEF Summed
<1>2. CASE T # {}
  <2> DEFINE m == CHOOSE m \in T : TRUE
  <2>1. m \in T
    BY <1>2
  <2>2. f[T \ {m}] = g[T \ {m}]
    BY <2>1
  <2> QED
    BY <1>2, <2>2 DEF Summed
<1> QED
  BY <1>1, <1>2

LEMMA SumsExist ==
  \A n \in Nat : \E f : Summing(f, UpTo(n))
<1> DEFINE S == {n \in Nat : \E f : Summing(f, UpTo(n))}
<1>1. 0 \in S
  <2> DEFINE f == [T \in UpTo(0) |-> [r \in Resources |-> 0]]
  <2>1. ASSUME NEW T \in UpTo(0) PROVE T = {}
    <3>1. IsFiniteSet(T) /\ Cardinality(T) \in Nat /\ Cardinality(T) <= 0
      BY ModelsAreFinite DEF UpTo
    <3> QED
      BY <3>1, FS_EmptySet
  <2>2. \A T \in UpTo(0) : Summed(f, T) = [r \in Resources |-> 0]
    BY <2>1 DEF Summed
  <2>3. Summing(f, UpTo(0))
    BY <2>2 DEF Summing
  <2> QED
    BY <2>3
<1>2. ASSUME NEW n \in Nat, n \in S PROVE n + 1 \in S
  <2>1. PICK f : Summing(f, UpTo(n))
    BY <1>2
  <2> DEFINE g == [T \in UpTo(n + 1) |-> IF T \in UpTo(n) THEN f[T] ELSE Summed(f, T)]
  <2>2. \A T \in UpTo(n) : f[T] = Summed(f, T)
    BY <2>1 DEF Summing
  <2>3. UpTo(n) \subseteq UpTo(n + 1)
    <3> SUFFICES ASSUME NEW T \in UpTo(n) PROVE T \in UpTo(n + 1)
      OBVIOUS
    <3>1. T \in SUBSET Models /\ Cardinality(T) <= n /\ Cardinality(T) \in Nat
      BY ModelsAreFinite DEF UpTo
    <3> QED
      BY <3>1 DEF UpTo
  <2>4. \A T \in UpTo(n + 1) : g[T] = Summed(f, T)
    BY <2>2
  <2>5. \A T \in UpTo(n) : g[T] = f[T]
    BY <2>3
  <2>6. DOMAIN g = UpTo(n + 1) /\ g = [T \in UpTo(n + 1) |-> g[T]]
    OBVIOUS
  <2> HIDE DEF g
  <2>7. ASSUME NEW T \in UpTo(n + 1) PROVE g[T] = Summed(g, T)
    <3>1. ASSUME NEW x \in T PROVE f[T \ {x}] = g[T \ {x}]
      <4>1. T \in SUBSET Models /\ Cardinality(T) <= n + 1
        BY DEF UpTo
      <4>2. T \ {x} \in UpTo(n)
        BY <4>1, OneLess DEF UpTo
      <4> QED
        BY <4>2, <2>5
    <3>2. T \in SUBSET Models
      BY DEF UpTo
    <3>3. Summed(f, T) = Summed(g, T)
      BY <3>1, <3>2, SummedOfLess
    <3> QED
      BY <3>3, <2>4
  <2>8. Summing(g, UpTo(n + 1))
    BY <2>6, <2>7 DEF Summing
  <2> QED
    BY <2>8
<1>3. Nat \subseteq S
  <2> HIDE DEF S
  <2> QED
    BY <1>1, <1>2, EveryNumber
<1> QED
  BY <1>3

LEMMA SumOfIsSummed ==
  /\ SumOf[{}] = [r \in Resources |-> 0]
  /\ \A T \in SUBSET Models : SumOf[T] = Summed(SumOf, T)
<1>1. UpTo(Cardinality(Models)) = SUBSET Models
  BY ModelsAreFinite DEF UpTo
<1>2. \E f : Summing(f, SUBSET Models)
  BY <1>1, SumsExist, ModelsAreFinite
<1>3. Summing(SumOf, SUBSET Models)
  BY <1>2 DEF SumOf
<1>4. \A T \in SUBSET Models : SumOf[T] = Summed(SumOf, T)
  BY <1>3 DEF Summing
<1>5. Summed(SumOf, {}) = [r \in Resources |-> 0]
  BY DEF Summed
<1> QED
  BY <1>4, <1>5

\* The sums over the subsets of a set are those over the subsets of Models.
LEMMA SumsAgree ==
  ASSUME NEW H \in SUBSET Models, NEW f, Summing(f, SUBSET H)
  PROVE  f[H] = SumOf[H]
<1> DEFINE S == {n \in Nat : \A T \in SUBSET H : Cardinality(T) = n => f[T] = SumOf[T]}
<1>1. \A T \in SUBSET H : f[T] = Summed(f, T)
  BY DEF Summing
<1>2. 0 \in S
  <2> SUFFICES ASSUME NEW T \in SUBSET H, Cardinality(T) = 0 PROVE f[T] = SumOf[T]
    OBVIOUS
  <2>1. IsFiniteSet(T)
    BY ModelsAreFinite
  <2>2. T = {}
    BY <2>1, FS_EmptySet
  <2> QED
    BY <2>2, <1>1, SumOfIsSummed DEF Summed
<1>3. ASSUME NEW n \in Nat, n \in S PROVE n + 1 \in S
  <2> SUFFICES ASSUME NEW T \in SUBSET H, Cardinality(T) = n + 1 PROVE f[T] = SumOf[T]
    OBVIOUS
  <2>1. ASSUME NEW x \in T PROVE f[T \ {x}] = SumOf[T \ {x}]
    <3>1. T \ {x} \in SUBSET H /\ Cardinality(T \ {x}) = n
      BY OneLess
    <3> QED
      BY <3>1, <1>3
  <2>2. Summed(f, T) = Summed(SumOf, T)
    BY <2>1, SummedOfLess
  <2> QED
    BY <2>2, <1>1, SumOfIsSummed
<1>4. Nat \subseteq S
  <2> HIDE DEF S
  <2> QED
    BY <1>2, <1>3, EveryNumber
<1>5. H \in SUBSET H /\ Cardinality(H) \in Nat
  BY ModelsAreFinite
<1> QED
  BY <1>4, <1>5

LEMMA HeldIsSum ==
  ASSUME NEW S \in SUBSET Models, NEW n
  PROVE  Held(S, n) = SumOf[{m \in S : node[m] = n}]
<1> DEFINE held == {m \in S : node[m] = n}
           f == CHOOSE f : Summing(f, SUBSET held)
<1>1. Held(S, n) = f[held]
  BY DEF Held, Summing, Summed
<1>2. held \in SUBSET Models
  OBVIOUS
<1> HIDE DEF held
<1>3. Summing([T \in SUBSET held |-> SumOf[T]], SUBSET held)
  <2> DEFINE g == [T \in SUBSET held |-> SumOf[T]]
  <2>1. ASSUME NEW T \in SUBSET held PROVE g[T] = Summed(g, T)
    <3>1. \A x \in T : SumOf[T \ {x}] = g[T \ {x}]
      OBVIOUS
    <3>2. Summed(SumOf, T) = Summed(g, T)
      <4> HIDE DEF g
      <4> QED
        BY <3>1, <1>2, SummedOfLess
    <3>3. g[T] = SumOf[T] /\ SumOf[T] = Summed(SumOf, T)
      BY <1>2, SumOfIsSummed
    <3> QED
      BY <3>2, <3>3
  <2>2. g = [T \in SUBSET held |-> g[T]]
    OBVIOUS
  <2> HIDE DEF g
  <2>3. Summing(g, SUBSET held)
    BY <2>1, <2>2 DEF Summing
  <2> QED
    BY <2>3 DEF g
<1>4. Summing(f, SUBSET held)
  BY <1>3
<1> HIDE DEF f
<1>5. f[held] = SumOf[held]
  BY <1>2, <1>4, SumsAgree
<1> QED
  BY <1>1, <1>5 DEF held

\* A sum is of amounts, and any of its elements can be taken last.
LEMMA AmountsTyped ==
  ASSUME NEW r \in Resources
  PROVE  /\ \A m \in Models : Need[m][r] \in Nat
         /\ \A n \in Nodes : Capacity[n][r] \in Nat
<1>1. ASSUME NEW m \in Models PROVE Need[m][r] \in Nat
  <2>1. Need[m] \in [Resources -> Nat]
    BY SchedulerAssumption
  <2> QED
    BY <2>1
<1>2. ASSUME NEW n \in Nodes PROVE Capacity[n][r] \in Nat
  <2>1. Capacity[n] \in [Resources -> Nat]
    BY SchedulerAssumption
  <2> QED
    BY <2>1
<1> QED
  BY <1>1, <1>2

LEMMA SumsTyped ==
  ASSUME NEW T \in SUBSET Models, NEW r \in Resources
  PROVE  SumOf[T][r] \in Nat
<1> DEFINE S == {n \in Nat : \A U \in SUBSET Models : Cardinality(U) = n => SumOf[U][r] \in Nat}
<1>1. 0 \in S
  <2> SUFFICES ASSUME NEW U \in SUBSET Models, Cardinality(U) = 0 PROVE SumOf[U][r] \in Nat
    OBVIOUS
  <2>1. U = {}
    BY ModelsAreFinite, FS_EmptySet
  <2> QED
    BY <2>1, SumOfIsSummed
<1>2. ASSUME NEW n \in Nat, n \in S PROVE n + 1 \in S
  <2> SUFFICES ASSUME NEW U \in SUBSET Models, Cardinality(U) = n + 1 PROVE SumOf[U][r] \in Nat
    OBVIOUS
  <2> DEFINE m == CHOOSE m \in U : TRUE
  <2>1. U # {}
    BY FS_EmptySet
  <2>2. m \in U
    BY <2>1
  <2>3. SumOf[U] = [q \in Resources |-> Need[m][q] + SumOf[U \ {m}][q]]
    BY <2>1, SumOfIsSummed DEF Summed
  <2> HIDE DEF m
  <2>4. SumOf[U][r] = Need[m][r] + SumOf[U \ {m}][r]
    BY <2>3
  <2>5. U \ {m} \in SUBSET Models /\ Cardinality(U \ {m}) = n
    BY <2>2, OneLess
  <2>6. SumOf[U \ {m}][r] \in Nat /\ Need[m][r] \in Nat
    BY <2>2, <2>5, <1>2, AmountsTyped
  <2> QED
    BY <2>4, <2>6
<1>3. Nat \subseteq S
  <2> HIDE DEF S
  <2> QED
    BY <1>1, <1>2, EveryNumber
<1>4. Cardinality(T) \in Nat
  BY ModelsAreFinite
<1> QED
  BY <1>3, <1>4

LastOf(T, r) == \A x \in T : SumOf[T][r] = Need[x][r] + SumOf[T \ {x}][r]

LEMMA SumsInAnyOrder ==
  ASSUME NEW T \in SUBSET Models, NEW r \in Resources
  PROVE  LastOf(T, r)
<1> DEFINE S == {n \in Nat : \A U \in SUBSET Models : Cardinality(U) = n => LastOf(U, r)}
<1>1. 0 \in S
  <2> SUFFICES ASSUME NEW U \in SUBSET Models, Cardinality(U) = 0 PROVE LastOf(U, r)
    OBVIOUS
  <2>1. U = {}
    BY ModelsAreFinite, FS_EmptySet
  <2> QED
    BY <2>1 DEF LastOf
<1>2. ASSUME NEW n \in Nat, n \in S PROVE n + 1 \in S
  <2> SUFFICES ASSUME NEW U \in SUBSET Models, Cardinality(U) = n + 1, NEW x \in U
               PROVE  SumOf[U][r] = Need[x][r] + SumOf[U \ {x}][r]
    BY DEF LastOf
  <2> DEFINE m == CHOOSE m \in U : TRUE
  <2>1. m \in U
    OBVIOUS
  <2>2. SumOf[U] = [q \in Resources |-> Need[m][q] + SumOf[U \ {m}][q]]
    BY SumOfIsSummed DEF Summed
  <2> HIDE DEF m
  <2>3. SumOf[U][r] = Need[m][r] + SumOf[U \ {m}][r]
    BY <2>2
  <2>4. CASE x = m
    BY <2>3, <2>4
  <2>5. CASE x # m
    <3>1. LastOf(U \ {m}, r) /\ LastOf(U \ {x}, r)
      BY <2>1, <1>2, OneLess
    <3>2. SumOf[U \ {m}][r] = Need[x][r] + SumOf[(U \ {m}) \ {x}][r]
      BY <2>5, <3>1 DEF LastOf
    <3>3. SumOf[U \ {x}][r] = Need[m][r] + SumOf[(U \ {x}) \ {m}][r]
      BY <2>1, <2>5, <3>1 DEF LastOf
    <3>4. (U \ {m}) \ {x} = (U \ {x}) \ {m}
      OBVIOUS
    <3>5. SumOf[(U \ {m}) \ {x}][r] \in Nat
      <4>1. (U \ {m}) \ {x} \in SUBSET Models
        OBVIOUS
      <4> QED
        BY <4>1, SumsTyped
    <3>6. Need[m][r] \in Nat /\ Need[x][r] \in Nat
      BY <2>1, AmountsTyped
    <3>7. SumOf[U \ {x}][r] = Need[m][r] + SumOf[(U \ {m}) \ {x}][r]
      BY <3>3, <3>4
    <3>8. SumOf[U][r] = Need[m][r] + (Need[x][r] + SumOf[(U \ {m}) \ {x}][r])
      BY <2>3, <3>2
    <3> QED
      BY <3>5, <3>6, <3>7, <3>8
  <2> QED
    BY <2>4, <2>5
<1>3. Nat \subseteq S
  <2> HIDE DEF S
  <2> QED
    BY <1>1, <1>2, EveryNumber
<1>4. Cardinality(T) \in Nat
  BY ModelsAreFinite
<1> QED
  BY <1>3, <1>4

\* More replicas hold no less.
LEMMA SumsGrow ==
  ASSUME NEW A \in SUBSET Models, NEW B \in SUBSET Models, A \subseteq B,
         NEW r \in Resources
  PROVE  SumOf[A][r] <= SumOf[B][r]
<1> DEFINE S == {n \in Nat : \A U \in SUBSET Models :
                   A \subseteq U /\ Cardinality(U) = n => SumOf[A][r] <= SumOf[U][r]}
<1>0. \A U \in SUBSET Models : SumOf[U][r] \in Nat
  BY SumsTyped
<1>1. 0 \in S
  <2> SUFFICES ASSUME NEW U \in SUBSET Models, A \subseteq U, Cardinality(U) = 0
               PROVE  SumOf[A][r] <= SumOf[U][r]
    OBVIOUS
  <2>1. U = {}
    BY ModelsAreFinite, FS_EmptySet
  <2>2. A = U
    BY <2>1
  <2> QED
    BY <2>2, <1>0
<1>2. ASSUME NEW n \in Nat, n \in S PROVE n + 1 \in S
  <2> SUFFICES ASSUME NEW U \in SUBSET Models, A \subseteq U, Cardinality(U) = n + 1
               PROVE  SumOf[A][r] <= SumOf[U][r]
    OBVIOUS
  <2>1. CASE U = A
    BY <2>1, <1>0
  <2>2. CASE U # A
    <3>1. PICK x \in U : x \notin A
      BY <2>2
    <3>2. /\ U \ {x} \in SUBSET Models /\ A \subseteq U \ {x}
          /\ Cardinality(U \ {x}) = n
      BY <3>1, OneLess
    <3>3. SumOf[A][r] <= SumOf[U \ {x}][r]
      BY <3>2, <1>2
    <3>4. SumOf[U][r] = Need[x][r] + SumOf[U \ {x}][r]
      BY <3>1, SumsInAnyOrder DEF LastOf
    <3>5. Need[x][r] \in Nat
      BY AmountsTyped
    <3> QED
      BY <3>2, <3>3, <3>4, <3>5, <1>0
  <2> QED
    BY <2>1, <2>2
<1>3. Nat \subseteq S
  <2> HIDE DEF S
  <2> QED
    BY <1>1, <1>2, EveryNumber
<1>4. Cardinality(B) \in Nat
  BY ModelsAreFinite
<1> QED
  BY <1>3, <1>4

\* Room that a set of replicas leaves when it stops is left when more stop.
LEMMA RoomGrows ==
  ASSUME NEW A, NEW B, A \subseteq B, NEW m \in Models
  PROVE  /\ \A n \in Nodes : HasRoomFor(m, FreeWithout(A, n)) => HasRoomFor(m, FreeWithout(B, n))
         /\ HasRoom(m, A) => HasRoom(m, B)
<1>1. ASSUME NEW n \in Nodes, HasRoomFor(m, FreeWithout(A, n))
      PROVE  HasRoomFor(m, FreeWithout(B, n))
  <2> SUFFICES ASSUME NEW r \in Resources PROVE FreeWithout(B, n)[r] >= Need[m][r]
    BY DEF HasRoomFor
  <2> DEFINE held(S) == {o \in Placed \ S : node[o] = n}
  <2>1. held(A) \in SUBSET Models /\ held(B) \in SUBSET Models /\ held(B) \subseteq held(A)
    BY DEF Placed
  <2>2. Held(Placed \ A, n) = SumOf[held(A)] /\ Held(Placed \ B, n) = SumOf[held(B)]
    BY HeldIsSum DEF Placed
  <2> HIDE DEF held
  <2>3. SumOf[held(B)][r] <= SumOf[held(A)][r]
    BY <2>1, SumsGrow
  <2>4. SumOf[held(A)][r] \in Nat /\ SumOf[held(B)][r] \in Nat
    BY <2>1, SumsTyped
  <2>5. Capacity[n][r] \in Nat /\ Need[m][r] \in Nat
    BY AmountsTyped
  <2>6. /\ FreeWithout(A, n)[r] = Capacity[n][r] - SumOf[held(A)][r]
        /\ FreeWithout(B, n)[r] = Capacity[n][r] - SumOf[held(B)][r]
    BY <2>2 DEF FreeWithout
  <2>7. FreeWithout(A, n)[r] >= Need[m][r]
    BY <1>1 DEF HasRoomFor
  <2> QED
    BY <2>3, <2>4, <2>5, <2>6, <2>7
<1> QED
  BY <1>1 DEF HasRoom

-----------------------------------------------------------------------------
(* What a decision pauses *)

\* What may be paused for w besides S, and what has been chosen for the replicas in turn.
MoreFor(w, S, reports, uses) ==
  FewestToPauseFor(w, PauseGroups((Placed \cap Known(reports)) \ S,
                                  Unpausable(w, reports), reports), uses)

Extended(sets, w, reports, uses) ==
  UNION {{S \cup more : more \in MoreFor(w, S, reports, uses)} : S \in sets}

Choosing(f, n, waiting, reports, uses) ==
  f = [i \in 0..n |-> IF i = 0 THEN {{}}
                      ELSE Extended(f[i - 1], waiting[i], reports, uses)]

LEMMA ModelsToPauseAreChosen ==
  ASSUME NEW waiting, NEW reports, NEW uses
  PROVE  ModelsToPause(waiting, reports, uses) =
           (CHOOSE f : Choosing(f, Len(waiting), waiting, reports, uses))[Len(waiting)]
BY DEF ModelsToPause, Choosing, Extended, MoreFor

LEMMA ChoicesExist ==
  ASSUME NEW waiting, NEW reports, NEW uses
  PROVE  \A n \in Nat : \E f : Choosing(f, n, waiting, reports, uses)
<1> DEFINE S == {n \in Nat : \E f : Choosing(f, n, waiting, reports, uses)}
<1>1. 0 \in S
  <2> DEFINE f == [k \in 0..0 |-> {{}}]
  <2>1. Choosing(f, 0, waiting, reports, uses)
    BY DEF Choosing
  <2> QED
    BY <2>1
<1>2. ASSUME NEW n \in Nat, n \in S PROVE n + 1 \in S
  <2>1. PICK f : Choosing(f, n, waiting, reports, uses)
    BY <1>2
  <2> DEFINE last == Extended(f[n], waiting[n + 1], reports, uses)
             g == [k \in 0..n + 1 |-> IF k <= n THEN f[k] ELSE last]
  <2>2. \A k \in 0..n : g[k] = f[k]
    OBVIOUS
  <2>3. g[n + 1] = last
    OBVIOUS
  <2>4. f[0] = {{}}
    BY <2>1 DEF Choosing
  <2>5. ASSUME NEW k \in 1..n
        PROVE  f[k] = Extended(f[k - 1], waiting[k], reports, uses)
    <3>1. k \in 0..n /\ k # 0
      OBVIOUS
    <3> QED
      BY <3>1, <2>1 DEF Choosing
  <2>6. DOMAIN g = 0..n + 1 /\ g = [k \in 0..n + 1 |-> g[k]]
    OBVIOUS
  <2> HIDE DEF g
  <2>7. ASSUME NEW k \in 0..n + 1
        PROVE  g[k] = IF k = 0 THEN {{}} ELSE Extended(g[k - 1], waiting[k], reports, uses)
    <3>1. CASE k = 0
      BY <3>1, <2>2, <2>4
    <3>2. CASE k \in 1..n
      <4>1. k - 1 \in 0..n /\ k \in 0..n /\ k # 0
        BY <3>2
      <4>2. g[k] = f[k] /\ g[k - 1] = f[k - 1]
        BY <4>1, <2>2
      <4> QED
        BY <4>1, <4>2, <3>2, <2>5
    <3>3. CASE k = n + 1
      <4>1. k - 1 = n /\ k # 0 /\ n \in 0..n
        BY <3>3
      <4> QED
        BY <4>1, <3>3, <2>2, <2>3
    <3> QED
      BY <3>1, <3>2, <3>3
  <2>8. Choosing(g, n + 1, waiting, reports, uses)
    BY <2>6, <2>7 DEF Choosing
  <2>9. n + 1 \in Nat
    OBVIOUS
  <2> QED
    BY <2>8, <2>9
<1>3. Nat \subseteq S
  <2> HIDE DEF S
  <2> QED
    BY <1>1, <1>2, EveryNumber
<1> QED
  BY <1>3

ChoiceRun(f, waiting, reports, uses) ==
  /\ f[0] = {{}}
  /\ \A i \in 1..Len(waiting) : f[i] = Extended(f[i - 1], waiting[i], reports, uses)
  /\ ModelsToPause(waiting, reports, uses) = f[Len(waiting)]

LEMMA ChoiceSteps ==
  ASSUME NEW waiting \in Seq(Models), NEW reports, NEW uses
  PROVE  \E f : ChoiceRun(f, waiting, reports, uses)
<1>0. Len(waiting) \in Nat
  OBVIOUS
<1> DEFINE f == CHOOSE f : Choosing(f, Len(waiting), waiting, reports, uses)
<1>1. Choosing(f, Len(waiting), waiting, reports, uses)
  BY <1>0, ChoicesExist
<1>2. ModelsToPause(waiting, reports, uses) = f[Len(waiting)]
  BY ModelsToPauseAreChosen
<1> HIDE DEF f
<1>3. f[0] = {{}}
  BY <1>1 DEF Choosing
<1>4. ASSUME NEW i \in 1..Len(waiting)
      PROVE  f[i] = Extended(f[i - 1], waiting[i], reports, uses)
  <2>1. i \in 0..Len(waiting) /\ i # 0
    OBVIOUS
  <2> QED
    BY <2>1, <1>1 DEF Choosing
<1> QED
  BY <1>2, <1>3, <1>4 DEF ChoiceRun

\* Nothing is reached from a model that the scheduler does not know.
LEMMA UnknownReachesNothing ==
  ASSUME NEW reports, NEW d \in Models \ Known(reports)
  PROVE  Reachable(d, RequiredDirectly(reports)) = {}
<1>1. RequiredDirectly(reports)[d] = {}
  BY DEF RequiredDirectly
<1>2. Closed({}, RequiredDirectly(reports))
  BY DEF Closed
<1> QED
  BY <1>1, <1>2, RequirementsTyped, ReachableIsLeast

\* What is paused for one replica: running models reported idle, each with the running
\* models that reach it, and enough for the replica, which had no room; or nothing.
LEMMA MoreIsWhole ==
  ASSUME NEW w \in Models, NEW S, NEW reports, NEW uses,
         NEW c \in MoreFor(w, S, reports, uses)
  PROVE  /\ c \subseteq (Placed \cap Known(reports)) \ S
         /\ \A m \in c : reports[m] = "idle"
         /\ \A d \in (Placed \cap Known(reports)) \ S : \A m \in c :
              m \in Reachable(d, RequiredDirectly(reports)) => d \in c
         /\ c # {} => ~HasRoom(w, {}) /\ HasRoom(w, c)
<1> DEFINE running == (Placed \cap Known(reports)) \ S
           groups == PauseGroups(running, Unpausable(w, reports), reports)
<1>1. CASE c = {}
  BY <1>1
<1>2. CASE c # {}
  <2>1. c \in FewestToPauseFor(w, groups, uses)
    BY DEF MoreFor
  <2> HIDE DEF groups
  <2>2. ~HasRoom(w, {}) /\ \E n \in Nodes : c \in FreeingOn(w, n, groups, uses)
    BY <2>1, <1>2 DEF FewestToPauseFor
  <2>3. PICK n \in Nodes : c \in FreeingOn(w, n, groups, uses)
    BY <2>2
  <2>4. running \in SUBSET Models
    BY DEF Placed
  <2>5. DOMAIN groups \subseteq running
    BY DEF groups, PauseGroups
  <2>6. IsFiniteSet(DOMAIN groups)
    BY <2>4, <2>5, ModelsAreFinite, FS_Subset
  <2>7. PICK O \in SUBSET DOMAIN groups : c = UNION {groups[o] : o \in O}
    BY <2>3, <2>6, FreedInGroups
  <2>8. HasRoom(w, c)
    BY <2>3, <2>6, FreedInGroups DEF HasRoom
  <2> HIDE DEF running
  <2>9. ASSUME NEW m \in c
        PROVE  /\ m \in running /\ reports[m] = "idle"
               /\ \A d \in running : m \in Reachable(d, RequiredDirectly(reports)) => d \in c
    <3>1. PICK o \in O : m \in groups[o]
      BY <2>7
    <3>2. o \in DOMAIN groups /\ groups[o] \subseteq c
      BY <2>7
    <3>3. /\ m \in running /\ reports[m] = "idle"
          /\ \A d \in running : m \in Reachable(d, RequiredDirectly(reports)) => d \in groups[o]
      BY <3>1, <3>2, <2>4, GroupsAreWhole DEF groups
    <3> QED
      BY <3>2, <3>3
  <2> QED
    BY <2>2, <2>8, <2>9 DEF running
<1> QED
  BY <1>1, <1>2

\* What has been chosen for the first n replicas.
Chosen(S, n, waiting, reports, uses) ==
  /\ S \subseteq Placed
  /\ \A m \in S : reports[m] = "idle"
  /\ \A m \in S : \A d \in Placed \ S : m \notin Reachable(d, RequiredDirectly(reports))
  /\ S # {} => \E i \in 1..n : ~HasRoom(waiting[i], {}) /\ HasRoom(waiting[i], S)
  /\ n > 0 => \E c \in MoreFor(waiting[1], {}, reports, uses) : c \subseteq S

LEMMA ChosenStep ==
  ASSUME NEW waiting \in Seq(Models), NEW reports, NEW uses,
         NEW n \in Nat, n + 1 <= Len(waiting), NEW S, Chosen(S, n, waiting, reports, uses),
         n = 0 => S = {},
         NEW c \in MoreFor(waiting[n + 1], S, reports, uses)
  PROVE  Chosen(S \cup c, n + 1, waiting, reports, uses)
<1> DEFINE w == waiting[n + 1]
           running == (Placed \cap Known(reports)) \ S
<1>0. w \in Models /\ \A i \in 1..n + 1 : waiting[i] \in Models
  OBVIOUS
<1>1. /\ c \subseteq running
      /\ \A m \in c : reports[m] = "idle"
      /\ \A d \in running : \A m \in c :
           m \in Reachable(d, RequiredDirectly(reports)) => d \in c
      /\ c # {} => ~HasRoom(w, {}) /\ HasRoom(w, c)
  BY <1>0, MoreIsWhole
<1>2. S \cup c \subseteq Placed /\ \A m \in S \cup c : reports[m] = "idle"
  BY <1>1 DEF Chosen
<1>3. ASSUME NEW m \in S \cup c, NEW d \in Placed \ (S \cup c)
      PROVE  m \notin Reachable(d, RequiredDirectly(reports))
  <2>1. CASE m \in S
    BY <2>1 DEF Chosen
  <2>2. CASE m \in c
    <3>1. CASE d \in Known(reports)
      BY <2>2, <3>1, <1>1
    <3>2. CASE d \notin Known(reports)
      BY <3>2, UnknownReachesNothing DEF Placed
    <3> QED
      BY <3>1, <3>2
  <2> QED
    BY <2>1, <2>2
<1>4. ASSUME S \cup c # {}
      PROVE  \E i \in 1..n + 1 : ~HasRoom(waiting[i], {}) /\ HasRoom(waiting[i], S \cup c)
  <2>1. CASE S # {}
    <3>1. PICK i \in 1..n : ~HasRoom(waiting[i], {}) /\ HasRoom(waiting[i], S)
      BY <2>1 DEF Chosen
    <3>2. i \in 1..n + 1 /\ waiting[i] \in Models
      BY <1>0
    <3>3. HasRoom(waiting[i], S \cup c)
      BY <3>1, <3>2, RoomGrows
    <3> QED
      BY <3>1, <3>2, <3>3
  <2>2. CASE c # {}
    <3>1. HasRoom(w, S \cup c)
      BY <2>2, <1>0, <1>1, RoomGrows
    <3> QED
      BY <2>2, <3>1, <1>1
  <2> QED
    BY <2>1, <2>2, <1>4
<1>5. \E first \in MoreFor(waiting[1], {}, reports, uses) : first \subseteq S \cup c
  <2>1. CASE n = 0
    <3>1. S = {} /\ n + 1 = 1
      BY <2>1
    <3>2. c \in MoreFor(waiting[1], {}, reports, uses)
      BY <3>1
    <3> QED
      BY <3>2
  <2>2. CASE n > 0
    BY <2>2 DEF Chosen
  <2> QED
    BY <2>1, <2>2
<1> QED
  BY <1>2, <1>3, <1>4, <1>5 DEF Chosen

LEMMA ModelsToPauseAreWhole ==
  ASSUME NEW waiting \in Seq(Models), NEW reports, NEW uses,
         NEW S \in ModelsToPause(waiting, reports, uses)
  PROVE  Chosen(S, Len(waiting), waiting, reports, uses)
<1> DEFINE N == Len(waiting)
<1>0. N \in Nat
  OBVIOUS
<1>1. PICK f : ChoiceRun(f, waiting, reports, uses)
  BY ChoiceSteps
<1> DEFINE P == {n \in Nat : n <= N => \A T \in f[n] : Chosen(T, n, waiting, reports, uses)}
<1>2. 0 \in P
  <2>1. Chosen({}, 0, waiting, reports, uses)
    BY DEF Chosen
  <2> QED
    BY <2>1, <1>1 DEF ChoiceRun
<1>3. ASSUME NEW n \in Nat, n \in P PROVE n + 1 \in P
  <2> SUFFICES ASSUME n + 1 <= N, NEW T \in f[n + 1]
               PROVE  Chosen(T, n + 1, waiting, reports, uses)
    OBVIOUS
  <2>1. n + 1 \in 1..N /\ (n + 1) - 1 = n /\ n <= N
    BY <1>0
  <2>2. f[n + 1] = Extended(f[n], waiting[n + 1], reports, uses)
    BY <2>1, <1>1 DEF ChoiceRun
  <2>3. PICK U \in f[n] : \E c \in MoreFor(waiting[n + 1], U, reports, uses) : T = U \cup c
    BY <2>2 DEF Extended
  <2>4. PICK c \in MoreFor(waiting[n + 1], U, reports, uses) : T = U \cup c
    BY <2>3
  <2>5. Chosen(U, n, waiting, reports, uses)
    BY <2>1, <2>3, <1>3
  <2>6. n = 0 => U = {}
    BY <1>1 DEF ChoiceRun
  <2> HIDE DEF P
  <2>7. n + 1 <= Len(waiting)
    BY <2>1
  <2>8. Chosen(U \cup c, n + 1, waiting, reports, uses)
    BY <2>4, <2>5, <2>6, <2>7, ChosenStep
  <2> QED
    BY <2>4, <2>8
<1>4. Nat \subseteq P
  <2> HIDE DEF P
  <2> QED
    BY <1>2, <1>3, EveryNumber
<1> QED
  BY <1>0, <1>1, <1>4 DEF ChoiceRun

-----------------------------------------------------------------------------
(* What can be freed for the replica that has waited longest *)

LEMMA LastUseTyped ==
  ASSUME NEW uses \in Seq(Models), NEW m
  PROVE  LastUse(m, uses) \in 0..Len(uses)
<1>1. CASE \E i \in DOMAIN uses : uses[i] = m
  <2>1. LastUse(m, uses) \in DOMAIN uses
    BY <1>1 DEF LastUse
  <2> QED
    BY <2>1
<1>2. CASE ~\E i \in DOMAIN uses : uses[i] = m
  BY <1>2 DEF LastUse
<1> QED
  BY <1>1, <1>2

LEMMA LastUsedOf ==
  ASSUME NEW uses \in Seq(Models), NEW U, U # {}
  PROVE  \E x \in U : \A y \in U : LastUse(y, uses) <= LastUse(x, uses)
<1> DEFINE S == {n \in Nat : \E y \in U : n <= LastUse(y, uses)}
<1>0. \A y \in U : LastUse(y, uses) \in 0..Len(uses)
  BY LastUseTyped
<1>00. Len(uses) \in Nat
  OBVIOUS
<1> SUFFICES ASSUME \A x \in U : \E y \in U : ~(LastUse(y, uses) <= LastUse(x, uses))
             PROVE  FALSE
  OBVIOUS
<1>1. 0 \in S
  BY <1>0, <1>00
<1>2. ASSUME NEW n \in Nat, n \in S PROVE n + 1 \in S
  <2>1. PICK x \in U : n <= LastUse(x, uses)
    BY <1>2
  <2>2. PICK y \in U : ~(LastUse(y, uses) <= LastUse(x, uses))
    OBVIOUS
  <2>3. n + 1 <= LastUse(y, uses)
    BY <2>1, <2>2, <1>0, <1>00
  <2> QED
    BY <2>3
<1>3. Nat \subseteq S
  <2> HIDE DEF S
  <2> QED
    BY <1>1, <1>2, EveryNumber
<1>4. Len(uses) + 1 \in S
  BY <1>3, <1>00
<1> QED
  BY <1>4, <1>0, <1>00

OrderOf(s, T, uses) ==
  s \in LeastRecentlyUsedFirst(T, uses) /\ {s[k] : k \in 1..Cardinality(T)} = T

\* Any models can be put in the order of their last use.
LEMMA OrdersExist ==
  ASSUME NEW uses \in Seq(Models), NEW T \in SUBSET Models
  PROVE  \E s : OrderOf(s, T, uses)
<1> DEFINE Ordered(U) == \E s : OrderOf(s, U, uses)
           S == {n \in Nat : \A U \in SUBSET Models : Cardinality(U) = n => Ordered(U)}
<1>1. 0 \in S
  <2> SUFFICES ASSUME NEW U \in SUBSET Models, Cardinality(U) = 0 PROVE Ordered(U)
    OBVIOUS
  <2>1. U = {}
    BY ModelsAreFinite, FS_EmptySet
  <2> DEFINE s == [k \in 1..0 |-> 0]
  <2>2. s \in [1..Cardinality(U) -> U]
    OBVIOUS
  <2>3. s \in LeastRecentlyUsedFirst(U, uses)
    BY <2>2 DEF LeastRecentlyUsedFirst
  <2>4. {s[k] : k \in 1..Cardinality(U)} = U
    BY <2>1
  <2> QED
    BY <2>3, <2>4 DEF OrderOf
<1>2. ASSUME NEW n \in Nat, n \in S PROVE n + 1 \in S
  <2> SUFFICES ASSUME NEW U \in SUBSET Models, Cardinality(U) = n + 1 PROVE Ordered(U)
    OBVIOUS
  <2>1. U # {}
    <3> SUFFICES ASSUME U = {} PROVE FALSE
      OBVIOUS
    <3>1. Cardinality(U) = 0
      BY FS_EmptySet
    <3> QED
      BY <3>1
  <2>2. PICK x \in U : \A y \in U : LastUse(y, uses) <= LastUse(x, uses)
    BY <2>1, LastUsedOf
  <2>3. U \ {x} \in SUBSET Models /\ Cardinality(U \ {x}) = n
    BY OneLess
  <2>4. Ordered(U \ {x})
    BY <2>3, <1>2
  <2>5. PICK o : OrderOf(o, U \ {x}, uses)
    BY <2>4
  <2>6. /\ o \in [1..n -> U \ {x}]
        /\ {o[k] : k \in 1..n} = U \ {x}
        /\ \A i, j \in 1..n : i < j => o[i] # o[j] /\ LastUse(o[i], uses) <= LastUse(o[j], uses)
    BY <2>3, <2>5 DEF OrderOf, LeastRecentlyUsedFirst
  <2> DEFINE s == [k \in 1..n + 1 |-> IF k = n + 1 THEN x ELSE o[k]]
  <2>7. s[n + 1] = x /\ \A k \in 1..n : s[k] = o[k] /\ s[k] \in U \ {x}
    BY <2>6
  <2>8. s \in [1..n + 1 -> U]
    BY <2>6
  <2> HIDE DEF s
  <2>9. ASSUME NEW i \in 1..n + 1, NEW j \in 1..n + 1, i < j
        PROVE  s[i] # s[j] /\ LastUse(s[i], uses) <= LastUse(s[j], uses)
    <3>1. i \in 1..n
      BY <2>9
    <3>2. CASE j = n + 1
      BY <3>1, <3>2, <2>7, <2>2
    <3>3. CASE j # n + 1
      <4>1. j \in 1..n
        BY <3>3
      <4> QED
        BY <3>1, <4>1, <2>6, <2>7, <2>9
    <3> QED
      BY <3>2, <3>3
  <2>10. s \in LeastRecentlyUsedFirst(U, uses)
    BY <2>8, <2>9 DEF LeastRecentlyUsedFirst
  <2>11. {s[k] : k \in 1..n + 1} = U
    <3>1. ASSUME NEW y \in U PROVE \E k \in 1..n + 1 : y = s[k]
      <4>1. CASE y = x
        BY <4>1, <2>7
      <4>2. CASE y # x
        <5>1. PICK k \in 1..n : y = o[k]
          BY <4>2, <2>6
        <5>2. k \in 1..n + 1 /\ y = s[k]
          BY <5>1, <2>7
        <5> QED
          BY <5>2
      <4> QED
        BY <4>1, <4>2
    <3> QED
      BY <3>1, <2>8
  <2> QED
    BY <2>10, <2>11 DEF OrderOf
<1>3. Nat \subseteq S
  <2> HIDE DEF S
  <2> QED
    BY <1>1, <1>2, EveryNumber
<1>4. Cardinality(T) \in Nat
  BY ModelsAreFinite
<1> QED
  BY <1>3, <1>4

AllOf(groups, S) == UNION {groups[o] : o \in S}

\* When all that may stop on a node leaves room there, some of it is found.
LEMMA FreeingExists ==
  ASSUME NEW uses \in Seq(Models), NEW groups, DOMAIN groups \subseteq Models,
         NEW m, NEW n, NEW idle, idle = {o \in DOMAIN groups : node[o] = n}, idle # {},
         HasRoomFor(m, FreeWithout(AllOf(groups, idle), n))
  PROVE  FreeingOn(m, n, groups, uses) # {}
<1> DEFINE gone(s, i) == UNION {groups[s[k]] : k \in 1..i}
           enough(s, i) == HasRoomFor(m, FreeWithout(gone(s, i), n))
           N == Cardinality(idle)
<1>0. idle \in SUBSET Models
  OBVIOUS
<1>1. PICK s : OrderOf(s, idle, uses)
  BY <1>0, OrdersExist
<1>2. N \in Nat /\ N # 0
  <2>1. IsFiniteSet(idle)
    BY <1>0, ModelsAreFinite
  <2> QED
    BY <2>1, FS_EmptySet, FS_CardinalityType
<1>3. s \in [1..N -> idle]
  BY <1>1 DEF OrderOf, LeastRecentlyUsedFirst
<1>4. Len(s) = N
  BY <1>2, <1>3
<1>5. gone(s, N) = AllOf(groups, idle)
  <2>1. gone(s, N) = UNION {groups[o] : o \in {s[k] : k \in 1..N}}
    OBVIOUS
  <2>2. {s[k] : k \in 1..N} = idle
    BY <1>1 DEF OrderOf
  <2> HIDE DEF gone
  <2> QED
    BY ONLY <2>1, <2>2 DEF AllOf
<1> DEFINE S == {k \in 1..N : enough(s, k)}
<1>6. N \in S
  <2>1. enough(s, N)
    BY <1>5
  <2>2. N \in 1..N
    BY <1>2
  <2> HIDE DEF enough, N
  <2> QED
    BY <2>1, <2>2
<1>7. PICK i \in S : \A k \in S : i <= k
  <2>1. S \subseteq Nat
    <3> HIDE DEF enough
    <3> QED
      BY <1>2
  <2>2. S # {}
    <3> HIDE DEF S
    <3> QED
      BY <1>6
  <2> HIDE DEF S
  <2> QED
    BY <2>1, <2>2, LeastNumber
<1>8. i \in 1..Len(s) /\ enough(s, i)
  BY <1>4
<1>9. ASSUME NEW k \in 1..i - 1 PROVE ~enough(s, k)
  <2>1. k \in 1..N /\ ~(i <= k)
    BY <1>2
  <2> QED
    BY <2>1, <1>7
<1>10. gone(s, i) \in FreeingOn(m, n, groups, uses)
  <2> DEFINE orders == LeastRecentlyUsedFirst({o \in DOMAIN groups : node[o] = n}, uses)
             freed(t) == {gone(t, j) : j \in {k \in 1..Len(t) :
                            enough(t, k) /\ \A l \in 1..k - 1 : ~enough(t, l)}}
  <2>1. s \in orders
    BY <1>1 DEF OrderOf
  <2>2. gone(s, i) \in freed(s)
    <3> HIDE DEF enough, gone
    <3> QED
      BY <1>8, <1>9
  <2>3. FreeingOn(m, n, groups, uses) = UNION {freed(t) : t \in orders}
    BY DEF FreeingOn
  <2> HIDE DEF orders, freed, gone
  <2> QED
    BY <2>1, <2>2, <2>3
<1> QED
  BY <1>10

\* All that may stop on n for w.
StoppableOn(w, n, reports) ==
  LET groups == PauseGroups(Placed \cap Known(reports), Unpausable(w, reports), reports)
  IN  UNION {groups[o] : o \in {p \in DOMAIN groups : node[p] = n}}

\* What is paused for a replica makes room for it, when pausing all that may stop on a
\* node would.
LEMMA MoreMakesRoom ==
  ASSUME NEW w \in Models, NEW reports, NEW uses \in Seq(Models),
         NEW c \in MoreFor(w, {}, reports, uses), NEW n \in Nodes,
         HasRoomFor(w, FreeWithout(StoppableOn(w, n, reports), n))
  PROVE  HasRoom(w, c)
<1> DEFINE groups == PauseGroups(Placed \cap Known(reports), Unpausable(w, reports), reports)
<1>1. c \in FewestToPauseFor(w, groups, uses)
  <2>1. (Placed \cap Known(reports)) \ {} = Placed \cap Known(reports)
    OBVIOUS
  <2> QED
    BY <2>1 DEF MoreFor
<1>2. CASE HasRoom(w, {})
  BY <1>2, RoomGrows
<1>3. CASE ~HasRoom(w, {})
  <2> DEFINE idle == {p \in DOMAIN groups : node[p] = n}
  <2>1. DOMAIN groups \subseteq Models
    BY DEF PauseGroups, Placed
  <2>2. idle # {}
    <3> SUFFICES ASSUME idle = {} PROVE FALSE
      OBVIOUS
    <3>1. StoppableOn(w, n, reports) = UNION {groups[o] : o \in idle}
      BY DEF StoppableOn
    <3>2. StoppableOn(w, n, reports) = {}
      BY <3>1
    <3> QED
      BY <3>2, <1>3 DEF HasRoom
  <2>3. FreeingOn(w, n, groups, uses) # {}
    <3> HIDE DEF idle
    <3>1. HasRoomFor(w, FreeWithout(AllOf(groups, idle), n))
      BY DEF idle, AllOf, StoppableOn
    <3>2. idle = {p \in DOMAIN groups : node[p] = n}
      BY DEF idle
    <3> QED
      BY <2>1, <2>2, <3>1, <3>2, FreeingExists
  <2>4. PICK k \in Nodes : c \in FreeingOn(w, k, groups, uses)
    BY <1>1, <1>3, <2>3 DEF FewestToPauseFor
  <2>5. IsFiniteSet(DOMAIN groups)
    BY <2>1, ModelsAreFinite
  <2> QED
    BY <2>4, <2>5, FreedInGroups DEF HasRoom
<1> QED
  BY <1>2, <1>3

-----------------------------------------------------------------------------
(* The sequences the scheduler keeps *)

Keeping(f, n, seq, gone) ==
  f = [i \in 0..n |-> IF i = 0 THEN <<>>
                      ELSE IF seq[i] \in gone THEN f[i - 1] ELSE Append(f[i - 1], seq[i])]

LEMMA WithoutIsChosen ==
  ASSUME NEW seq, NEW gone
  PROVE  Without(seq, gone) = (CHOOSE f : Keeping(f, Len(seq), seq, gone))[Len(seq)]
BY DEF Without, Keeping

LEMMA KeepingExists ==
  ASSUME NEW seq, NEW gone
  PROVE  \A n \in Nat : \E f : Keeping(f, n, seq, gone)
<1> DEFINE S == {n \in Nat : \E f : Keeping(f, n, seq, gone)}
<1>1. 0 \in S
  <2> DEFINE f == [k \in 0..0 |-> <<>>]
  <2>1. Keeping(f, 0, seq, gone)
    BY DEF Keeping
  <2> QED
    BY <2>1
<1>2. ASSUME NEW n \in Nat, n \in S PROVE n + 1 \in S
  <2>1. PICK f : Keeping(f, n, seq, gone)
    BY <1>2
  <2> DEFINE last == IF seq[n + 1] \in gone THEN f[n] ELSE Append(f[n], seq[n + 1])
             g == [k \in 0..n + 1 |-> IF k <= n THEN f[k] ELSE last]
  <2>2. \A k \in 0..n : g[k] = f[k]
    OBVIOUS
  <2>3. g[n + 1] = last
    OBVIOUS
  <2>4. f[0] = <<>>
    BY <2>1 DEF Keeping
  <2>5. ASSUME NEW k \in 1..n
        PROVE  f[k] = IF seq[k] \in gone THEN f[k - 1] ELSE Append(f[k - 1], seq[k])
    <3>1. k \in 0..n /\ k # 0
      OBVIOUS
    <3> QED
      BY <3>1, <2>1 DEF Keeping
  <2>6. DOMAIN g = 0..n + 1 /\ g = [k \in 0..n + 1 |-> g[k]]
    OBVIOUS
  <2> HIDE DEF g
  <2>7. ASSUME NEW k \in 0..n + 1
        PROVE  g[k] = IF k = 0 THEN <<>>
                      ELSE IF seq[k] \in gone THEN g[k - 1] ELSE Append(g[k - 1], seq[k])
    <3>1. CASE k = 0
      BY <3>1, <2>2, <2>4
    <3>2. CASE k \in 1..n
      <4>1. k - 1 \in 0..n /\ k \in 0..n /\ k # 0
        BY <3>2
      <4>2. g[k] = f[k] /\ g[k - 1] = f[k - 1]
        BY <4>1, <2>2
      <4> QED
        BY <4>1, <4>2, <3>2, <2>5
    <3>3. CASE k = n + 1
      <4>1. k - 1 = n /\ k # 0 /\ n \in 0..n
        BY <3>3
      <4> QED
        BY <4>1, <3>3, <2>2, <2>3
    <3> QED
      BY <3>1, <3>2, <3>3
  <2>8. Keeping(g, n + 1, seq, gone)
    BY <2>6, <2>7 DEF Keeping
  <2>9. n + 1 \in Nat
    OBVIOUS
  <2> QED
    BY <2>8, <2>9
<1>3. Nat \subseteq S
  <2> HIDE DEF S
  <2> QED
    BY <1>1, <1>2, EveryNumber
<1> QED
  BY <1>3

LEMMA WithoutTyped ==
  ASSUME NEW M, NEW seq \in Seq(M), NEW gone
  PROVE  Without(seq, gone) \in Seq(M \ gone)
<1> DEFINE N == Len(seq)
           f == CHOOSE f : Keeping(f, N, seq, gone)
<1>0. N \in Nat /\ \A i \in 1..N : seq[i] \in M
  OBVIOUS
<1>1. Keeping(f, N, seq, gone)
  BY <1>0, KeepingExists
<1>2. Without(seq, gone) = f[N]
  BY WithoutIsChosen
<1> HIDE DEF f, N
<1>3. f[0] = <<>>
  BY <1>0, <1>1 DEF Keeping
<1>4. ASSUME NEW k \in 1..N
      PROVE  f[k] = IF seq[k] \in gone THEN f[k - 1] ELSE Append(f[k - 1], seq[k])
  <2>1. k \in 0..N /\ k # 0
    BY <1>0
  <2> QED
    BY <2>1, <1>1 DEF Keeping
<1> DEFINE S == {k \in Nat : k <= N => f[k] \in Seq(M \ gone)}
<1>5. 0 \in S
  <2>1. <<>> \in Seq(M \ gone)
    OBVIOUS
  <2> QED
    BY <2>1, <1>3
<1>6. ASSUME NEW k \in Nat, k \in S PROVE k + 1 \in S
  <2>1. SUFFICES ASSUME k + 1 <= N PROVE f[k + 1] \in Seq(M \ gone)
    OBVIOUS
  <2>2. k + 1 \in 1..N /\ (k + 1) - 1 = k
    BY <2>1, <1>0
  <2>3. f[k + 1] = IF seq[k + 1] \in gone THEN f[k] ELSE Append(f[k], seq[k + 1])
    BY <2>2, <1>4
  <2>4. f[k] \in Seq(M \ gone) /\ seq[k + 1] \in M
    BY <1>6, <2>1, <2>2, <1>0
  <2> QED
    BY <2>3, <2>4
<1>7. Nat \subseteq S
  <2> HIDE DEF S
  <2> QED
    BY <1>5, <1>6, EveryNumber
<1> QED
  BY <1>7, <1>0, <1>2

-----------------------------------------------------------------------------
(* Type correctness *)

LEMMA BoundsTyped ==
  MaxArrivals \in Nat /\ MaxTrouble \in Nat /\ <<>> \in Seq(Models)
<1>1. MaxArrivals \in Nat /\ MaxTrouble \in Nat
  BY SchedulerAssumption
<1>2. <<>> \in Seq(Models)
  OBVIOUS
<1> QED
  BY <1>1, <1>2

LEMMA InitTyped == Init => TypeOK
<1> SUFFICES ASSUME Init PROVE TypeOK
  OBVIOUS
<1>1. policy \in [Models -> Policy]
  BY DEF Init, Policy
<1>2. arrivals \in 0..MaxArrivals /\ troubles \in 0..MaxTrouble
  BY BoundsTyped DEF Init
<1>3. used \in Seq(Models) /\ firstSeen \in Seq(Models)
  BY BoundsTyped DEF Init
<1>4. /\ requests \in [Models -> BOOLEAN] /\ target \in [Models -> BOOLEAN]
      /\ node \in [Models -> Nodes \cup {"none", "waiting"}]
      /\ reported \in [Models -> {"unknown", "idle", "busy"}]
      /\ toPause \subseteq Models /\ decided \in BOOLEAN
  BY DEF Init
<1> QED
  BY <1>1, <1>2, <1>3, <1>4 DEF TypeOK

LEMMA PolicyCalledTyped ==
  ASSUME TypeOK, NEW m \in Models, PolicyCalled(m)
  PROVE  TypeOK'
<1> DEFINE pause == IF AwaitingPauseAnswer(m) THEN policy[m].pause ELSE CollectPauseAnswer(m)
           answer == IF AwaitingPauseAnswer(m) THEN policy[m].answer
                     ELSE IF requests[m] THEN "busy" ELSE "idle"
<1>1. /\ target' = [target EXCEPT ![m] = ReplicaCount(m, pause)]
      /\ policy' = [policy EXCEPT ![m] = [answer |-> answer, pause |-> pause]]
  BY DEF PolicyCalled
<1>2. policy[m] \in Policy
  BY DEF TypeOK
<1>3. pause \in BOOLEAN /\ answer \in {"busy", "idle", "pause", "stay"}
  <2>1. policy[m].pause \in BOOLEAN /\ policy[m].answer \in {"busy", "idle", "pause", "stay"}
    BY <1>2 DEF Policy
  <2>2. CollectPauseAnswer(m) \in BOOLEAN
    BY DEF CollectPauseAnswer
  <2> QED
    BY <2>1, <2>2
<1> HIDE DEF pause, answer
<1>4. ReplicaCount(m, pause) \in BOOLEAN
  BY DEF ReplicaCount
<1>5. target' \in [Models -> BOOLEAN]
  BY <1>1, <1>4 DEF TypeOK
<1>6. [answer |-> answer, pause |-> pause] \in Policy
  BY <1>3 DEF Policy
<1>7. policy' \in [Models -> Policy]
  BY <1>1, <1>6 DEF TypeOK
<1> QED
  BY <1>5, <1>7 DEF PolicyCalled, TypeOK, schedulerVars

LEMMA ReplyTyped ==
  ASSUME TypeOK, NEW m \in Models, NEW S, ReplyTo(m, S)
  PROVE  policy' \in [Models -> Policy]
<1>1. policy[m] \in Policy
  BY DEF TypeOK
<1>2. [policy[m] EXCEPT !.answer = IF m \in S THEN "pause" ELSE "stay"] \in Policy
  BY <1>1 DEF Policy
<1> QED
  BY <1>2 DEF ReplyTo, TypeOK

\* What a model reports is what it has been seen to be.
LEMMA ReportTyped ==
  ASSUME TypeOK, NEW m \in Models, AwaitingPauseAnswer(m)
  PROVE  policy[m].answer \in {"busy", "idle"}
BY DEF AwaitingPauseAnswer, UnderWay

LEMMA SequencesTyped ==
  ASSUME TypeOK
  PROVE  /\ \A m \in Models : Append(Without(used, {m}), m) \in Seq(Models)
         /\ \A S : Without(firstSeen, S) \in Seq(Models)
<1>1. ASSUME NEW m \in Models PROVE Append(Without(used, {m}), m) \in Seq(Models)
  <2>1. Without(used, {m}) \in Seq(Models \ {m})
    BY WithoutTyped DEF TypeOK
  <2>2. Without(used, {m}) \in Seq(Models)
    BY <2>1, SeqMonotonic
  <2> QED
    BY <2>2
<1>2. ASSUME NEW S PROVE Without(firstSeen, S) \in Seq(Models)
  <2>1. Without(firstSeen, S) \in Seq(Models \ S)
    BY WithoutTyped DEF TypeOK
  <2> QED
    BY <2>1, SeqMonotonic
<1> QED
  BY <1>1, <1>2

LEMMA AnswerTyped ==
  ASSUME TypeOK, NEW m \in Models, Answer(m)
  PROVE  TypeOK'
<1>1. policy' \in [Models -> Policy]
  BY ReplyTyped DEF Answer
<1>2. reported' \in [Models -> {"unknown", "idle", "busy"}]
  BY ReportTyped DEF Answer, Record, TypeOK
<1>3. used' \in Seq(Models)
  BY SequencesTyped DEF Answer, Record, TypeOK
<1> QED
  BY <1>1, <1>2, <1>3 DEF Answer, TypeOK, clusterVars

\* A decision, told by what it records: the waiting replicas in the order it served them,
\* and what it has chosen for them.
Decided ==
  /\ firstSeen' \in Seq(Waiting)
  /\ used' \in Seq(Models)
  /\ reported' \in [Models -> {"unknown", "idle", "busy"}]
  /\ toPause' \in ModelsToPause(firstSeen', reported', used')
  /\ decided' = TRUE
  /\ UNCHANGED <<clusterVars, troubles>>

LEMMA DecideDecides ==
  ASSUME TypeOK, NEW m \in Models, Decide(m)
  PROVE  Decided /\ policy' \in [Models -> Policy]
<1>1. PICK forgotten \in {{}, Silent(m)} :
        LET reports == [o \in Models |-> IF o = m THEN policy[m].answer
                          ELSE IF o \in forgotten THEN "unknown" ELSE reported[o]]
            uses == Without(IF policy[m].answer = "busy" THEN Append(Without(used, {m}), m)
                            ELSE used, forgotten)
            known == Without(firstSeen, Models \ Waiting)
            new == {o \in Waiting : \A i \in DOMAIN known : known[i] # o}
        IN  \E rest \in {s \in [1..Cardinality(new) -> new] :
                           \A o \in new : \E i \in DOMAIN s : s[i] = o} :
            \E chosen \in ModelsToPause(known \o rest, reports, uses) :
              /\ firstSeen' = known \o rest
              /\ reported' = reports /\ used' = uses
              /\ toPause' = chosen /\ decided' = TRUE
              /\ ReplyTo(m, chosen)
  BY DEF Decide
<1> DEFINE reports == [o \in Models |-> IF o = m THEN policy[m].answer
                         ELSE IF o \in forgotten THEN "unknown" ELSE reported[o]]
           latest == IF policy[m].answer = "busy" THEN Append(Without(used, {m}), m) ELSE used
           uses == Without(latest, forgotten)
           known == Without(firstSeen, Models \ Waiting)
           new == {o \in Waiting : \A i \in DOMAIN known : known[i] # o}
<1>2. PICK rest \in [1..Cardinality(new) -> new] :
        \E chosen \in ModelsToPause(known \o rest, reports, uses) :
              /\ firstSeen' = known \o rest
              /\ reported' = reports /\ used' = uses
              /\ toPause' = chosen /\ decided' = TRUE
              /\ ReplyTo(m, chosen)
  BY <1>1
<1>3. /\ firstSeen' = known \o rest /\ reported' = reports /\ used' = uses
      /\ toPause' \in ModelsToPause(known \o rest, reports, uses)
      /\ decided' = TRUE /\ ReplyTo(m, toPause')
  BY <1>2
<1>4. known \in Seq(Waiting)
  <2>1. known \in Seq(Models \ (Models \ Waiting))
    BY WithoutTyped DEF TypeOK
  <2>2. Models \ (Models \ Waiting) = Waiting
    BY DEF Waiting
  <2> QED
    BY <2>1, <2>2
<1>5. rest \in Seq(Waiting)
  <2>1. new \in SUBSET Models
    BY DEF Waiting
  <2>2. rest \in [1..Cardinality(new) -> new]
    OBVIOUS
  <2>4. new \subseteq Waiting
    OBVIOUS
  <2> HIDE DEF new
  <2>3. rest \in Seq(new)
    <3>1. Cardinality(new) \in Nat
      BY <2>1, ModelsAreFinite
    <3> QED
      BY <2>2, <3>1
  <2> QED
    BY <2>3, <2>4, SeqMonotonic
<1>6. known \o rest \in Seq(Waiting)
  BY <1>4, <1>5, ConcatProperties
<1>7. uses \in Seq(Models)
  <2>1. latest \in Seq(Models)
    BY SequencesTyped DEF TypeOK
  <2> HIDE DEF latest
  <2>2. uses \in Seq(Models \ forgotten)
    BY <2>1, WithoutTyped
  <2> QED
    BY <2>2, SeqMonotonic
<1>8. reports \in [Models -> {"unknown", "idle", "busy"}]
  <2>1. AwaitingPauseAnswer(m)
    BY DEF Decide
  <2>2. policy[m].answer \in {"busy", "idle"}
    BY <2>1, ReportTyped
  <2> QED
    BY <2>2 DEF TypeOK
<1>9. UNCHANGED <<clusterVars, troubles>>
  BY DEF Decide
<1> HIDE DEF reports, uses, known, new
<1>10. policy' \in [Models -> Policy]
  BY <1>3, ReplyTyped
<1> QED
  BY <1>3, <1>6, <1>7, <1>8, <1>9, <1>10 DEF Decided

\* What a decision pauses, for any requirements, nodes and resources.
LEMMA DecisionsAreWhole ==
  ASSUME Decided
  PROVE  /\ firstSeen' \in Seq(Models)
         /\ Chosen(toPause', Len(firstSeen'), firstSeen', reported', used')
<1>1. firstSeen' \in Seq(Models)
  <2>1. Waiting \subseteq Models /\ firstSeen' \in Seq(Waiting)
    BY DEF Waiting, Decided
  <2> QED
    BY <2>1, SeqMonotonic
<1>2. toPause' \in ModelsToPause(firstSeen', reported', used')
  BY DEF Decided
<1> QED
  BY <1>1, <1>2, ModelsToPauseAreWhole

LEMMA DecideTyped ==
  ASSUME TypeOK, NEW m \in Models, Decide(m)
  PROVE  TypeOK'
<1>1. Decided /\ policy' \in [Models -> Policy]
  BY DecideDecides
<1>2. firstSeen' \in Seq(Models) /\ toPause' \subseteq Placed
  BY <1>1, DecisionsAreWhole DEF Chosen
<1>3. toPause' \subseteq Models
  BY <1>2 DEF Placed
<1> QED
  BY <1>1, <1>2, <1>3 DEF Decided, TypeOK, clusterVars

LEMMA ClusterTyped ==
  ASSUME TypeOK, NEW m \in Models,
         \/ ColdStart(m) \/ StartReplica(m) \/ Place(m) \/ StopReplica(m)
         \/ RequestsArrive(m) \/ RequestsEnd(m)
  PROVE  TypeOK'
<1>1. CASE ColdStart(m)
  BY <1>1 DEF ColdStart, TypeOK, schedulerVars
<1>2. CASE StartReplica(m)
  BY <1>2 DEF StartReplica, TypeOK, schedulerVars
<1>3. CASE Place(m)
  BY <1>3, SequencesTyped DEF Place, Leaves, TypeOK
<1>4. CASE StopReplica(m)
  BY <1>4, SequencesTyped DEF StopReplica, Leaves, TypeOK
<1>5. CASE RequestsArrive(m)
  BY <1>5, SchedulerAssumption DEF RequestsArrive, TypeOK, schedulerVars
<1>6. CASE RequestsEnd(m)
  BY <1>6 DEF RequestsEnd, TypeOK, schedulerVars
<1> QED
  BY <1>1, <1>2, <1>3, <1>4, <1>5, <1>6

LEMMA RestartTyped ==
  ASSUME TypeOK, RestartScheduler
  PROVE  TypeOK'
<1>1. policy' \in [Models -> Policy]
  <2>1. \A m \in Models : /\ policy[m] \in Policy
                          /\ [policy[m] EXCEPT !.answer = "stay"] \in Policy
    BY DEF TypeOK, Policy
  <2> QED
    BY <2>1 DEF RestartScheduler
<1>2. troubles' \in 0..MaxTrouble
  BY BoundsTyped DEF RestartScheduler, TypeOK
<1>3. used' \in Seq(Models) /\ firstSeen' \in Seq(Models)
  BY BoundsTyped DEF RestartScheduler
<1>4. /\ reported' \in [Models -> {"unknown", "idle", "busy"}]
      /\ toPause' \subseteq Models /\ decided' \in BOOLEAN
  BY DEF RestartScheduler
<1>5. UNCHANGED clusterVars
  BY DEF RestartScheduler
<1> QED
  BY <1>1, <1>2, <1>3, <1>4, <1>5 DEF TypeOK, clusterVars

LEMMA StepTyped == TypeOK /\ [Next]_vars => TypeOK'
<1> SUFFICES ASSUME TypeOK, [Next]_vars PROVE TypeOK'
  OBVIOUS
<1>1. CASE UNCHANGED vars
  BY <1>1 DEF TypeOK, vars, clusterVars, schedulerVars
<1>2. ASSUME NEW m \in Models, PolicyCalled(m) PROVE TypeOK'
  BY <1>2, PolicyCalledTyped
<1>3. ASSUME NEW m \in Models, Answer(m) PROVE TypeOK'
  BY <1>3, AnswerTyped
<1>4. ASSUME NEW m \in Models, Decide(m) PROVE TypeOK'
  BY <1>4, DecideTyped
<1>5. ASSUME NEW m \in Models,
             \/ ColdStart(m) \/ StartReplica(m) \/ Place(m) \/ StopReplica(m)
             \/ RequestsArrive(m) \/ RequestsEnd(m)
      PROVE  TypeOK'
  BY <1>5, ClusterTyped
<1>6. CASE RestartScheduler
  BY <1>6, RestartTyped
<1> QED
  BY <1>1, <1>2, <1>3, <1>4, <1>5, <1>6 DEF Next

\* Every variable keeps its type (ModelAutoscalingPolicy and _ModelScheduler).
THEOREM TypeCorrect == Spec => []TypeOK
<1>1. Init => TypeOK
  BY InitTyped
<1>2. TypeOK /\ [Next]_vars => TypeOK'
  BY StepTyped
<1> QED
  BY <1>1, <1>2, PTL DEF Spec

-----------------------------------------------------------------------------
(* What a decision promises *)

\* Only a decision and a restart change what is to be paused.
LEMMA PauseChanges ==
  ASSUME TypeOK, [Next]_vars, toPause' # toPause
  PROVE  Decided \/ toPause' = {}
<1>1. ASSUME NEW m \in Models, Decide(m) PROVE Decided
  BY <1>1, DecideDecides
<1>2. CASE RestartScheduler
  BY <1>2 DEF RestartScheduler
<1>3. ASSUME NEW m \in Models,
             \/ PolicyCalled(m) \/ Answer(m) \/ ColdStart(m) \/ StartReplica(m) \/ Place(m)
             \/ StopReplica(m) \/ RequestsArrive(m) \/ RequestsEnd(m)
      PROVE  toPause' = toPause
  BY <1>3 DEF PolicyCalled, Answer, ColdStart, StartReplica, Place, StopReplica,
              RequestsArrive, RequestsEnd, schedulerVars
<1>4. CASE UNCHANGED vars
  BY <1>4 DEF vars, schedulerVars
<1> QED
  BY <1>1, <1>2, <1>3, <1>4 DEF Next

LEMMA DecidesDecides == TypeOK /\ Decides => Decided
BY DecideDecides DEF Decides

\* A decision pauses only running models reported idle, and with each of them all the
\* running models known to require it, through whatever others
\* (_select_models_to_pause, _pause_groups).
THEOREM PausesAreWhole == Spec => PausesWholeIdleGroups
<1>1. TypeOK /\ [Next]_vars =>
        [toPause' # toPause =>
           \A m \in toPause' :
             /\ reported'[m] = "idle" /\ node[m] \in Nodes
             /\ \A d \in Placed \ toPause' :
                  m \notin Reachable(d, RequiredDirectly(reported'))]_vars
  <2> SUFFICES ASSUME TypeOK, [Next]_vars, toPause' # toPause, NEW m \in toPause'
               PROVE  /\ reported'[m] = "idle" /\ node[m] \in Nodes
                      /\ \A d \in Placed \ toPause' :
                           m \notin Reachable(d, RequiredDirectly(reported'))
    OBVIOUS
  <2>1. Decided
    BY PauseChanges
  <2>2. Chosen(toPause', Len(firstSeen'), firstSeen', reported', used')
    BY <2>1, DecisionsAreWhole
  <2>3. m \in Placed
    BY <2>2 DEF Chosen
  <2> QED
    BY <2>2, <2>3 DEF Chosen, Placed
<1> QED
  BY <1>1, TypeCorrect, PTL DEF Spec, PausesWholeIdleGroups

\* When stopping all that may stop on some node makes room for the replica that has waited
\* longest, a decision makes room for it (_fewest_idle_models_to_pause_for).
THEOREM FirstIsHelped == Spec => LongestWaitingIsHelped
<1>1. TypeOK /\ [Next]_vars =>
        [firstSeen' # <<>> /\ Decides =>
           LET first == firstSeen'[1]
               groups == PauseGroups(Placed \cap Known(reported'),
                                     Unpausable(first, reported'), reported')
               all(n) == UNION {groups[o] : o \in {p \in DOMAIN groups : node[p] = n}}
           IN  (\E n \in Nodes : HasRoomFor(first, FreeWithout(all(n), n)))
                 => HasRoom(first, toPause')]_vars
  <2> SUFFICES ASSUME TypeOK, firstSeen' # <<>>, Decides
               PROVE  LET first == firstSeen'[1]
                          groups == PauseGroups(Placed \cap Known(reported'),
                                                Unpausable(first, reported'), reported')
                          all(n) == UNION {groups[o] : o \in {p \in DOMAIN groups : node[p] = n}}
                      IN  (\E n \in Nodes : HasRoomFor(first, FreeWithout(all(n), n)))
                            => HasRoom(first, toPause')
    OBVIOUS
  <2> DEFINE first == firstSeen'[1]
             groups == PauseGroups(Placed \cap Known(reported'),
                                   Unpausable(first, reported'), reported')
             all(n) == UNION {groups[o] : o \in {p \in DOMAIN groups : node[p] = n}}
  <2> SUFFICES ASSUME NEW n \in Nodes, HasRoomFor(first, FreeWithout(all(n), n))
               PROVE  HasRoom(first, toPause')
    OBVIOUS
  <2>1. Decided
    BY DecidesDecides
  <2>2. /\ firstSeen' \in Seq(Models)
        /\ Chosen(toPause', Len(firstSeen'), firstSeen', reported', used')
    BY <2>1, DecisionsAreWhole
  <2>3. Len(firstSeen') > 0 /\ first \in Models
    BY <2>2
  <2>4. PICK c \in MoreFor(first, {}, reported', used') : c \subseteq toPause'
    BY <2>2, <2>3 DEF Chosen
  <2>5. used' \in Seq(Models)
    BY <2>1 DEF Decided
  <2>6. HasRoomFor(first, FreeWithout(StoppableOn(first, n, reported'), n))
    BY DEF StoppableOn
  <2>7. HasRoom(first, c)
    <3> HIDE DEF first
    <3> QED
      BY <2>3, <2>4, <2>5, <2>6, MoreMakesRoom
  <2> QED
    BY <2>3, <2>4, <2>7, RoomGrows
<1> QED
  BY <1>1, TypeCorrect, PTL DEF Spec, LongestWaitingIsHelped

\* When a decision pauses anything, some replica that waits had no room and gets it
\* (_select_models_to_pause).
THEOREM NoneInVain == Spec => NothingIsPausedInVain
<1>1. TypeOK /\ [Next]_vars =>
        [toPause' # {} /\ Decides =>
           \E w \in Waiting : ~HasRoom(w, {}) /\ HasRoom(w, toPause')]_vars
  <2> SUFFICES ASSUME TypeOK, toPause' # {}, Decides
               PROVE  \E w \in Waiting : ~HasRoom(w, {}) /\ HasRoom(w, toPause')
    OBVIOUS
  <2>1. Decided
    BY DecidesDecides
  <2>2. Chosen(toPause', Len(firstSeen'), firstSeen', reported', used')
    BY <2>1, DecisionsAreWhole
  <2>3. PICK i \in 1..Len(firstSeen') :
          ~HasRoom(firstSeen'[i], {}) /\ HasRoom(firstSeen'[i], toPause')
    BY <2>2 DEF Chosen
  <2>4. firstSeen' \in Seq(Waiting)
    BY <2>1 DEF Decided
  <2>5. firstSeen'[i] \in Waiting
    BY <2>3, <2>4, ElementOfSeq
  <2> QED
    BY <2>3, <2>5
<1> QED
  BY <1>1, TypeCorrect, PTL DEF Spec, NothingIsPausedInVain
=============================================================================
