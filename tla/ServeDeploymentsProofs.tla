------------------------ MODULE ServeDeploymentsProofs ------------------------
(***************************************************************************)
(* Theorems about ServeDeployments, for every value of its constants.      *)
(***************************************************************************)
EXTENDS ServeDeployments, TLAPS

-----------------------------------------------------------------------------
(* Stacks of frames, the innermost first *)

\* The top of a stack is its first element.
LEMMA TopIsFirst ==
  ASSUME NEW S, NEW s \in Seq(S), s # <<>>
  PROVE  Head(s) = s[1] /\ s[1] \in S /\ Len(s) \in Nat /\ Len(s) >= 1
OBVIOUS

\* A new top leaves the rest.
LEMMA Replaced ==
  ASSUME NEW S, NEW s \in Seq(S), s # <<>>, NEW f \in S
  PROVE  LET t == <<f>> \o Tail(s)
         IN  /\ t \in Seq(S) /\ t # <<>> /\ Len(t) = Len(s) /\ t[1] = f
             /\ \A i \in 2..Len(t) : t[i] = s[i]
<1> DEFINE t == <<f>> \o Tail(s)
<1>1. Tail(s) \in Seq(S) /\ Len(Tail(s)) = Len(s) - 1 /\ \A i \in 1..Len(Tail(s)) : Tail(s)[i] = s[i + 1]
  OBVIOUS
<1>2. <<f>> \in Seq(S) /\ Len(<<f>>) = 1
  OBVIOUS
<1>3. t \in Seq(S) /\ Len(t) = Len(s) /\ t[1] = f
  BY <1>1, <1>2
<1>4. ASSUME NEW i \in 2..Len(t) PROVE t[i] = s[i]
  BY <1>1, <1>2, <1>3
<1> QED BY <1>3, <1>4

\* A frame pushed on a new top.
LEMMA Pushed ==
  ASSUME NEW S, NEW s \in Seq(S), s # <<>>, NEW f \in S, NEW g \in S
  PROVE  LET t == <<g, f>> \o Tail(s)
         IN  /\ t \in Seq(S) /\ t # <<>> /\ Len(t) = Len(s) + 1 /\ t[1] = g /\ t[2] = f
             /\ \A i \in 3..Len(t) : t[i] = s[i - 1]
<1> DEFINE t == <<g, f>> \o Tail(s)
<1>1. Tail(s) \in Seq(S) /\ Len(Tail(s)) = Len(s) - 1 /\ \A i \in 1..Len(Tail(s)) : Tail(s)[i] = s[i + 1]
  OBVIOUS
<1>2. <<g, f>> \in Seq(S) /\ Len(<<g, f>>) = 2
  OBVIOUS
<1>3. t \in Seq(S) /\ Len(t) = Len(s) + 1 /\ t[1] = g /\ t[2] = f
  BY <1>1, <1>2
<1>4. ASSUME NEW i \in 3..Len(t) PROVE t[i] = s[i - 1]
  BY <1>1, <1>2, <1>3
<1> QED BY <1>3, <1>4

\* A top that returns.
LEMMA Popped ==
  ASSUME NEW S, NEW s \in Seq(S), s # <<>>
  PROVE  LET t == Tail(s)
         IN  /\ t \in Seq(S) /\ Len(t) = Len(s) - 1
             /\ \A i \in 1..Len(t) : t[i] = s[i + 1]
OBVIOUS

-----------------------------------------------------------------------------
(* Types *)

Frame == [pc : DeployPcs \cup UndeployPcs, key : Keys, wait : BOOLEAN, todo : Seq(Keys),
          spec : Specs \cup {Nothing}, replaced : Versions \cup {Nothing},
          seen : Listing \cup Phases \cup {Nothing}]
TypedFrame == {f \in Frame : FrameOK(f)}

CallsTyped == call \in [Callers -> Seq(TypedFrame)]
TablesTyped ==
  /\ registry \in [Keys -> Versions]
  /\ tiers \in Tiers
  /\ apps \in [Keys -> Application \cup {Nothing}]
  /\ records \in [Keys -> Record \cup {Nothing}]
  /\ interrupted \subseteq Keys
  /\ overlapped \in BOOLEAN /\ lost \in BOOLEAN
ObserverTyped ==
  /\ observer \in [phases : [Keys -> Phases] \cup {Nothing},
                   rows : [Keys -> Record \cup {Nothing}] \cup {Nothing}]
  /\ observer.rows # Nothing => observer.phases # Nothing

\* The types that steps keep; TypeOK says less of the calls and of the poller.
TypeInv == CallsTyped /\ TablesTyped /\ ObserverTyped

\* A frame whose fields have their types.
LEMMA TypedIsOK ==
  ASSUME NEW f \in TypedFrame
  PROVE  f \in Frame /\ FrameOK(f)
BY DEF TypedFrame

\* The type invariant gives the types that TLC checks.
LEMMA TypeInvSuffices == TypeInv => TypeOK
<1> SUFFICES ASSUME TypeInv PROVE TypeOK
  OBVIOUS
<1>1. ASSUME NEW c \in Callers, NEW i \in DOMAIN call[c] PROVE FrameOK(call[c][i])
  <2>1. call[c] \in Seq(TypedFrame)
    BY DEF TypeInv, CallsTyped
  <2>2. call[c][i] \in TypedFrame
    BY <2>1
  <2> QED BY <2>2, TypedIsOK
<1> QED BY <1>1 DEF TypeInv, TablesTyped, ObserverTyped, TypeOK

\* The frame on top of a call that is under way.
LEMMA TopTyped ==
  ASSUME CallsTyped, NEW c \in Callers, call[c] # <<>>
  PROVE  /\ call[c] \in Seq(TypedFrame) /\ Top(c) = call[c][1]
         /\ Top(c) \in TypedFrame /\ Top(c) \in Frame /\ FrameOK(Top(c))
         /\ Len(call[c]) \in Nat /\ Len(call[c]) >= 1
<1>1. call[c] \in Seq(TypedFrame)
  BY DEF CallsTyped
<1>2. Head(call[c]) = call[c][1] /\ call[c][1] \in TypedFrame
      /\ Len(call[c]) \in Nat /\ Len(call[c]) >= 1
  BY <1>1, TopIsFirst
<1> QED BY <1>1, <1>2, TypedIsOK DEF Top

-----------------------------------------------------------------------------
(* How a step moves a stack *)

Deploying(f) == f.pc \in DeployPcs
Untyped == {"put", "put rest", "save", "patch"}   \* where seen has been read

\* The top goes on, past its requirements.
Turns(s, t) ==
  /\ s # <<>>
  /\ s[1].pc = "required" => s[1].todo = <<>>
  /\ \E f \in TypedFrame :
       /\ t = <<f>> \o Tail(s)
       /\ f.key = s[1].key /\ f.wait = s[1].wait /\ f.todo = s[1].todo
       /\ f.pc # "required"
       /\ Deploying(f) <=> Deploying(s[1])

\* The top deploys the next model it requires.
Descends(s, t) ==
  /\ s # <<>> /\ s[1].pc = "required" /\ s[1].todo # <<>>
  /\ \E f, g \in TypedFrame :
       /\ t = <<g, f>> \o Tail(s)
       /\ f.key = s[1].key /\ f.wait = s[1].wait /\ f.todo = Tail(s[1].todo) /\ f.pc = "required"
       /\ g.key = Head(s[1].todo) /\ g.wait /\ g.todo = Requires[g.key] /\ g.pc = "required"

\* The top undeploys the failed application in its way.
Clears(s, t) ==
  /\ s # <<>> /\ s[1].pc = "clear"
  /\ \E f, g \in TypedFrame :
       /\ t = <<g, f>> \o Tail(s)
       /\ f.key = s[1].key /\ f.wait = s[1].wait /\ f.todo = s[1].todo /\ f.pc = "clearing"
       /\ g.key = s[1].key /\ g.pc = "undeploy"

\* The top returns: a deploy that is waited for once its application runs.
Returns(s, t) ==
  /\ s # <<>> /\ t = Tail(s)
  /\ s[1].pc = "required" => s[1].todo = <<>>
  /\ Deploying(s[1]) /\ s[1].wait => s[1].pc \in {"wait on record", "patch"}

\* A call begins.
Begins(s, t) ==
  /\ s = <<>>
  /\ \E f \in TypedFrame :
       /\ t = <<f>>
       /\ Deploying(f) => f.pc = "required" /\ f.todo = Requires[f.key]

Moves(s, t) ==
  \/ Turns(s, t) \/ Descends(s, t) \/ Clears(s, t) \/ Returns(s, t) \/ Begins(s, t)
  \/ t = <<>>

Others(c) == \A d \in Callers : d # c => call'[d] = call[d]

\* A step of c replaces the stack of c.
LEMMA Stacked ==
  ASSUME CallsTyped, NEW c \in Callers, NEW s, call' = [call EXCEPT ![c] = s]
  PROVE  call'[c] = s /\ Others(c) /\ (s \in Seq(TypedFrame) => CallsTyped')
BY DEF CallsTyped, Others

\* A frame that goes on to another request is typed.
LEMMA FrameGoes ==
  ASSUME NEW f \in TypedFrame, NEW g \in Frame,
         g.key = f.key, g.wait = f.wait, g.todo = f.todo, g.spec = f.spec,
         g.pc \in DeployPcs <=> f.pc \in DeployPcs,
         g.pc \in {"put", "put rest"} => g.seen \in Listing,
         g.pc \in {"save", "patch"} => g.seen \in Phases \ {"not_deployed"}
  PROVE  g \in TypedFrame
<1>1. f \in Frame /\ FrameOK(f)
  BY TypedIsOK
<1>2. f.pc \in DeployPcs => f.spec \in Specs
  BY <1>1 DEF FrameOK
<1>3. /\ g.pc \in DeployPcs \cup UndeployPcs /\ g.key \in Keys /\ g.wait \in BOOLEAN
      /\ g.todo \in Seq(Keys) /\ g.replaced \in Versions \cup {Nothing}
  BY DEF Frame
<1>4. FrameOK(g)
  BY <1>2, <1>3 DEF FrameOK
<1> QED BY <1>4 DEF TypedFrame

\* A new top.
LEMMA TopReplaced ==
  ASSUME CallsTyped, NEW c \in Callers, call[c] # <<>>, NEW g \in TypedFrame, Continue(c, g)
  PROVE  /\ CallsTyped' /\ Others(c)
         /\ call'[c] = <<g>> \o Tail(call[c]) /\ call'[c] # <<>> /\ Top(c)' = g
<1>1. call[c] \in Seq(TypedFrame)
  BY DEF CallsTyped
<1> DEFINE t == <<g>> \o Tail(call[c])
<1>2. t \in Seq(TypedFrame) /\ t # <<>> /\ t[1] = g
  BY <1>1, Replaced
<1>3. call' = [call EXCEPT ![c] = t]
  BY DEF Continue
<1>4. call'[c] = t /\ Others(c) /\ CallsTyped'
  BY <1>2, <1>3, Stacked
<1>5. Head(t) = t[1]
  BY <1>2, TopIsFirst
<1>6. Top(c)' = Head(t)
  BY <1>4 DEF Top
<1> QED BY <1>2, <1>4, <1>5, <1>6

\* Holding what was read, and going on.
LEMMA HoldTurns ==
  ASSUME CallsTyped, NEW c \in Callers, call[c] # <<>>,
         NEW pc \in (DeployPcs \cup UndeployPcs) \ {"required"},
         pc \in DeployPcs <=> Top(c).pc \in DeployPcs,
         Top(c).pc = "required" => Top(c).todo = <<>>,
         NEW seen \in Listing \cup Phases \cup {Nothing},
         pc \in {"put", "put rest"} => seen \in Listing,
         pc \in {"save", "patch"} => seen \in Phases \ {"not_deployed"},
         Hold(c, pc, seen)
  PROVE  /\ CallsTyped' /\ Others(c) /\ Turns(call[c], call'[c]) /\ call'[c] # <<>>
         /\ Top(c)'.pc = pc /\ Top(c)'.key = Top(c).key /\ Top(c)'.spec = Top(c).spec
         /\ Top(c)'.seen = seen
<1> DEFINE g == [Top(c) EXCEPT !.pc = pc, !.seen = seen]
<1>1. call[c] \in Seq(TypedFrame) /\ Top(c) = call[c][1] /\ Top(c) \in TypedFrame /\ Top(c) \in Frame
  BY TopTyped
<1>2. /\ g \in Frame /\ g.pc = pc /\ g.key = Top(c).key /\ g.wait = Top(c).wait
      /\ g.todo = Top(c).todo /\ g.spec = Top(c).spec /\ g.seen = seen
  BY <1>1 DEF Frame
<1>3. Continue(c, g)
  BY DEF Hold
<1> HIDE DEF g
<1>4. g \in TypedFrame
  BY <1>1, <1>2, FrameGoes
<1>5. /\ CallsTyped' /\ Others(c)
      /\ call'[c] = <<g>> \o Tail(call[c]) /\ call'[c] # <<>> /\ Top(c)' = g
  BY <1>3, <1>4, TopReplaced
<1>6. Turns(call[c], call'[c])
  <2>1. /\ call'[c] = <<g>> \o Tail(call[c])
        /\ g.key = call[c][1].key /\ g.wait = call[c][1].wait /\ g.todo = call[c][1].todo
        /\ g.pc # "required" /\ (Deploying(g) <=> Deploying(call[c][1]))
    BY <1>1, <1>2, <1>5 DEF Deploying
  <2> QED BY <1>1, <1>4, <2>1 DEF Turns
<1> QED BY <1>2, <1>5, <1>6

LEMMA GoIsHold ==
  ASSUME NEW c \in Callers, NEW pc, Go(c, pc)
  PROVE  Hold(c, pc, Nothing)
BY DEF Go, Hold

\* Going on.
LEMMA GoTurns ==
  ASSUME CallsTyped, NEW c \in Callers, call[c] # <<>>,
         NEW pc \in (DeployPcs \cup UndeployPcs) \ ({"required"} \cup Untyped),
         pc \in DeployPcs <=> Top(c).pc \in DeployPcs,
         Top(c).pc = "required" => Top(c).todo = <<>>,
         Go(c, pc)
  PROVE  /\ CallsTyped' /\ Others(c) /\ Turns(call[c], call'[c]) /\ call'[c] # <<>>
         /\ Top(c)'.pc = pc /\ Top(c)'.key = Top(c).key /\ Top(c)'.spec = Top(c).spec
<1>1. Hold(c, pc, Nothing)
  BY GoIsHold
<1> QED BY <1>1, HoldTurns DEF Untyped

\* A deploy that begins, or is required.
LEMMA DeployFrameTyped ==
  ASSUME ServeAssumption, TablesTyped, NEW k \in Keys, NEW wait \in BOOLEAN
  PROVE  /\ DeployFrame(k, wait) \in TypedFrame
         /\ DeployFrame(k, wait).pc = "required" /\ DeployFrame(k, wait).key = k
         /\ DeployFrame(k, wait).wait = wait /\ DeployFrame(k, wait).todo = Requires[k]
<1> DEFINE f == DeployFrame(k, wait)
<1>1. [version |-> registry[k], tiers |-> tiers] \in Specs
  BY DEF TablesTyped, Specs
<1>2. Requires[k] \in Seq(Keys)
  BY DEF ServeAssumption
<1>3. /\ f.pc = "required" /\ f.key = k /\ f.wait = wait /\ f.todo = Requires[k]
      /\ f.spec = [version |-> registry[k], tiers |-> tiers]
      /\ f.replaced = Nothing /\ f.seen = Nothing
  BY DEF DeployFrame
<1>4. f \in Frame
  BY <1>1, <1>2 DEF DeployFrame, Frame, DeployPcs
<1> HIDE DEF f
<1>5. FrameOK(f)
  BY <1>1, <1>2, <1>3 DEF FrameOK, DeployPcs
<1> QED BY <1>3, <1>4, <1>5 DEF TypedFrame, f

\* An undeploy.
LEMMA UndeployFrameTyped ==
  ASSUME NEW k \in Keys
  PROVE  /\ UndeployFrame(k) \in TypedFrame
         /\ UndeployFrame(k).pc = "undeploy" /\ UndeployFrame(k).key = k
<1> DEFINE f == UndeployFrame(k)
<1>1. /\ f.pc = "undeploy" /\ f.key = k /\ f.wait = FALSE /\ f.todo = <<>>
      /\ f.spec = Nothing /\ f.replaced = Nothing /\ f.seen = Nothing
  BY DEF UndeployFrame
<1>2. f \in Frame
  BY DEF UndeployFrame, Frame, UndeployPcs
<1> HIDE DEF f
<1>3. f.todo \in Seq(Keys) /\ f.replaced \in Versions \cup {Nothing}
  BY <1>2 DEF Frame
<1>4. FrameOK(f)
  BY <1>1, <1>3 DEF FrameOK, DeployPcs, UndeployPcs
<1> QED BY <1>1, <1>2, <1>4 DEF TypedFrame, f

\* A call begins.
LEMMA StartMoves ==
  ASSUME ServeAssumption, TypeInv, NEW c \in Callers, Start(c)
  PROVE  /\ CallsTyped' /\ Others(c) /\ Begins(call[c], call'[c])
         /\ call'[c] # <<>> /\ Top(c)'.pc \in {"required", "undeploy"}
<1> SUFFICES ASSUME NEW f \in TypedFrame, StartCall(c, f),
                    \/ f.pc = "undeploy"
                    \/ f.pc = "required" /\ f.todo = Requires[f.key]
             PROVE  /\ CallsTyped' /\ Others(c) /\ Begins(call[c], call'[c])
                    /\ call'[c] # <<>> /\ Top(c)'.pc \in {"required", "undeploy"}
  <2>1. PICK k \in Keys : StartUndeploy(c, k) \/ \E wait \in BOOLEAN : StartDeploy(c, k, wait)
    BY DEF Start
  <2>2. CASE StartUndeploy(c, k)
    BY <2>2, UndeployFrameTyped DEF StartUndeploy
  <2>3. ASSUME NEW wait \in BOOLEAN, StartDeploy(c, k, wait)
        PROVE  \E f \in TypedFrame : StartCall(c, f) /\ f.pc = "required" /\ f.todo = Requires[f.key]
    <3>1. StartCall(c, DeployFrame(k, wait))
      BY <2>3 DEF StartDeploy
    <3>2. /\ DeployFrame(k, wait) \in TypedFrame
          /\ DeployFrame(k, wait).pc = "required" /\ DeployFrame(k, wait).key = k
          /\ DeployFrame(k, wait).todo = Requires[k]
      BY DeployFrameTyped DEF TypeInv
    <3> QED BY <3>1, <3>2
  <2> QED BY <2>1, <2>2, <2>3
<1>1. call[c] = <<>> /\ call' = [call EXCEPT ![c] = <<f>>]
  BY DEF StartCall
<1>2. <<f>> \in Seq(TypedFrame) /\ Head(<<f>>) = f /\ <<f>> # <<>>
  OBVIOUS
<1>3. CallsTyped' /\ Others(c) /\ call'[c] = <<f>>
  BY <1>1, <1>2, Stacked DEF TypeInv
<1>4. Top(c)' = f
  BY <1>2, <1>3 DEF Top
<1>5. Begins(call[c], call'[c])
  <2>1. Deploying(f) => f.pc = "required" /\ f.todo = Requires[f.key]
    BY DEF Deploying, DeployPcs
  <2> QED BY <1>1, <1>3, <2>1 DEF Begins
<1> QED BY <1>2, <1>3, <1>4, <1>5

\* The next required model is deployed.
LEMMA DeployRequiredMoves ==
  ASSUME ServeAssumption, TypeInv, NEW c \in Callers, DeployRequired(c)
  PROVE  /\ CallsTyped' /\ Others(c) /\ Descends(call[c], call'[c]) /\ call'[c] # <<>>
         /\ Top(c)'.pc = "required"
<1> DEFINE f == [Top(c) EXCEPT !.todo = Tail(@)]
           g == DeployFrame(Head(Top(c).todo), TRUE)
<1>1. call[c] # <<>> /\ Top(c).pc = "required" /\ Top(c).todo # <<>>
  BY DEF DeployRequired, At
<1>2. /\ call[c] \in Seq(TypedFrame) /\ Top(c) = call[c][1]
      /\ Top(c) \in TypedFrame /\ Top(c) \in Frame
  BY <1>1, TopTyped DEF TypeInv
<1>3. Top(c).todo \in Seq(Keys)
  BY <1>2 DEF Frame
<1>4. Tail(Top(c).todo) \in Seq(Keys) /\ Head(Top(c).todo) \in Keys
  BY <1>1, <1>3
<1>5. /\ f \in Frame /\ f.pc = "required" /\ f.key = Top(c).key /\ f.wait = Top(c).wait
      /\ f.todo = Tail(Top(c).todo) /\ f.spec = Top(c).spec
  BY <1>1, <1>2, <1>4 DEF Frame
<1>6. /\ g \in TypedFrame /\ g.pc = "required" /\ g.key = Head(Top(c).todo)
      /\ g.wait = TRUE /\ g.todo = Requires[g.key]
  BY <1>4, DeployFrameTyped DEF TypeInv
<1>7. call' = [call EXCEPT ![c] = <<g, f>> \o Tail(call[c])]
  BY DEF DeployRequired, At
<1> HIDE DEF f, g
<1>8. FrameOK(f)
  <2>1. FrameOK(Top(c))
    BY <1>2, TypedIsOK
  <2>2. Top(c).spec \in Specs
    BY <1>1, <2>1 DEF FrameOK, DeployPcs
  <2> QED BY <1>5, <2>2 DEF FrameOK, Frame
<1>9. f \in TypedFrame
  BY <1>5, <1>8 DEF TypedFrame
<1> DEFINE t == <<g, f>> \o Tail(call[c])
<1>10. t \in Seq(TypedFrame) /\ t # <<>> /\ t[1] = g
  <2>1. g \in TypedFrame
    BY <1>6
  <2>2. call[c] \in Seq(TypedFrame)
    BY <1>2
  <2> QED BY <1>1, <1>9, <2>1, <2>2, Pushed
<1>11. CallsTyped' /\ Others(c) /\ call'[c] = t
  BY <1>7, <1>10, Stacked DEF TypeInv
<1>12. Head(t) = t[1]
  BY <1>10, TopIsFirst
<1>13. Top(c)' = g
  BY <1>10, <1>11, <1>12 DEF Top
<1>14. Descends(call[c], call'[c])
  <2>1. /\ call'[c] = <<g, f>> \o Tail(call[c])
        /\ f.key = call[c][1].key /\ f.wait = call[c][1].wait
        /\ f.todo = Tail(call[c][1].todo) /\ f.pc = "required"
        /\ g.key = Head(call[c][1].todo)
    BY <1>2, <1>5, <1>6, <1>11
  <2>2. call[c][1].pc = "required" /\ call[c][1].todo # <<>>
    BY <1>1, <1>2
  <2> QED BY <1>1, <1>6, <1>9, <2>1, <2>2 DEF Descends
<1> QED BY <1>6, <1>10, <1>11, <1>13, <1>14

\* A failed application is undeployed first.
LEMMA ClearMoves ==
  ASSUME TypeInv, NEW c \in Callers, At(c, "clear"),
         NEW f, f = [Top(c) EXCEPT !.pc = "clearing"],
         call' = [call EXCEPT ![c] = <<UndeployFrame(Top(c).key), f>> \o Tail(@)]
  PROVE  /\ CallsTyped' /\ Others(c) /\ Clears(call[c], call'[c]) /\ call'[c] # <<>>
         /\ Top(c)'.pc = "undeploy"
<1> DEFINE g == UndeployFrame(Top(c).key)
<1>1. call[c] # <<>> /\ Top(c).pc = "clear"
  BY DEF At
<1>2. /\ call[c] \in Seq(TypedFrame) /\ Top(c) = call[c][1]
      /\ Top(c) \in TypedFrame /\ Top(c) \in Frame
  BY <1>1, TopTyped DEF TypeInv
<1>3. /\ f \in Frame /\ f.pc = "clearing" /\ f.key = Top(c).key /\ f.wait = Top(c).wait
      /\ f.todo = Top(c).todo /\ f.spec = Top(c).spec /\ Top(c).key \in Keys
  BY <1>2 DEF Frame, DeployPcs
<1>4. f \in TypedFrame
  BY <1>1, <1>2, <1>3, FrameGoes DEF DeployPcs
<1>5. g \in TypedFrame /\ g.pc = "undeploy" /\ g.key = Top(c).key
  BY <1>3, UndeployFrameTyped
<1> HIDE DEF g
<1> DEFINE t == <<g, f>> \o Tail(call[c])
<1>6. t \in Seq(TypedFrame) /\ t # <<>> /\ t[1] = g
  <2>1. call[c] \in Seq(TypedFrame) /\ g \in TypedFrame
    BY <1>2, <1>5
  <2> QED BY <1>1, <1>4, <2>1, Pushed
<1>7. call' = [call EXCEPT ![c] = t]
  BY DEF g
<1>8. CallsTyped' /\ Others(c) /\ call'[c] = t
  BY <1>6, <1>7, Stacked DEF TypeInv
<1>9. Head(t) = t[1]
  BY <1>6, TopIsFirst
<1>10. Top(c)' = g
  BY <1>6, <1>8, <1>9 DEF Top
<1>11. Clears(call[c], call'[c])
  BY <1>1, <1>2, <1>3, <1>4, <1>5, <1>8 DEF Clears
<1> QED BY <1>5, <1>6, <1>8, <1>10, <1>11

\* A frame that returns uncovers the one below it.
LEMMA ReturnPops ==
  ASSUME CallsTyped, NEW c \in Callers, call[c] # <<>>, Return(c)
  PROVE  /\ CallsTyped' /\ Others(c) /\ call'[c] = Tail(call[c])
         /\ call'[c] # <<>> => Len(call[c]) >= 2 /\ Top(c)' = call[c][2]
<1>1. call[c] \in Seq(TypedFrame) /\ call' = [call EXCEPT ![c] = Tail(call[c])]
  BY DEF CallsTyped, Return
<1>2. /\ Tail(call[c]) \in Seq(TypedFrame) /\ Len(Tail(call[c])) = Len(call[c]) - 1
      /\ \A i \in 1..Len(Tail(call[c])) : Tail(call[c])[i] = call[c][i + 1]
  BY <1>1, Popped
<1>3. CallsTyped' /\ Others(c) /\ call'[c] = Tail(call[c])
  BY <1>1, <1>2, Stacked
<1>4. ASSUME call'[c] # <<>> PROVE Len(call[c]) >= 2 /\ Top(c)' = call[c][2]
  <2> DEFINE t == Tail(call[c])
  <2>1. t \in Seq(TypedFrame) /\ t # <<>>
    BY <1>2, <1>3, <1>4
  <2>2. Head(t) = t[1] /\ Len(t) >= 1 /\ Len(t) \in Nat
    BY <2>1, TopIsFirst
  <2>3. Len(call[c]) \in Nat
    BY <1>1
  <2>4. Len(call[c]) >= 2 /\ t[1] = call[c][2]
    BY <1>2, <2>2, <2>3
  <2> QED BY <1>3, <2>2, <2>4 DEF Top
<1> QED BY <1>3, <1>4

\* A call that raises is over.
LEMMA RaiseEnds ==
  ASSUME CallsTyped, NEW c \in Callers, Raise(c)
  PROVE  CallsTyped' /\ Others(c) /\ call'[c] = <<>>
<1>1. <<>> \in Seq(TypedFrame)
  OBVIOUS
<1> QED BY <1>1, Stacked DEF Raise

\* What Serve gives is a list of specs, and a phase of each.
LEMMA ReadsTyped ==
  ASSUME ServeAssumption, TablesTyped
  PROVE  /\ CurrentSpecs \in Listing
         /\ \A k \in Keys : PhaseOf(apps[k]) \in Phases /\ PhaseForDeployer(apps[k]) \in Phases
         /\ \A k \in Keys : PhaseForDeployer(apps[k]) # "not_deployed"
         /\ \A k \in Keys : apps[k] # Nothing => apps[k] \in Application /\ apps[k].config \in Specs
         /\ \A k \in Keys : DeployedConfig(apps[k]) \in Specs \cup {Nothing}
<1>1. \A k \in Keys : apps[k] # Nothing => apps[k] \in Application
  BY DEF TablesTyped
<1>2. \A k \in Keys : apps[k] # Nothing => apps[k].config \in Specs /\ apps[k].status \in Statuses
  BY <1>1 DEF Application
<1>3. ASSUME NEW k \in Keys
      PROVE  /\ PhaseOf(apps[k]) \in Phases /\ PhaseForDeployer(apps[k]) \in Phases
             /\ PhaseForDeployer(apps[k]) # "not_deployed"
             /\ DeployedConfig(apps[k]) \in Specs \cup {Nothing}
  BY <1>2 DEF PhaseOf, PhaseForDeployer, PhaseOfStatus, Statuses, Phases, DeployedConfig
<1>4. CurrentSpecs \in Listing
  BY <1>3 DEF CurrentSpecs, Listing
<1> QED BY <1>1, <1>2, <1>3, <1>4

\* The records that a deploy builds its own upon.
LEMMA ReplacedTyped ==
  ASSUME TablesTyped, NEW k \in Keys, NEW v \in Versions
  PROVE  ReplacedBy(records[k], v) \in Versions \cup {Nothing}
<1>1. CASE records[k] = Nothing
  BY <1>1 DEF ReplacedBy
<1>2. CASE records[k] # Nothing
  <2>1. records[k] \in Record
    BY <1>2 DEF TablesTyped
  <2>2. records[k].replaced \in Versions \cup {Nothing} /\ records[k].spec.version \in Versions
    BY <2>1 DEF Record, Specs
  <2> QED BY <2>2 DEF ReplacedBy
<1> QED BY <1>1, <1>2

\* A deploy that its record does not answer goes on with what it has read.
LEMMA PassRecordMoves ==
  ASSUME ServeAssumption, TypeInv, NEW c \in Callers, PassRecord(c)
  PROVE  /\ CallsTyped' /\ Others(c) /\ Turns(call[c], call'[c]) /\ call'[c] # <<>>
         /\ Top(c)'.pc = "clear"
<1> DEFINE spec == [Top(c).spec EXCEPT !.tiers = tiers]
           r == ReplacedBy(records[Top(c).key], Top(c).spec.version)
           g == [Top(c) EXCEPT !.pc = "clear", !.spec = spec, !.replaced = r]
<1>1. call[c] # <<>> /\ Top(c).pc = "required" /\ Top(c).todo = <<>>
  BY DEF PassRecord, HasRequired, At
<1>2. /\ Top(c) = call[c][1] /\ Top(c) \in TypedFrame /\ Top(c) \in Frame /\ FrameOK(Top(c))
  BY <1>1, TopTyped DEF TypeInv
<1>3. Top(c).spec \in Specs /\ Top(c).key \in Keys
  BY <1>1, <1>2 DEF FrameOK, DeployPcs, Frame
<1>4. spec \in Specs /\ r \in Versions \cup {Nothing}
  <2>1. Top(c).spec.version \in Versions
    BY <1>3 DEF Specs
  <2>2. spec \in Specs
    BY <1>3 DEF Specs, TypeInv, TablesTyped
  <2> QED BY <1>3, <2>1, <2>2, ReplacedTyped DEF TypeInv
<1>5. Continue(c, g)
  BY DEF PassRecord
<1> HIDE DEF spec, r
<1>6. /\ g \in Frame /\ g.pc = "clear" /\ g.key = Top(c).key /\ g.wait = Top(c).wait
      /\ g.todo = Top(c).todo /\ g.spec = spec
  BY <1>2, <1>4 DEF Frame, DeployPcs
<1> HIDE DEF g
<1>7. g \in TypedFrame
  <2>1. /\ g.key \in Keys /\ g.wait \in BOOLEAN /\ g.todo \in Seq(Keys)
        /\ g.replaced \in Versions \cup {Nothing} /\ g.pc \in DeployPcs \cup UndeployPcs
    BY <1>6 DEF Frame
  <2>2. FrameOK(g)
    BY <1>4, <1>6, <2>1 DEF FrameOK
  <2> QED BY <1>6, <2>2 DEF TypedFrame
<1>8. /\ CallsTyped' /\ Others(c)
      /\ call'[c] = <<g>> \o Tail(call[c]) /\ call'[c] # <<>> /\ Top(c)' = g
  BY <1>1, <1>5, <1>7, TopReplaced DEF TypeInv
<1>9. Turns(call[c], call'[c])
  <2>1. /\ call'[c] = <<g>> \o Tail(call[c])
        /\ g.key = call[c][1].key /\ g.wait = call[c][1].wait /\ g.todo = call[c][1].todo
        /\ g.pc # "required" /\ (Deploying(g) <=> Deploying(call[c][1]))
    BY <1>1, <1>2, <1>6, <1>8 DEF Deploying, DeployPcs
  <2> QED BY <1>1, <1>2, <1>7, <2>1 DEF Turns
<1> QED BY <1>6, <1>8, <1>9

\* Every step of a caller moves its own stack, and keeps it typed.
LEMMA CallerMoves ==
  ASSUME ServeAssumption, TypeInv, NEW c \in Callers,
         Start(c) \/ Deploy(c) \/ Undeploy(c) \/ TimeOut(c) \/ CallFails(c)
  PROVE  CallsTyped' /\ Others(c) /\ Moves(call[c], call'[c])
<1> USE DEF TypeInv
<1>1. CASE Start(c)
  BY <1>1, StartMoves DEF Moves
<1>2. CASE DeployRequired(c)
  BY <1>2, DeployRequiredMoves DEF Moves
<1>3. CASE PassRecord(c)
  BY <1>3, PassRecordMoves DEF Moves
<1>4. CASE TimeOut(c) \/ CallFails(c) \/ SeeFailed(c)
  BY <1>4, RaiseEnds DEF TimeOut, CallFails, SeeFailed, Moves
<1>5. ASSUME call[c] # <<>>, Return(c), Top(c).pc = "required" => Top(c).todo = <<>>,
             Deploying(Top(c)) /\ Top(c).wait => Top(c).pc \in {"wait on record", "patch"}
      PROVE  CallsTyped' /\ Others(c) /\ Moves(call[c], call'[c])
  <2>1. CallsTyped' /\ Others(c) /\ call'[c] = Tail(call[c])
    BY <1>5, ReturnPops
  <2>2. Top(c) = call[c][1]
    BY <1>5, TopTyped
  <2>3. Returns(call[c], call'[c])
    BY <1>5, <2>1, <2>2 DEF Returns
  <2> QED BY <2>1, <2>3 DEF Moves
<1>6. ASSUME call[c] # <<>>, Top(c).pc = "required" => Top(c).todo = <<>>,
             NEW pc \in (DeployPcs \cup UndeployPcs) \ ({"required"} \cup Untyped),
             pc \in DeployPcs <=> Top(c).pc \in DeployPcs, Go(c, pc)
      PROVE  CallsTyped' /\ Others(c) /\ Moves(call[c], call'[c])
  BY <1>6, GoTurns DEF Moves
<1>7. CASE ReturnFromRecord(c)
  <2>1. call[c] # <<>> /\ Top(c).pc = "required" /\ Top(c).todo = <<>>
    BY <1>7 DEF ReturnFromRecord, HasRequired, At
  <2>2. CASE Top(c).wait
    <3>1. Go(c, "wait on record")
      BY <1>7, <2>2 DEF ReturnFromRecord
    <3> QED BY <1>6, <2>1, <3>1 DEF DeployPcs, UndeployPcs, Untyped
  <2>3. CASE ~Top(c).wait
    BY <1>5, <1>7, <2>1, <2>3 DEF ReturnFromRecord
  <2> QED BY <2>2, <2>3
<1>8. CASE Clear(c)
  <2>1. At(c, "clear") /\ call[c] # <<>> /\ Top(c).pc = "clear"
    BY <1>8 DEF Clear, At
  <2>2. CASE Go(c, "clearing") \/ Go(c, "check")
    BY <1>6, <2>1, <2>2 DEF DeployPcs, UndeployPcs, Untyped
  <2>3. CASE call' = [call EXCEPT ![c] = <<UndeployFrame(Top(c).key),
                                           [Top(c) EXCEPT !.pc = "clearing"]>> \o Tail(@)]
    BY <2>1, <2>3, ClearMoves DEF Moves
  <2> QED BY <1>8, <2>2, <2>3 DEF Clear
<1>9. CASE Cleared(c) \/ Put(c) \/ UndeployPut(c) \/ Check(c)
  <2>1. CASE Cleared(c)
    BY <1>6, <2>1 DEF Cleared, At, DeployPcs, UndeployPcs, Untyped
  <2>2. CASE Put(c)
    BY <1>6, <2>2 DEF Put, At, DeployPcs, UndeployPcs, Untyped
  <2>3. CASE UndeployPut(c)
    BY <1>6, <2>3 DEF UndeployPut, At, DeployPcs, UndeployPcs, Untyped
  <2>4. CASE Check(c)
    <3>1. Go(c, "observe") \/ Go(c, "list")
      BY <2>4 DEF Check
    <3> QED BY <1>6, <2>4, <3>1 DEF Check, At, DeployPcs, UndeployPcs, Untyped
  <2> QED BY <1>9, <2>1, <2>2, <2>3, <2>4
<1>10. CASE List(c) \/ UndeployList(c) \/ Observe(c)
  <2>1. /\ call[c] # <<>> /\ Top(c) = call[c][1] /\ Top(c).key \in Keys
        /\ Top(c).pc \in {"list", "undeploy", "observe", "observe again"}
    <3>1. call[c] # <<>> /\ Top(c).pc \in {"list", "undeploy", "observe", "observe again"}
      BY <1>10 DEF List, UndeployList, Observe, At
    <3> QED BY <3>1, TopTyped DEF Frame
  <2>2. CurrentSpecs \in Listing /\ PhaseForDeployer(App(c)) \in Phases \ {"not_deployed"}
    BY <2>1, ReadsTyped DEF App
  <2>3. CASE List(c)
    BY <2>1, <2>2, <2>3, HoldTurns DEF List, At, Moves, DeployPcs, UndeployPcs
  <2>4. CASE UndeployList(c)
    BY <2>1, <2>2, <2>4, HoldTurns DEF UndeployList, At, Moves, DeployPcs, UndeployPcs
  <2>5. CASE Observe(c)
    BY <2>1, <2>2, <2>5, HoldTurns DEF Observe, At, Moves, DeployPcs, UndeployPcs
  <2> QED BY <1>10, <2>3, <2>4, <2>5
<1>11. CASE Save(c)
  <2>1. call[c] # <<>> /\ Top(c).pc = "save"
    BY <1>11 DEF Save, At
  <2>2. CASE Top(c).wait
    <3>1. Go(c, "wait")
      BY <1>11, <2>2 DEF Save
    <3> QED BY <1>6, <2>1, <3>1 DEF DeployPcs, UndeployPcs, Untyped
  <2>3. CASE ~Top(c).wait
    BY <1>5, <1>11, <2>1, <2>3 DEF Save
  <2> QED BY <2>2, <2>3
<1>12. CASE SeeRunning(c)
  <2>1. call[c] # <<>> /\ Top(c).pc \in {"wait", "wait on record"}
    BY <1>12 DEF SeeRunning, At
  <2>2. CASE Top(c).pc = "wait"
    <3>1. Go(c, "observe again")
      BY <1>12, <2>2 DEF SeeRunning
    <3> QED BY <1>6, <2>1, <3>1 DEF DeployPcs, UndeployPcs, Untyped
  <2>3. CASE Top(c).pc # "wait"
    BY <1>5, <1>12, <2>1, <2>3 DEF SeeRunning
  <2> QED BY <2>2, <2>3
<1>13. CASE Patch(c) \/ Forget(c)
  <2>1. call[c] # <<>> /\ Top(c).pc \in {"patch", "forget"} /\ Return(c)
    BY <1>13 DEF Patch, Forget, At
  <2> QED BY <1>5, <2>1 DEF Deploying, DeployPcs
<1> QED BY <1>1, <1>2, <1>3, <1>4, <1>7, <1>8, <1>9, <1>10, <1>11, <1>12, <1>13
        DEF Deploy, Undeploy

-----------------------------------------------------------------------------
(* The tables stay typed *)

\* What a caller PUTs is a list of specs.
LEMMA PutsListing ==
  ASSUME TypeInv, NEW c \in Callers, At(c, "put") \/ At(c, "put rest")
  PROVE  /\ Top(c).seen \in Listing /\ Top(c).key \in Keys
         /\ At(c, "put") => Top(c).spec \in Specs /\ [Top(c).seen EXCEPT ![Top(c).key] = Top(c).spec] \in Listing
         /\ [Top(c).seen EXCEPT ![Top(c).key] = Nothing] \in Listing
<1>1. call[c] # <<>> /\ Top(c).pc \in {"put", "put rest"} /\ (At(c, "put") => Top(c).pc = "put")
  BY DEF At
<1>2. Top(c) \in Frame /\ FrameOK(Top(c))
  BY <1>1, TopTyped DEF TypeInv
<1>3. Top(c).seen \in Listing /\ Top(c).key \in Keys /\ (At(c, "put") => Top(c).spec \in Specs)
  BY <1>1, <1>2 DEF FrameOK, Frame, DeployPcs
<1> QED BY <1>3 DEF Listing

\* Serve makes applications of specs.
LEMMA PutTyped ==
  ASSUME ServeAssumption, TypeInv, NEW specs \in Listing, PutApplications(specs)
  PROVE  apps' \in [Keys -> Application \cup {Nothing}]
<1>1. ASSUME NEW k \in Keys, specs[k] # Nothing
      PROVE  Accepted(apps[k], specs[k]) \in Application
  <2>1. specs[k] \in Specs
    BY <1>1 DEF Listing
  <2>2. CASE apps[k] # Nothing /\ apps[k].config = specs[k]
    <3>1. apps[k] \in Application
      BY <2>2 DEF TypeInv, TablesTyped
    <3>2. [apps[k] EXCEPT !.status = "DEPLOYING"] \in Application
      BY <3>1 DEF Application, Statuses
    <3> QED BY <2>2, <3>2 DEF Accepted
  <2>3. CASE ~(apps[k] # Nothing /\ apps[k].config = specs[k])
    <3>1. [status |-> "DEPLOYING", config |-> specs[k], target |-> 1, up |-> FALSE,
           broken |-> FALSE] \in Application
      BY <2>1 DEF Application, Statuses
    <3>2. Accepted(apps[k], specs[k]) =
            [status |-> "DEPLOYING", config |-> specs[k], target |-> 1, up |-> FALSE, broken |-> FALSE]
      BY <2>3 DEF Accepted
    <3> QED BY <3>1, <3>2
  <2> QED BY <2>2, <2>3
<1>2. ASSUME NEW k \in Keys, apps[k] # Nothing
      PROVE  [apps[k] EXCEPT !.status = "DELETING"] \in Application
  <2>1. apps[k] \in Application
    BY <1>2 DEF TypeInv, TablesTyped
  <2> QED BY <2>1 DEF Application, Statuses
<1> QED BY <1>1, <1>2 DEF PutApplications

\* A deploy saves a record.
LEMMA SaveTyped ==
  ASSUME TypeInv, NEW c \in Callers, At(c, "save"), SaveRecord(c)
  PROVE  /\ records' \in [Keys -> Record \cup {Nothing}]
         /\ Top(c).key \in Keys /\ Top(c).spec \in Specs
         /\ records'[Top(c).key] \in Record /\ records'[Top(c).key].spec = Top(c).spec
         /\ \A k \in Keys \ {Top(c).key} : records'[k] = records[k]
<1> DEFINE r == [spec |-> Top(c).spec, phase |-> Top(c).seen,
                 replaced |-> UntilRolledOut(Top(c).replaced, Top(c).seen)]
<1>1. call[c] # <<>> /\ Top(c).pc = "save"
  BY DEF At
<1>2. Top(c) \in Frame /\ FrameOK(Top(c))
  BY <1>1, TopTyped DEF TypeInv
<1>3. /\ Top(c).spec \in Specs /\ Top(c).seen \in Phases /\ Top(c).key \in Keys
      /\ Top(c).replaced \in Versions \cup {Nothing}
  BY <1>1, <1>2 DEF FrameOK, Frame, DeployPcs
<1>4. r \in Record /\ r.spec = Top(c).spec
  BY <1>3 DEF Record, UntilRolledOut
<1>5. records' = [records EXCEPT ![Top(c).key] = r]
  BY DEF SaveRecord
<1> HIDE DEF r
<1>6. records \in [Keys -> Record \cup {Nothing}]
  BY DEF TypeInv, TablesTyped
<1> QED BY <1>3, <1>4, <1>5, <1>6

\* An observation leaves the spec of a record.
RecordsKept ==
  \A k \in Keys : records[k] # Nothing => records'[k] # Nothing /\ records'[k].spec = records[k].spec

LEMMA PatchTyped ==
  ASSUME EntryAssumption, TypeInv, NEW k \in Keys, NEW phase \in Phases,
         NEW replaced \in Versions \cup {Nothing}, PatchRecord(k, phase, replaced)
  PROVE  records' \in [Keys -> Record \cup {Nothing}] /\ RecordsKept
<1>1. records \in [Keys -> Record \cup {Nothing}]
  BY DEF TypeInv, TablesTyped
<1>2. CASE records[k] = Nothing
  BY <1>1, <1>2 DEF PatchRecord, RecordsKept
<1>3. CASE records[k] # Nothing
  <2> DEFINE r == [spec |-> records[k].spec, phase |-> phase,
                   replaced |-> UntilRolledOut(replaced, phase)]
  <2>1. records[k] \in Record /\ records[k].spec \in Specs
    BY <1>1, <1>3 DEF Record
  <2>2. r \in Record /\ r.spec = records[k].spec
    BY <2>1 DEF Record, UntilRolledOut
  <2>3. records' = [records EXCEPT ![k].phase = phase, ![k].replaced = UntilRolledOut(replaced, phase)]
    BY <1>3 DEF PatchRecord
  <2>4. records'[k] = r
    BY <1>1, <2>1, <2>3 DEF Record
  <2>5. DOMAIN records' = Keys /\ records' = [x \in Keys |-> records'[x]]
    BY <1>1, <2>3
  <2>6. \A x \in Keys \ {k} : records'[x] = records[x]
    BY <1>1, <2>3
  <2> HIDE DEF r
  <2>7. r # Nothing
    BY <2>2 DEF EntryAssumption
  <2>8. \A x \in Keys : records'[x] \in Record \cup {Nothing}
    BY <1>1, <2>2, <2>4, <2>6
  <2>9. RecordsKept
    BY <2>2, <2>4, <2>6, <2>7 DEF RecordsKept
  <2> QED BY <2>5, <2>8, <2>9
<1> QED BY <1>2, <1>3

\* The steps of a caller that only read.
Quiet(c) ==
  \/ DeployRequired(c) \/ ReturnFromRecord(c) \/ PassRecord(c) \/ Clear(c) \/ Cleared(c)
  \/ Check(c) \/ List(c) \/ Observe(c) \/ SeeRunning(c) \/ SeeFailed(c)
  \/ UndeployList(c) \/ TimeOut(c)

LEMMA QuietIsQuiet ==
  ASSUME NEW c \in Callers, Quiet(c)
  PROVE  OnlyCall
BY DEF Quiet, DeployRequired, ReturnFromRecord, PassRecord, Clear, Cleared, Check, List, Observe,
       SeeRunning, SeeFailed, UndeployList, TimeOut

\* Every step of a caller is quiet, or one of these.
LEMMA CallerSteps ==
  ASSUME NEW c \in Callers, Start(c) \/ Deploy(c) \/ Undeploy(c) \/ TimeOut(c) \/ CallFails(c)
  PROVE  Start(c) \/ Quiet(c) \/ Put(c) \/ Save(c) \/ Patch(c) \/ UndeployPut(c) \/ Forget(c) \/ CallFails(c)
BY DEF Deploy, Undeploy, Quiet

\* What a patch writes is typed.
LEMMA PatchesTyped ==
  ASSUME TypeInv, NEW c \in Callers, At(c, "patch")
  PROVE  Top(c).key \in Keys /\ Top(c).seen \in Phases /\ Top(c).replaced \in Versions \cup {Nothing}
<1>1. call[c] # <<>> /\ Top(c).pc = "patch"
  BY DEF At
<1>2. Top(c) \in Frame /\ FrameOK(Top(c))
  BY <1>1, TopTyped DEF TypeInv
<1> QED BY <1>1, <1>2 DEF FrameOK, Frame

LEMMA DropTyped ==
  ASSUME TypeInv, NEW c \in Callers, call[c] # <<>>, DropRecord(c)
  PROVE  /\ records' \in [Keys -> Record \cup {Nothing}]
         /\ \A k \in Keys \ {Top(c).key} : records'[k] = records[k]
BY DEF TypeInv, TablesTyped, DropRecord

\* A caller keeps the types.
LEMMA CallerTyped ==
  ASSUME ServeAssumption, EntryAssumption, TypeInv, NEW c \in Callers,
         Start(c) \/ Deploy(c) \/ Undeploy(c) \/ TimeOut(c) \/ CallFails(c)
  PROVE  TypeInv'
<1>1. CallsTyped'
  BY CallerMoves
<1>2. ASSUME call[c] # <<>> PROVE Top(c).key \in Keys
  BY <1>2, TopTyped DEF TypeInv, Frame
<1>3. TablesTyped' /\ observer' = observer
  <2> USE DEF TypeInv
  <2>1. CASE Start(c)
    BY <2>1 DEF Start, StartDeploy, StartUndeploy, StartCall, TablesTyped, worldVars
  <2>2. CASE Quiet(c)
    BY <2>2, QuietIsQuiet DEF OnlyCall, TablesTyped, worldVars, ghostVars
  <2>3. CASE Put(c)
    <3>1. apps' \in [Keys -> Application \cup {Nothing}]
      BY <2>3, PutsListing, PutTyped DEF Put, PutOwn
    <3> QED BY <2>3, <3>1 DEF Put, TablesTyped, worldVars, ghostVars
  <2>4. CASE Save(c)
    <3>1. records' \in [Keys -> Record \cup {Nothing}]
      BY <2>4, SaveTyped DEF Save
    <3> QED BY <2>4, <3>1 DEF Save, TablesTyped, worldVars, ghostVars
  <2>5. CASE Patch(c)
    <3>1. At(c, "patch") /\ PatchRecord(Top(c).key, Top(c).seen, Top(c).replaced)
      BY <2>5 DEF Patch
    <3>2. records' \in [Keys -> Record \cup {Nothing}]
      BY <3>1, PatchTyped, PatchesTyped
    <3> QED BY <2>5, <3>2 DEF Patch, TablesTyped, worldVars, ghostVars
  <2>6. CASE UndeployPut(c)
    <3>1. apps' \in [Keys -> Application \cup {Nothing}]
      BY <2>6, PutsListing, PutTyped DEF UndeployPut, PutRest
    <3> QED BY <2>6, <3>1 DEF UndeployPut, TablesTyped, worldVars, ghostVars
  <2>7. CASE Forget(c)
    <3>1. records' \in [Keys -> Record \cup {Nothing}]
      BY <2>7, DropTyped DEF Forget, At
    <3> QED BY <2>7, <3>1 DEF Forget, TablesTyped, worldVars, ghostVars
  <2>8. CASE CallFails(c)
    <3>1. interrupted' \subseteq Keys
      BY <1>2, <2>8 DEF CallFails, TablesTyped
    <3>2. apps' \in [Keys -> Application \cup {Nothing}]
      <4>1. CASE At(c, "put") /\ PutOwn(c)
        BY <4>1, PutsListing, PutTyped DEF PutOwn
      <4>2. CASE At(c, "put rest") /\ PutRest(c)
        BY <4>2, PutsListing, PutTyped DEF PutRest
      <4>3. CASE apps' = apps
        BY <4>3 DEF TablesTyped
      <4> QED BY <2>8, <4>1, <4>2, <4>3 DEF CallFails
    <3>3. records' \in [Keys -> Record \cup {Nothing}]
      <4>1. CASE At(c, "save") /\ SaveRecord(c)
        BY <4>1, SaveTyped
      <4>2. CASE At(c, "forget") /\ DropRecord(c)
        BY <4>2, DropTyped DEF At
      <4>3. CASE records' = records
        BY <4>3 DEF TablesTyped
      <4> QED BY <2>8, <4>1, <4>2, <4>3 DEF CallFails
    <3> QED BY <2>8, <3>1, <3>2, <3>3 DEF CallFails, TablesTyped, worldVars, ghostVars
  <2> QED BY <2>1, <2>2, <2>3, <2>4, <2>5, <2>6, <2>7, <2>8, CallerSteps
<1>4. ObserverTyped'
  BY <1>3 DEF TypeInv, ObserverTyped
<1> QED BY <1>1, <1>3, <1>4 DEF TypeInv

\* The poller keeps the types, and the specs of the records.
LEMMA PollerTyped ==
  ASSUME ServeAssumption, EntryAssumption, TypeInv, ObserveDeployments \/ ObserverFails
  PROVE  TypeInv' /\ RecordsKept /\ UNCHANGED <<apps, call, interrupted, ghostVars>>
<1> USE DEF TypeInv
<1>1. UNCHANGED <<worldVars, apps, call, interrupted, calls, ghostVars>>
  BY DEF ObserveDeployments, ObserverFails, ReadServe, ListRecords, ObserverEnds, PatchObserved,
         OnlyObserver
<1>2. CallsTyped'
  BY <1>1 DEF CallsTyped
<1> DEFINE Rows == [Keys -> Record \cup {Nothing}] \cup {Nothing}
           Seen == [Keys -> Phases] \cup {Nothing}
<1>3. observer \in [phases : Seen, rows : Rows]
  BY DEF ObserverTyped
<1>4. CASE ReadServe
  <2>1. [k \in Keys |-> PhaseOf(apps[k])] \in Seen
    BY ReadsTyped
  <2>2. observer.rows = Nothing
    BY <1>4 DEF ReadServe, ObserverIdle
  <2>3. observer' = [observer EXCEPT !.phases = [k \in Keys |-> PhaseOf(apps[k])]] /\ records' = records
    BY <1>4 DEF ReadServe
  <2>4. observer' \in [phases : Seen, rows : Rows] /\ observer'.rows = Nothing
    BY <1>3, <2>1, <2>2, <2>3
  <2>5. ObserverTyped'
    BY <2>4 DEF ObserverTyped
  <2> QED BY <1>1, <1>2, <2>3, <2>5 DEF TablesTyped, RecordsKept, worldVars, ghostVars
<1>5. CASE ListRecords
  <2> DEFINE rows == [k \in Keys |-> IF Outdated(records[k], observer.phases[k])
                                       THEN records[k] ELSE Nothing]
  <2>1. rows \in Rows
    BY DEF TablesTyped
  <2>2. observer' = [observer EXCEPT !.rows = rows] /\ records' = records /\ observer.phases # Nothing
    BY <1>5 DEF ListRecords
  <2> HIDE DEF rows
  <2>3. observer' \in [phases : Seen, rows : Rows] /\ observer'.phases # Nothing
    BY <1>3, <2>1, <2>2
  <2>4. ObserverTyped'
    BY <2>3 DEF ObserverTyped
  <2> QED BY <1>1, <1>2, <2>2, <2>4 DEF TablesTyped, RecordsKept, worldVars, ghostVars
<1>6. ASSUME NEW k \in Keys, PatchObserved(k)
      PROVE  TypeInv' /\ RecordsKept
  <2>1. /\ observer.rows # Nothing /\ observer.phases # Nothing
        /\ observer.rows \in [Keys -> Record \cup {Nothing}] /\ observer.phases \in [Keys -> Phases]
    BY <1>3, <1>6 DEF PatchObserved, ObserverTyped
  <2>2. observer.rows[k] \in Record /\ observer.phases[k] \in Phases
    BY <1>6, <2>1 DEF PatchObserved
  <2>3. observer.rows[k].replaced \in Versions \cup {Nothing}
    BY <2>2 DEF Record
  <2>4. records' \in [Keys -> Record \cup {Nothing}] /\ RecordsKept
    BY <1>6, <2>2, <2>3, PatchTyped DEF PatchObserved
  <2> DEFINE rows == [observer.rows EXCEPT ![k] = Nothing]
  <2>5. rows \in Rows
    BY <2>1
  <2>6. observer' = [observer EXCEPT !.rows = rows]
    BY <1>6 DEF PatchObserved
  <2> HIDE DEF rows
  <2>7. observer' \in [phases : Seen, rows : Rows] /\ observer'.phases # Nothing
    BY <1>3, <2>1, <2>5, <2>6
  <2>8. ObserverTyped'
    BY <2>7 DEF ObserverTyped
  <2> QED BY <1>1, <1>2, <2>4, <2>8 DEF TablesTyped, worldVars, ghostVars
<1>7. CASE ObserverEnds \/ ObserverFails
  <2>1. observer' = ObserverIdle /\ records' = records
    BY <1>7 DEF ObserverEnds, ObserverFails
  <2>2. ObserverTyped'
    BY <2>1 DEF ObserverTyped, ObserverIdle
  <2> QED BY <1>1, <1>2, <2>1, <2>2 DEF TablesTyped, RecordsKept, worldVars, ghostVars
<1> QED BY <1>1, <1>4, <1>5, <1>6, <1>7 DEF ObserveDeployments, ghostVars

\* Serve never changes the spec of an application, never takes one down unasked, and
\* drops one only when it was asked to or loses them all.
AppsFade ==
  \A k \in Keys :
    apps'[k] # Nothing =>
      /\ apps[k] # Nothing /\ apps'[k].config = apps[k].config
      /\ apps'[k].status = "DELETING" <=> apps[k].status = "DELETING"
AppsStay == \A k \in Keys : DeployedConfig(apps[k]) # Nothing => DeployedConfig(apps'[k]) # Nothing

LEMMA BecomesTyped ==
  ASSUME EntryAssumption, TypeInv, NEW k \in Keys, apps[k] # Nothing, NEW app \in Application,
         Become(k, app), app.config = apps[k].config, apps[k].status # "DELETING", app.status # "DELETING"
  PROVE  apps' \in [Keys -> Application \cup {Nothing}] /\ AppsFade /\ AppsStay
<1>1. apps \in [Keys -> Application \cup {Nothing}]
  BY DEF TypeInv, TablesTyped
<1>2. apps' \in [Keys -> Application \cup {Nothing}] /\ apps'[k] = app
      /\ \A x \in Keys \ {k} : apps'[x] = apps[x]
  BY <1>1 DEF Become
<1>3. app # Nothing
  BY DEF EntryAssumption
<1>4. AppsFade
  BY <1>2 DEF AppsFade
<1>5. AppsStay
  <2> SUFFICES ASSUME NEW x \in Keys, DeployedConfig(apps[x]) # Nothing
               PROVE  DeployedConfig(apps'[x]) # Nothing
    BY DEF AppsStay
  <2>1. CASE x = k
    BY <1>2, <1>3, <2>1 DEF DeployedConfig
  <2>2. CASE x # k
    BY <1>2, <2>2
  <2> QED BY <2>1, <2>2
<1> QED BY <1>2, <1>4, <1>5

\* Serve's own steps.
LEMMA ServeTyped ==
  ASSUME EntryAssumption, TypeInv, Serve
  PROVE  TypeInv' /\ AppsFade /\ AppsStay /\ UNCHANGED <<call, records, interrupted, ghostVars>>
<1>1. PICK k \in Keys : Starts(k) \/ Fails(k) \/ Sickens(k) \/ Pauses(k) \/ Resumes(k) \/ Removed(k)
  BY DEF Serve
<1>2. /\ UNCHANGED <<worldVars, records, call, observer, interrupted, ghostVars>>
      /\ apps[k] # Nothing
  BY <1>1 DEF Starts, Fails, Sickens, Pauses, Resumes, Removed, OnlyApps
<1>3. apps \in [Keys -> Application \cup {Nothing}] /\ apps[k] \in Application
  BY <1>2 DEF TypeInv, TablesTyped
<1>4. /\ apps[k].status \in Statuses /\ apps[k].config \in Specs /\ apps[k].target \in {0, 1}
      /\ apps[k].up \in BOOLEAN /\ apps[k].broken \in BOOLEAN
  BY <1>3 DEF Application
<1>5. ASSUME NEW app \in Application, Become(k, app), app.config = apps[k].config,
             apps[k].status # "DELETING", app.status # "DELETING"
      PROVE  apps' \in [Keys -> Application \cup {Nothing}] /\ AppsFade /\ AppsStay
  BY <1>2, <1>5, BecomesTyped
<1>6. apps' \in [Keys -> Application \cup {Nothing}] /\ AppsFade /\ AppsStay
  <2>1. CASE Starts(k)
    <3> DEFINE app == [apps[k] EXCEPT !.status = "RUNNING", !.up = (apps[k].target = 1)]
    <3>1. app \in Application /\ app.config = apps[k].config /\ app.status = "RUNNING"
      BY <1>3, <1>4 DEF Application, Statuses
    <3>2. Become(k, app) /\ apps[k].status # "DELETING"
      BY <2>1 DEF Starts
    <3> HIDE DEF app
    <3> QED BY <1>5, <3>1, <3>2
  <2>2. CASE Fails(k)
    <3> DEFINE app == [apps[k] EXCEPT !.status = "DEPLOY_FAILED", !.broken = TRUE, !.up = FALSE]
    <3>1. app \in Application /\ app.config = apps[k].config /\ app.status = "DEPLOY_FAILED"
      BY <1>3, <1>4 DEF Application, Statuses
    <3>2. Become(k, app) /\ apps[k].status # "DELETING"
      BY <2>2 DEF Fails
    <3> HIDE DEF app
    <3> QED BY <1>5, <3>1, <3>2
  <2>3. CASE Sickens(k)
    <3> DEFINE app == [apps[k] EXCEPT !.status = "UNHEALTHY"]
               down == [apps[k] EXCEPT !.up = FALSE]
    <3>1. /\ app \in Application /\ app.config = apps[k].config /\ app.status = "UNHEALTHY"
          /\ down \in Application /\ down.config = apps[k].config /\ down.status = apps[k].status
      BY <1>3, <1>4 DEF Application, Statuses
    <3>2. (Become(k, app) \/ Become(k, down)) /\ apps[k].status # "DELETING"
      BY <2>3 DEF Sickens
    <3> HIDE DEF app, down
    <3> QED BY <1>5, <3>1, <3>2
  <2>4. CASE Pauses(k)
    <3> DEFINE app == [apps[k] EXCEPT !.target = 0, !.up = FALSE]
    <3>1. app \in Application /\ app.config = apps[k].config /\ app.status = apps[k].status
      BY <1>3, <1>4 DEF Application, Statuses
    <3>2. Become(k, app) /\ apps[k].status # "DELETING"
      BY <2>4 DEF Pauses
    <3> HIDE DEF app
    <3> QED BY <1>5, <3>1, <3>2
  <2>5. CASE Resumes(k)
    <3> DEFINE app == [apps[k] EXCEPT !.target = 1]
    <3>1. app \in Application /\ app.config = apps[k].config /\ app.status = apps[k].status
      BY <1>3, <1>4 DEF Application, Statuses
    <3>2. Become(k, app) /\ apps[k].status # "DELETING"
      BY <2>5 DEF Resumes
    <3> HIDE DEF app
    <3> QED BY <1>5, <3>1, <3>2
  <2>6. CASE Removed(k)
    <3>1. /\ apps' \in [Keys -> Application \cup {Nothing}] /\ apps'[k] = Nothing
          /\ \A x \in Keys \ {k} : apps'[x] = apps[x]
      BY <1>3, <2>6 DEF Removed, Become
    <3>2. DeployedConfig(apps[k]) = Nothing
      BY <2>6 DEF Removed, DeployedConfig
    <3>3. AppsFade
      BY <3>1 DEF AppsFade
    <3>4. AppsStay
      BY <3>1, <3>2 DEF AppsStay
    <3> QED BY <3>1, <3>3, <3>4
  <2> QED BY <1>1, <2>1, <2>2, <2>3, <2>4, <2>5, <2>6
<1> QED BY <1>2, <1>6 DEF TypeInv, CallsTyped, TablesTyped, ObserverTyped, worldVars, ghostVars

\* Serve comes back without its applications.
LEMMA LosesTyped ==
  ASSUME TypeInv, ServeLoses
  PROVE  /\ TypeInv' /\ AppsFade /\ lost' = TRUE
         /\ UNCHANGED <<call, records, interrupted, overlapped>>
<1>1. apps' = [k \in Keys |-> Nothing]
  BY DEF ServeLoses
<1>2. AppsFade
  BY <1>1 DEF AppsFade
<1> QED BY <1>1, <1>2 DEF ServeLoses, OnlyApps, TypeInv, CallsTyped, TablesTyped, ObserverTyped, worldVars

\* The registry and the cluster change beside all that.
LEMMA ChangeTyped ==
  ASSUME TypeInv, Change
  PROVE  TypeInv' /\ UNCHANGED <<apps, records, call, interrupted, ghostVars>>
BY DEF Change, TypeInv, CallsTyped, TablesTyped, ObserverTyped, ghostVars

LEMMA InitTyped ==
  ASSUME ServeAssumption, Init
  PROVE  TypeInv
<1>1. <<>> \in Seq(TypedFrame)
  OBVIOUS
<1>2. CallsTyped
  BY <1>1 DEF Init, CallsTyped
<1> QED BY <1>2 DEF Init, TypeInv, TablesTyped, ObserverTyped, ServeAssumption

LEMMA StepTyped ==
  ASSUME ServeAssumption, EntryAssumption, TypeInv, [Next]_vars
  PROVE  TypeInv'
<1>1. CASE UNCHANGED vars
  BY <1>1 DEF vars, worldVars, ghostVars, TypeInv, CallsTyped, TablesTyped, ObserverTyped
<1>2. CASE Next
  BY <1>2, CallerTyped, PollerTyped, ServeTyped, LosesTyped, ChangeTyped DEF Next
<1> QED BY <1>1, <1>2

\* Every reachable state is well-typed: the applications, the records, the frames of every
\* call and what the poller has read.
THEOREM TypeCorrect == Spec => []TypeOK
<1>1. Init => TypeInv
  BY InitTyped, ServeAssumption
<1>2. TypeInv /\ [Next]_vars => TypeInv'
  BY StepTyped, ServeAssumption, EntryAssumption
<1> QED BY <1>1, <1>2, TypeInvSuffices, PTL DEF Spec

-----------------------------------------------------------------------------
(* What a stack looks like *)

Among(x, s) == \E n \in DOMAIN s : s[n] = x

\* Under the top, frames wait for what they require or for an application to go.
Suspended(s) == \A i \in 2..Len(s) : s[i].pc \in {"required", "clearing"}
\* What a deploy requires has all been deployed when it goes on.
Provided(s) == \A i \in 1..Len(s) : Deploying(s[i]) /\ s[i].pc # "required" => s[i].todo = <<>>
\* What a frame waits for is a deploy that is waited for, or its own undeploy on top.
Nested(s) ==
  \A i \in 1..(Len(s) - 1) :
    \/ Deploying(s[i]) /\ s[i].wait
    \/ i = 1 /\ ~Deploying(s[1]) /\ s[2].pc = "clearing" /\ s[2].key = s[1].key
\* A model that requires itself is deployed again and again, and never there.
Looping(s) ==
  \A i \in 1..Len(s) :
    Deploying(s[i]) /\ Among(s[i].key, Requires[s[i].key]) =>
      \/ Among(s[i].key, s[i].todo)
      \/ i >= 2 /\ Deploying(s[i - 1]) /\ s[i - 1].key = s[i].key

StackOK(s) == Suspended(s) /\ Provided(s) /\ Nested(s) /\ Looping(s)
StackInv == \A c \in Callers : StackOK(call[c])

LEMMA TurnKeepsStack ==
  ASSUME NEW s \in Seq(TypedFrame), StackOK(s), NEW t, Turns(s, t)
  PROVE  StackOK(t)
<1>1. s # <<>> /\ (s[1].pc = "required" => s[1].todo = <<>>)
  BY DEF Turns
<1>2. PICK f \in TypedFrame :
        /\ t = <<f>> \o Tail(s)
        /\ f.key = s[1].key /\ f.wait = s[1].wait /\ f.todo = s[1].todo
        /\ f.pc # "required"
        /\ Deploying(f) <=> Deploying(s[1])
  BY DEF Turns
<1>3. Len(t) = Len(s) /\ t[1] = f /\ (\A i \in 2..Len(t) : t[i] = s[i]) /\ Len(s) \in Nat /\ Len(s) >= 1
  <2>1. f \in TypedFrame /\ t = <<f>> \o Tail(s)
    BY <1>2
  <2> QED BY <1>1, <2>1, Replaced
<1>4. Suspended(t)
  BY <1>3 DEF StackOK, Suspended
<1>5. Provided(t)
  <2>1. Deploying(s[1]) => s[1].todo = <<>>
    BY <1>1, <1>3 DEF StackOK, Provided
  <2> QED BY <1>2, <1>3, <2>1 DEF StackOK, Provided
<1>6. Nested(t)
  BY <1>2, <1>3 DEF StackOK, Nested
<1>7. Looping(t)
  <2> SUFFICES ASSUME NEW i \in 1..Len(t), Deploying(t[i]), Among(t[i].key, Requires[t[i].key])
               PROVE  \/ Among(t[i].key, t[i].todo)
                      \/ i >= 2 /\ Deploying(t[i - 1]) /\ t[i - 1].key = t[i].key
    BY DEF Looping
  <2>1. CASE i = 1
    <3>1. Deploying(s[1]) /\ Among(s[1].key, Requires[s[1].key])
      BY <1>2, <1>3, <2>1
    <3>2. Among(s[1].key, s[1].todo)
      BY <1>3, <3>1 DEF StackOK, Looping
    <3> QED BY <1>2, <1>3, <2>1, <3>2
  <2>2. CASE i # 1
    <3>1. i \in 2..Len(t) /\ i \in 1..Len(s) /\ t[i] = s[i]
      BY <1>3, <2>2
    <3>2. Among(s[i].key, s[i].todo) \/ (i >= 2 /\ Deploying(s[i - 1]) /\ s[i - 1].key = s[i].key)
      BY <3>1 DEF StackOK, Looping
    <3>3. CASE i = 2
      BY <1>2, <1>3, <3>1, <3>2, <3>3
    <3>4. CASE i # 2
      <4>1. i - 1 \in 2..Len(t)
        BY <1>3, <3>1, <3>4
      <4> QED BY <1>3, <3>1, <3>2, <4>1
    <3> QED BY <3>3, <3>4
  <2> QED BY <2>1, <2>2
<1> QED BY <1>4, <1>5, <1>6, <1>7 DEF StackOK

\* Pushing a frame on a deploy, which then waits for it.
LEMMA PushKeepsStack ==
  ASSUME NEW s \in Seq(TypedFrame), s # <<>>, StackOK(s), Deploying(s[1]),
         NEW f \in TypedFrame, NEW g \in TypedFrame, NEW t, t = <<g, f>> \o Tail(s),
         f.pc \in {"required", "clearing"}, f.key = s[1].key, f.wait = s[1].wait,
         f.pc = "clearing" => f.todo = <<>>,
         Deploying(g) => g.pc = "required" /\ g.wait /\ g.todo = Requires[g.key],
         ~Deploying(g) => f.pc = "clearing" /\ g.key = f.key,
         Among(f.key, s[1].todo) => Among(f.key, f.todo) \/ (Deploying(g) /\ g.key = f.key)
  PROVE  StackOK(t)
<1>1. /\ Len(t) = Len(s) + 1 /\ t[1] = g /\ t[2] = f /\ Len(s) \in Nat /\ Len(s) >= 1
      /\ \A i \in 3..Len(t) : t[i] = s[i - 1]
  BY Pushed
<1>2. Deploying(f)
  BY DEF Deploying, DeployPcs
<1>3. Suspended(t)
  <2> SUFFICES ASSUME NEW i \in 2..Len(t) PROVE t[i].pc \in {"required", "clearing"}
    BY DEF Suspended
  <2>1. CASE i = 2
    BY <1>1, <2>1
  <2>2. CASE i # 2
    <3>1. i \in 3..Len(t) /\ i - 1 \in 2..Len(s)
      BY <1>1, <2>2
    <3> QED BY <1>1, <3>1 DEF StackOK, Suspended
  <2> QED BY <2>1, <2>2
<1>4. Provided(t)
  <2> SUFFICES ASSUME NEW i \in 1..Len(t), Deploying(t[i]), t[i].pc # "required"
               PROVE  t[i].todo = <<>>
    BY DEF Provided
  <2>1. CASE i \in {1, 2}
    BY <1>1, <2>1
  <2>2. CASE i \notin {1, 2}
    <3>1. i \in 3..Len(t) /\ i - 1 \in 1..Len(s)
      BY <1>1, <2>2
    <3> QED BY <1>1, <3>1 DEF StackOK, Provided
  <2> QED BY <2>1, <2>2
<1>5. Nested(t)
  <2> SUFFICES ASSUME NEW i \in 1..(Len(t) - 1)
               PROVE  \/ Deploying(t[i]) /\ t[i].wait
                      \/ i = 1 /\ ~Deploying(t[1]) /\ t[2].pc = "clearing" /\ t[2].key = t[1].key
    BY DEF Nested
  <2>1. CASE i = 1
    BY <1>1, <2>1
  <2>2. CASE i = 2
    <3>1. 1 \in 1..(Len(s) - 1)
      BY <1>1, <2>2
    <3>2. s[1].wait
      BY <3>1 DEF StackOK, Nested
    <3> QED BY <1>1, <1>2, <2>2, <3>2
  <2>3. CASE i \notin {1, 2}
    <3>1. i \in 3..Len(t) /\ i - 1 \in 1..(Len(s) - 1) /\ i - 1 # 1
      BY <1>1, <2>3
    <3>2. Deploying(s[i - 1]) /\ s[i - 1].wait
      BY <3>1 DEF StackOK, Nested
    <3> QED BY <1>1, <3>1, <3>2
  <2> QED BY <2>1, <2>2, <2>3
<1>6. Looping(t)
  <2> SUFFICES ASSUME NEW i \in 1..Len(t), Deploying(t[i]), Among(t[i].key, Requires[t[i].key])
               PROVE  \/ Among(t[i].key, t[i].todo)
                      \/ i >= 2 /\ Deploying(t[i - 1]) /\ t[i - 1].key = t[i].key
    BY DEF Looping
  <2>1. CASE i = 1
    BY <1>1, <2>1
  <2>2. CASE i = 2
    <3>1. Among(s[1].key, Requires[s[1].key])
      BY <1>1, <2>2
    <3>2. Among(s[1].key, s[1].todo)
      BY <1>1, <3>1 DEF StackOK, Looping
    <3> QED BY <1>1, <2>2, <3>2
  <2>3. CASE i \notin {1, 2}
    <3>1. i \in 3..Len(t) /\ i - 1 \in 1..Len(s) /\ t[i] = s[i - 1]
      BY <1>1, <2>3
    <3>2. \/ Among(s[i - 1].key, s[i - 1].todo)
          \/ Deploying(s[i - 2]) /\ s[i - 2].key = s[i - 1].key
      <4>1. (i - 1) - 1 = i - 2
        BY <3>1
      <4> QED BY <3>1, <4>1 DEF StackOK, Looping
    <3>3. CASE i = 3
      BY <1>1, <1>2, <3>1, <3>2, <3>3
    <3>4. CASE i # 3
      <4>1. i - 1 \in 3..Len(t) /\ (i - 1) - 1 = i - 2
        BY <1>1, <3>1, <3>4
      <4>2. t[i - 1] = s[i - 2]
        BY <1>1, <4>1
      <4> QED BY <1>1, <3>1, <3>2, <4>2
    <3> QED BY <3>3, <3>4
  <2> QED BY <2>1, <2>2, <2>3
<1> QED BY <1>3, <1>4, <1>5, <1>6 DEF StackOK

\* A frame that returns has been provided for: it is not of a model that requires itself.
LEMMA ReturnKeepsStack ==
  ASSUME NEW s \in Seq(TypedFrame), StackOK(s), NEW t, Returns(s, t)
  PROVE  StackOK(t)
<1>1. s # <<>> /\ t = Tail(s) /\ (s[1].pc = "required" => s[1].todo = <<>>)
  BY DEF Returns
<1>2. /\ Len(t) = Len(s) - 1 /\ Len(s) \in Nat /\ Len(s) >= 1
      /\ \A i \in 1..Len(t) : t[i] = s[i + 1]
  BY <1>1, Popped
<1>3. ASSUME NEW i \in 1..Len(t)
      PROVE  i + 1 \in 1..Len(s) /\ i + 1 \in 2..Len(s) /\ t[i] = s[i + 1] /\ (i + 1) - 1 = i
  BY <1>2
<1>4. Suspended(t)
  <2> SUFFICES ASSUME NEW i \in 2..Len(t) PROVE t[i].pc \in {"required", "clearing"}
    BY DEF Suspended
  <2>1. i + 1 \in 2..Len(s) /\ t[i] = s[i + 1]
    BY <1>2
  <2> QED BY <2>1 DEF StackOK, Suspended
<1>5. Provided(t)
  BY <1>3 DEF StackOK, Provided
<1>6. Nested(t)
  <2> SUFFICES ASSUME NEW i \in 1..(Len(t) - 1) PROVE Deploying(t[i]) /\ t[i].wait
    BY DEF Nested
  <2>1. i + 1 \in 1..(Len(s) - 1) /\ i + 1 # 1 /\ t[i] = s[i + 1]
    BY <1>2
  <2> QED BY <2>1 DEF StackOK, Nested
<1>7. Looping(t)
  <2> SUFFICES ASSUME NEW i \in 1..Len(t), Deploying(t[i]), Among(t[i].key, Requires[t[i].key])
               PROVE  \/ Among(t[i].key, t[i].todo)
                      \/ i >= 2 /\ Deploying(t[i - 1]) /\ t[i - 1].key = t[i].key
    BY DEF Looping
  <2>1. i + 1 \in 1..Len(s) /\ t[i] = s[i + 1] /\ (i + 1) - 1 = i
    BY <1>3
  <2>2. Among(t[i].key, t[i].todo) \/ (Deploying(s[i]) /\ s[i].key = t[i].key)
    BY <2>1 DEF StackOK, Looping
  <2>3. CASE i = 1 /\ Deploying(s[1]) /\ s[1].key = t[1].key
    <3>1. Among(s[1].key, s[1].todo)
      <4>1. Among(s[1].key, Requires[s[1].key])
        BY <2>3
      <4> QED BY <1>2, <2>3, <4>1 DEF StackOK, Looping
    <3>2. s[1].todo = <<>>
      BY <1>1, <1>2, <2>3 DEF StackOK, Provided
    <3> QED BY <3>1, <3>2 DEF Among
  <2>4. CASE i # 1
    <3>1. i - 1 \in 1..Len(t) /\ (i - 1) + 1 = i /\ i >= 2
      BY <1>2, <2>4
    <3>2. t[i - 1] = s[i]
      BY <1>2, <3>1
    <3> QED BY <2>2, <3>1, <3>2
  <2> QED BY <2>2, <2>3, <2>4
<1> QED BY <1>4, <1>5, <1>6, <1>7 DEF StackOK

LEMMA MovesKeepStack ==
  ASSUME NEW s \in Seq(TypedFrame), StackOK(s), NEW t, Moves(s, t)
  PROVE  StackOK(t)
<1>1. CASE Descends(s, t)
  <2>1. s # <<>> /\ s[1].pc = "required" /\ s[1].todo # <<>>
    BY <1>1 DEF Descends
  <2>2. PICK f \in TypedFrame, g \in TypedFrame :
          /\ t = <<g, f>> \o Tail(s)
          /\ f.key = s[1].key /\ f.wait = s[1].wait /\ f.todo = Tail(s[1].todo) /\ f.pc = "required"
          /\ g.key = Head(s[1].todo) /\ g.wait /\ g.todo = Requires[g.key] /\ g.pc = "required"
    BY <1>1 DEF Descends
  <2>3. Deploying(s[1]) /\ Deploying(g)
    BY <2>1, <2>2 DEF Deploying, DeployPcs
  <2>4. Among(f.key, s[1].todo) => Among(f.key, f.todo) \/ g.key = f.key
    <3>1. s[1] \in TypedFrame
      BY <2>1, TopIsFirst
    <3>2. s[1].todo \in Seq(Keys)
      BY <3>1, TypedIsOK DEF Frame
    <3> SUFFICES ASSUME NEW n \in DOMAIN s[1].todo, s[1].todo[n] = f.key, g.key # f.key
                 PROVE  Among(f.key, Tail(s[1].todo))
      BY <2>2 DEF Among
    <3>3. n # 1 /\ n \in 1..Len(s[1].todo)
      BY <2>1, <2>2, <3>2
    <3>4. n - 1 \in DOMAIN Tail(s[1].todo) /\ Tail(s[1].todo)[n - 1] = s[1].todo[n]
      BY <2>1, <3>2, <3>3
    <3> QED BY <3>4 DEF Among
  <2> QED BY <2>1, <2>2, <2>3, <2>4, PushKeepsStack
<1>2. CASE Clears(s, t)
  <2>1. s # <<>> /\ s[1].pc = "clear"
    BY <1>2 DEF Clears
  <2>2. PICK f \in TypedFrame, g \in TypedFrame :
          /\ t = <<g, f>> \o Tail(s)
          /\ f.key = s[1].key /\ f.wait = s[1].wait /\ f.todo = s[1].todo /\ f.pc = "clearing"
          /\ g.key = s[1].key /\ g.pc = "undeploy"
    BY <1>2 DEF Clears
  <2>3. Deploying(s[1]) /\ ~Deploying(g)
    BY <2>1, <2>2 DEF Deploying, DeployPcs
  <2>4. s[1].todo = <<>>
    <3>1. Len(s) >= 1 /\ Len(s) \in Nat
      BY <2>1, TopIsFirst
    <3> QED BY <2>1, <2>3, <3>1 DEF StackOK, Provided
  <2> QED BY <2>1, <2>2, <2>3, <2>4, PushKeepsStack
<1>3. CASE Begins(s, t)
  <2>1. PICK f \in TypedFrame :
          t = <<f>> /\ (Deploying(f) => f.pc = "required" /\ f.todo = Requires[f.key])
    BY <1>3 DEF Begins
  <2>2. Len(t) = 1 /\ t[1] = f
    BY <2>1
  <2> QED BY <2>1, <2>2 DEF StackOK, Suspended, Provided, Nested, Looping
<1>4. CASE t = <<>>
  BY <1>4 DEF StackOK, Suspended, Provided, Nested, Looping
<1> QED BY <1>1, <1>2, <1>3, <1>4, TurnKeepsStack, ReturnKeepsStack DEF Moves

LEMMA StepKeepsStacks ==
  ASSUME ServeAssumption, EntryAssumption, TypeInv, StackInv, [Next]_vars
  PROVE  StackInv'
<1>1. CASE call' = call
  BY <1>1 DEF StackInv
<1>2. ASSUME NEW c \in Callers,
             Start(c) \/ Deploy(c) \/ Undeploy(c) \/ TimeOut(c) \/ CallFails(c)
      PROVE  StackInv'
  <2>1. Others(c) /\ Moves(call[c], call'[c])
    BY <1>2, CallerMoves
  <2>2. call[c] \in Seq(TypedFrame) /\ StackOK(call[c])
    BY DEF TypeInv, CallsTyped, StackInv
  <2>3. StackOK(call'[c])
    BY <2>1, <2>2, MovesKeepStack
  <2>4. ASSUME NEW d \in Callers, d # c PROVE StackOK(call'[d])
    BY <2>1, <2>4 DEF Others, StackInv
  <2> QED BY <2>3, <2>4 DEF StackInv
<1>3. CASE UNCHANGED vars
  BY <1>1, <1>3 DEF vars
<1>4. CASE ObserveDeployments \/ ObserverFails \/ Serve \/ ServeLoses \/ Change
  <2>1. call' = call
    BY <1>4, PollerTyped, ServeTyped, LosesTyped, ChangeTyped
  <2> QED BY <1>1, <2>1
<1> QED BY <1>2, <1>3, <1>4 DEF Next

LEMMA InitStacks ==
  ASSUME Init
  PROVE  StackInv
BY DEF Init, StackInv, StackOK, Suspended, Provided, Nested, Looping

-----------------------------------------------------------------------------
(* Calls that do not overlap *)

Deployed(k) == DeployedConfig(apps[k]) # Nothing
Recorded(k, spec) == records[k] # Nothing /\ records[k].spec = spec

Alone == \A c, d \in Callers : call[c] # <<>> /\ call[d] # <<>> => c = d

\* What a call has listed is what Serve has, but for what went since, and is recorded.
ListHolds(c) ==
  At(c, "put") \/ At(c, "put rest") =>
    /\ \A k \in Keys : apps[k] # Nothing => Top(c).seen[k] = DeployedConfig(apps[k])
    /\ \A k \in Keys \ interrupted : Top(c).seen[k] # Nothing => Recorded(k, Top(c).seen[k])

\* What a call has found of its own application still stands.
OwnHolds(c) ==
  /\ At(c, "check") => App(c) = Nothing \/ App(c).status # "DELETING"
  /\ At(c, "list") \/ At(c, "put") =>
       App(c) = Nothing \/ (App(c).status # "DELETING" /\ App(c).config # Top(c).spec)
  /\ At(c, "observe") \/ At(c, "save") => DeployedConfig(App(c)) \in {Nothing, Top(c).spec}
  /\ At(c, "forget") => DeployedConfig(App(c)) = Nothing

Saving(c, k) == (At(c, "observe") \/ At(c, "save")) /\ Top(c).key = k

\* An application is recorded with its spec, is about to be, or was left by a call cut short.
AppsHold ==
  \A k \in Keys \ interrupted :
    Deployed(k) => Recorded(k, apps[k].config) \/ \E c \in Callers : Saving(c, k)

CallInv ==
  ~overlapped =>
    /\ Alone
    /\ \A c \in Callers : ListHolds(c) /\ OwnHolds(c)
    /\ AppsHold

\* Idle callers hold nothing.
LEMMA IdleHolds ==
  ASSUME NEW c \in Callers, call[c] = <<>>
  PROVE  ListHolds(c) /\ OwnHolds(c) /\ \A k : ~Saving(c, k)
BY DEF ListHolds, OwnHolds, Saving, At

\* What fades breaks nothing, nor does an observation.
LEMMA FadingKeeps ==
  ASSUME TypeInv, CallInv, AppsFade, RecordsKept, UNCHANGED <<call, interrupted, overlapped>>
  PROVE  CallInv'
<1> SUFFICES ASSUME ~overlapped, Alone, \A c \in Callers : ListHolds(c) /\ OwnHolds(c), AppsHold
             PROVE  Alone' /\ (\A c \in Callers : (ListHolds(c) /\ OwnHolds(c))') /\ AppsHold'
  BY DEF CallInv
<1>1. Alone'
  BY DEF Alone
<1>2. \A k \in Keys : DeployedConfig(apps'[k]) \in {Nothing, DeployedConfig(apps[k])}
  BY DEF AppsFade, DeployedConfig
<1>3. \A k \in Keys : apps'[k] # Nothing => apps[k] # Nothing /\ DeployedConfig(apps'[k]) = DeployedConfig(apps[k])
  BY DEF AppsFade, DeployedConfig
<1>4. \A k \in Keys : \A spec : Recorded(k, spec) => Recorded(k, spec)'
  BY DEF RecordsKept, Recorded
<1>5. ASSUME NEW c \in Callers PROVE ListHolds(c)' /\ OwnHolds(c)'
  <2>1. CASE call[c] = <<>>
    BY <2>1 DEF ListHolds, OwnHolds, At
  <2>2. CASE call[c] # <<>>
    <3>1. Top(c)' = Top(c) /\ (\A pc : At(c, pc)' <=> At(c, pc)) /\ Top(c).key \in Keys
      BY <2>2, TopTyped DEF Top, At, TypeInv, Frame
    <3>2. ListHolds(c)'
      BY <1>3, <1>4, <3>1 DEF ListHolds
    <3>3. /\ App(c)' = Nothing \/ (App(c) # Nothing /\ App(c)'.config = App(c).config
                                     /\ (App(c)'.status = "DELETING" <=> App(c).status = "DELETING"))
          /\ DeployedConfig(App(c)') \in {Nothing, DeployedConfig(App(c))}
      BY <1>2, <3>1 DEF App, AppsFade
    <3>4. OwnHolds(c)'
      BY <3>1, <3>3 DEF OwnHolds
    <3> QED BY <3>2, <3>4
  <2> QED BY <2>1, <2>2
<1>6. AppsHold'
  <2> SUFFICES ASSUME NEW k \in Keys \ interrupted, Deployed(k)'
               PROVE  Recorded(k, apps[k].config)' \/ \E c \in Callers : Saving(c, k)'
    BY DEF AppsHold
  <2>1. Deployed(k) /\ apps'[k].config = apps[k].config
    BY <1>2 DEF Deployed, AppsFade, DeployedConfig
  <2>2. CASE Recorded(k, apps[k].config)
    BY <1>4, <2>1, <2>2
  <2>3. ASSUME NEW c \in Callers, Saving(c, k) PROVE Saving(c, k)'
    BY <2>3 DEF Saving, At, Top
  <2> QED BY <2>1, <2>2, <2>3 DEF AppsHold
<1> QED BY <1>1, <1>5, <1>6

\* What Serve takes is deployed with the spec it was given.
LEMMA AcceptedHasSpec ==
  ASSUME EntryAssumption, ServeAssumption, TypeInv, NEW k \in Keys, NEW spec \in Specs
  PROVE  /\ Accepted(apps[k], spec) # Nothing /\ Accepted(apps[k], spec).config = spec
         /\ Accepted(apps[k], spec).status = "DEPLOYING"
         /\ DeployedConfig(Accepted(apps[k], spec)) = spec
<1>1. Accepted(apps[k], spec) \in Application /\ Accepted(apps[k], spec).config = spec
      /\ Accepted(apps[k], spec).status = "DEPLOYING"
  <2>1. CASE apps[k] # Nothing /\ apps[k].config = spec
    <3>1. apps[k] \in Application
      BY <2>1 DEF TypeInv, TablesTyped
    <3>2. [apps[k] EXCEPT !.status = "DEPLOYING"] \in Application
          /\ [apps[k] EXCEPT !.status = "DEPLOYING"].config = apps[k].config
          /\ [apps[k] EXCEPT !.status = "DEPLOYING"].status = "DEPLOYING"
      BY <3>1 DEF Application, Statuses
    <3>3. Accepted(apps[k], spec) = [apps[k] EXCEPT !.status = "DEPLOYING"]
      BY <2>1 DEF Accepted
    <3> QED BY <2>1, <3>2, <3>3
  <2>2. CASE ~(apps[k] # Nothing /\ apps[k].config = spec)
    BY <2>2 DEF Accepted, Application, Statuses
  <2> QED BY <2>1, <2>2
<1>2. Accepted(apps[k], spec) # Nothing
  BY <1>1 DEF EntryAssumption
<1> QED BY <1>1, <1>2 DEF DeployedConfig

\* A PUT of what was listed, but for the caller's own application, changes no other: it
\* neither takes one down nor changes its spec (lifecycle.py:384-391, 451-456).
LEMMA PutKeeps ==
  ASSUME ServeAssumption, EntryAssumption, TypeInv, CallInv, ~overlapped, NEW c \in Callers,
         At(c, "put") \/ At(c, "put rest"), NEW x \in Specs \cup {Nothing},
         PutApplications([Top(c).seen EXCEPT ![Top(c).key] = x])
  PROVE  /\ DeployedConfig(apps'[Top(c).key]) = x
         /\ x = Nothing /\ apps'[Top(c).key] # Nothing =>
              apps[Top(c).key] # Nothing /\ apps'[Top(c).key].config = apps[Top(c).key].config
         /\ x # Nothing => apps'[Top(c).key].status = "DEPLOYING"
         /\ \A k \in Keys \ {Top(c).key} :
              /\ Deployed(k) => Deployed(k)'
              /\ Deployed(k)' /\ k \notin interrupted => Recorded(k, apps'[k].config)
              /\ apps[k] # Nothing /\ apps'[k] # Nothing =>
                   /\ apps'[k].config = apps[k].config
                   /\ apps'[k].status = "DELETING" => apps[k].status = "DELETING"
<1> DEFINE seen == Top(c).seen
           key == Top(c).key
           specs == [seen EXCEPT ![key] = x]
<1>1. seen \in Listing /\ key \in Keys
  BY PutsListing
<1>2. ListHolds(c)
  BY DEF CallInv
<1>3. apps \in [Keys -> Application \cup {Nothing}]
  BY DEF TypeInv, TablesTyped
<1>4. specs[key] = x /\ \A k \in Keys \ {key} : specs[k] = seen[k] /\ seen[k] \in Specs \cup {Nothing}
  BY <1>1 DEF Listing
<1>5. ASSUME NEW k \in Keys
      PROVE  apps'[k] = IF specs[k] # Nothing THEN Accepted(apps[k], specs[k])
                        ELSE IF apps[k] = Nothing THEN Nothing
                        ELSE [apps[k] EXCEPT !.status = "DELETING"]
  BY DEF PutApplications
<1>6. /\ \A k \in Keys : apps[k] # Nothing => seen[k] = DeployedConfig(apps[k])
      /\ \A k \in Keys \ interrupted : seen[k] # Nothing => Recorded(k, seen[k])
  BY <1>2 DEF ListHolds
<1> HIDE DEF specs
<1>7. ASSUME NEW k \in Keys, specs[k] = Nothing
      PROVE  /\ DeployedConfig(apps'[k]) = Nothing
             /\ apps'[k] # Nothing => apps[k] # Nothing /\ apps'[k].config = apps[k].config
  <2>1. CASE apps[k] = Nothing
    BY <1>5, <1>7, <2>1 DEF DeployedConfig
  <2>2. CASE apps[k] # Nothing
    <3>1. apps'[k] = [apps[k] EXCEPT !.status = "DELETING"] /\ apps[k] \in Application
      BY <1>3, <1>5, <1>7, <2>2
    <3>2. apps'[k].status = "DELETING" /\ apps'[k].config = apps[k].config
      BY <3>1 DEF Application
    <3> QED BY <2>2, <3>2 DEF DeployedConfig
  <2> QED BY <2>1, <2>2
<1>8. ASSUME NEW k \in Keys, NEW spec \in Specs, specs[k] = spec
      PROVE  /\ apps'[k].config = spec /\ apps'[k].status = "DEPLOYING"
             /\ DeployedConfig(apps'[k]) = spec /\ spec # Nothing
  <2>1. spec # Nothing
    BY DEF ServeAssumption
  <2>2. apps'[k] = Accepted(apps[k], spec)
    BY <1>5, <1>8, <2>1
  <2>3. /\ Accepted(apps[k], spec).config = spec /\ Accepted(apps[k], spec).status = "DEPLOYING"
        /\ DeployedConfig(Accepted(apps[k], spec)) = spec
    BY AcceptedHasSpec
  <2> QED BY <2>1, <2>2, <2>3
<1>9. ASSUME NEW k \in Keys \ {key}
      PROVE  /\ Deployed(k) => Deployed(k)'
             /\ Deployed(k)' /\ k \notin interrupted => Recorded(k, apps'[k].config)
             /\ apps[k] # Nothing /\ apps'[k] # Nothing =>
                  /\ apps'[k].config = apps[k].config
                  /\ apps'[k].status = "DELETING" => apps[k].status = "DELETING"
  <2>1. specs[k] = seen[k] /\ seen[k] \in Specs \cup {Nothing}
    BY <1>4
  <2>2. CASE seen[k] # Nothing
    <3>1. /\ apps'[k].config = seen[k] /\ apps'[k].status = "DEPLOYING"
          /\ DeployedConfig(apps'[k]) = seen[k]
      BY <1>8, <2>1, <2>2
    <3>2. apps[k] # Nothing => apps[k].config = seen[k]
      BY <1>6, <2>2 DEF DeployedConfig
    <3>3. k \notin interrupted => Recorded(k, seen[k])
      BY <1>6, <2>2
    <3> QED BY <2>2, <3>1, <3>2, <3>3 DEF Deployed
  <2>3. CASE seen[k] = Nothing
    <3>1. /\ DeployedConfig(apps'[k]) = Nothing
          /\ apps'[k] # Nothing => apps[k] # Nothing /\ apps'[k].config = apps[k].config
      BY <1>7, <2>1, <2>3
    <3>2. ASSUME apps[k] # Nothing PROVE apps[k].status = "DELETING"
      <4>1. apps[k].config \in Specs
        BY <1>3, <3>2 DEF Application
      <4> QED BY <1>6, <2>3, <3>2, <4>1 DEF DeployedConfig, ServeAssumption
    <3>3. DeployedConfig(apps[k]) = Nothing
      BY <3>2 DEF DeployedConfig
    <3> QED BY <3>1, <3>2, <3>3 DEF Deployed
  <2> QED BY <2>2, <2>3
<1>10. CASE x = Nothing
  BY <1>1, <1>4, <1>7, <1>9, <1>10
<1>11. CASE x # Nothing
  BY <1>1, <1>4, <1>8, <1>9, <1>11
<1> QED BY <1>10, <1>11

\* When one call is under way, the others hold nothing, and what is not its own is recorded.
LEMMA OneCall ==
  ASSUME CallInv, ~overlapped, NEW c \in Callers, call[c] # <<>>
  PROVE  /\ \A d \in Callers \ {c} : call[d] = <<>>
         /\ ListHolds(c) /\ OwnHolds(c)
         /\ \A k \in Keys \ interrupted : Deployed(k) => Recorded(k, apps[k].config) \/ Saving(c, k)
<1>1. \A d \in Callers \ {c} : call[d] = <<>>
  BY DEF CallInv, Alone
<1>2. \A k \in Keys, d \in Callers : Saving(d, k) => d = c
  BY <1>1 DEF Saving, At
<1> QED BY <1>1, <1>2 DEF CallInv, AppsHold

\* What is to be shown of a step of the one call under way.
LEMMA OneCallKeeps ==
  ASSUME CallInv, NEW c \in Callers, call[c] # <<>>, Others(c), overlapped' = overlapped,
         ~overlapped => /\ ListHolds(c)' /\ OwnHolds(c)'
                        /\ \A k \in Keys \ interrupted' :
                             Deployed(k)' => Recorded(k, apps[k].config)' \/ Saving(c, k)'
  PROVE  CallInv'
<1> SUFFICES ASSUME ~overlapped
             PROVE  Alone' /\ (\A d \in Callers : ListHolds(d)' /\ OwnHolds(d)') /\ AppsHold'
  BY DEF CallInv
<1>1. \A d \in Callers \ {c} : call[d] = <<>> /\ call'[d] = <<>>
  BY OneCall DEF Others
<1>2. Alone'
  BY <1>1 DEF Alone
<1>3. ASSUME NEW d \in Callers PROVE ListHolds(d)' /\ OwnHolds(d)'
  <2>1. CASE d # c
    BY <1>1, <2>1 DEF ListHolds, OwnHolds, At
  <2> QED BY <2>1
<1>4. AppsHold'
  BY DEF AppsHold
<1> QED BY <1>2, <1>3, <1>4

\* At other steps a call holds nothing.
LEMMA FreeHolds ==
  ASSUME NEW c \in Callers,
         call'[c] = <<>> \/ Top(c)'.pc \notin {"put", "put rest", "check", "list", "observe", "save", "forget"}
  PROVE  ListHolds(c)' /\ OwnHolds(c)'
BY DEF ListHolds, OwnHolds, At

\* Under a frame that returns there is one that waits.
LEMMA ReturnFrees ==
  ASSUME TypeInv, StackInv, NEW c \in Callers, call[c] # <<>>, Return(c)
  PROVE  Others(c) /\ ListHolds(c)' /\ OwnHolds(c)'
<1>1. Others(c) /\ (call'[c] # <<>> => Len(call[c]) >= 2 /\ Top(c)' = call[c][2])
  BY ReturnPops DEF TypeInv
<1>2. Len(call[c]) \in Nat
  BY TopTyped DEF TypeInv
<1>3. ASSUME call'[c] # <<>> PROVE Top(c)'.pc \in {"required", "clearing"}
  <2>1. Len(call[c]) >= 2 /\ Top(c)' = call[c][2]
    BY <1>1, <1>3
  <2>2. call[c][2].pc \in {"required", "clearing"}
    BY <1>2, <2>1 DEF StackInv, StackOK, Suspended
  <2> QED BY <2>1, <2>2
<1> QED BY <1>1, <1>3, FreeHolds

\* A quiet step that neither lists nor finds anything.
LEMMA QuietKeeps ==
  ASSUME TypeInv, CallInv, NEW c \in Callers, call[c] # <<>>, OnlyCall, Others(c),
         ~overlapped => ListHolds(c)' /\ OwnHolds(c)',
         Top(c).pc \in {"observe", "save"} =>
           call'[c] # <<>> /\ Top(c)'.pc \in {"observe", "save"} /\ Top(c)'.key = Top(c).key
  PROVE  CallInv'
<1>1. UNCHANGED <<apps, records, interrupted, overlapped>>
  BY DEF OnlyCall, ghostVars
<1>2. ASSUME ~overlapped, NEW k \in Keys \ interrupted', Deployed(k)'
      PROVE  Recorded(k, apps[k].config)' \/ Saving(c, k)'
  <2>1. Recorded(k, apps[k].config) \/ Saving(c, k)
    BY <1>1, <1>2, OneCall DEF Deployed
  <2>2. CASE Recorded(k, apps[k].config)
    BY <1>1, <2>2 DEF Recorded
  <2>3. CASE Saving(c, k)
    BY <2>3 DEF Saving, At
  <2> QED BY <2>1, <2>2, <2>3
<1> QED BY <1>1, <1>2, OneCallKeeps

LEMMA QuietStepKeeps ==
  ASSUME ServeAssumption, EntryAssumption, TypeInv, StackInv, CallInv, NEW c \in Callers, Quiet(c)
  PROVE  CallInv'
<1> USE DEF TypeInv
<1>1. OnlyCall /\ UNCHANGED <<apps, records, interrupted, overlapped>>
  BY QuietIsQuiet DEF OnlyCall, ghostVars
<1>2. call[c] # <<>>
  BY DEF Quiet, DeployRequired, ReturnFromRecord, HasRequired, PassRecord, Clear, Cleared, Check,
         List, Observe, SeeRunning, SeeFailed, UndeployList, TimeOut, At
<1>3. /\ Top(c) \in Frame /\ FrameOK(Top(c)) /\ Top(c).key \in Keys
  BY <1>2, TopTyped DEF Frame
<1>4. ~overlapped => ListHolds(c) /\ OwnHolds(c)
  BY <1>2, OneCall
<1>5. ASSUME Others(c), call'[c] = <<>> \/ Top(c)'.pc \in {"required", "clear", "clearing", "undeploy",
                                                         "wait", "wait on record", "observe again", "patch"},
             Top(c).pc \notin {"observe", "save"}
      PROVE  CallInv'
  BY <1>1, <1>2, <1>5, FreeHolds, QuietKeeps
<1>6. ASSUME Return(c), Top(c).pc \notin {"observe", "save"} PROVE CallInv'
  BY <1>1, <1>2, <1>6, ReturnFrees, QuietKeeps
<1>7. CASE DeployRequired(c)
  <2>1. Top(c).pc = "required"
    BY <1>7 DEF DeployRequired, At
  <2> QED BY <1>5, <1>7, <2>1, DeployRequiredMoves
<1>8. CASE PassRecord(c)
  <2>1. Top(c).pc = "required"
    BY <1>8 DEF PassRecord, HasRequired, At
  <2> QED BY <1>5, <1>8, <2>1, PassRecordMoves
<1>9. CASE TimeOut(c) \/ SeeFailed(c)
  <2>1. Top(c).pc \in {"clearing", "wait", "wait on record"} /\ Raise(c)
    BY <1>9 DEF TimeOut, SeeFailed, At
  <2> QED BY <1>5, <2>1, RaiseEnds
<1>10. CASE ReturnFromRecord(c)
  <2>1. Top(c).pc = "required" /\ Top(c).todo = <<>>
    BY <1>10 DEF ReturnFromRecord, HasRequired, At
  <2>2. CASE Go(c, "wait on record")
    <3>1. Others(c) /\ Top(c)'.pc = "wait on record"
      BY <1>2, <2>1, <2>2, GoTurns DEF DeployPcs, UndeployPcs, Untyped
    <3> QED BY <1>5, <2>1, <3>1
  <2>3. CASE Return(c)
    BY <1>6, <2>1, <2>3
  <2> QED BY <1>10, <2>2, <2>3 DEF ReturnFromRecord
<1>11. CASE SeeRunning(c)
  <2>1. Top(c).pc \in {"wait", "wait on record"}
    BY <1>11 DEF SeeRunning, At
  <2>2. CASE Go(c, "observe again")
    <3>1. Others(c) /\ Top(c)'.pc = "observe again"
      BY <1>2, <2>1, <2>2, GoTurns DEF DeployPcs, UndeployPcs, Untyped
    <3> QED BY <1>5, <2>1, <3>1
  <2>3. CASE Return(c)
    BY <1>6, <2>1, <2>3
  <2> QED BY <1>11, <2>2, <2>3 DEF SeeRunning
<1>12. ASSUME NEW pc \in (DeployPcs \cup UndeployPcs) \ ({"required"} \cup Untyped),
              pc \in DeployPcs <=> Top(c).pc \in DeployPcs, Top(c).pc # "required", Go(c, pc)
       PROVE  /\ Others(c) /\ call'[c] # <<>> /\ Top(c)'.pc = pc /\ Top(c)'.key = Top(c).key
              /\ Top(c)'.spec = Top(c).spec /\ App(c)' = App(c)
              /\ \A p : At(c, p)' <=> p = pc
  <2>1. /\ Others(c) /\ call'[c] # <<>> /\ Top(c)'.pc = pc /\ Top(c)'.key = Top(c).key
        /\ Top(c)'.spec = Top(c).spec
    BY <1>2, <1>12, GoTurns
  <2> QED BY <1>1, <2>1 DEF App, At
<1>13. CASE Clear(c) \/ Cleared(c)
  <2>1. Top(c).pc \in {"clear", "clearing"}
    BY <1>13 DEF Clear, Cleared, At
  <2>2. CASE Go(c, "clearing")
    <3>1. Others(c) /\ Top(c)'.pc = "clearing"
      BY <1>12, <2>1, <2>2 DEF DeployPcs, UndeployPcs, Untyped
    <3> QED BY <1>5, <2>1, <3>1
  <2>3. CASE /\ At(c, "clear")
             /\ call' = [call EXCEPT ![c] = <<UndeployFrame(Top(c).key),
                                             [Top(c) EXCEPT !.pc = "clearing"]>> \o Tail(@)]
    <3>1. Others(c) /\ Top(c)'.pc = "undeploy"
      BY <2>3, ClearMoves
    <3> QED BY <1>5, <2>1, <3>1
  <2>4. CASE Go(c, "check") /\ (App(c) = Nothing \/ PhaseOf(App(c)) # "deleting")
    <3>1. /\ Others(c) /\ App(c)' = App(c) /\ \A p : At(c, p)' <=> p = "check"
      BY <1>12, <2>1, <2>4 DEF DeployPcs, UndeployPcs, Untyped
    <3>2. App(c) = Nothing \/ App(c).status # "DELETING"
      BY <2>4 DEF PhaseOf, PhaseOfStatus
    <3>3. ListHolds(c)' /\ OwnHolds(c)'
      BY <3>1, <3>2 DEF ListHolds, OwnHolds
    <3> QED BY <1>1, <1>2, <2>1, <3>1, <3>3, QuietKeeps
  <2>5. CASE Cleared(c)
    BY <2>4, <2>5 DEF Cleared
  <2>6. CASE Clear(c)
    BY <2>2, <2>3, <2>4, <2>6 DEF Clear
  <2> QED BY <1>13, <2>5, <2>6
<1>14. CASE Check(c)
  <2>1. Top(c).pc = "check" /\ At(c, "check")
    BY <1>14 DEF Check, At
  <2>2. CASE DeployedConfig(App(c)) = Top(c).spec
    <3>1. Go(c, "observe")
      BY <1>14, <2>2 DEF Check
    <3>2. /\ Others(c) /\ App(c)' = App(c) /\ Top(c)'.spec = Top(c).spec
          /\ \A p : At(c, p)' <=> p = "observe"
      BY <1>12, <2>1, <3>1 DEF DeployPcs, UndeployPcs, Untyped
    <3>3. ListHolds(c)' /\ OwnHolds(c)'
      BY <2>2, <3>2 DEF ListHolds, OwnHolds
    <3> QED BY <1>1, <1>2, <2>1, <3>2, <3>3, QuietKeeps
  <2>3. CASE DeployedConfig(App(c)) # Top(c).spec
    <3>1. Go(c, "list")
      BY <1>14, <2>3 DEF Check
    <3>2. /\ Others(c) /\ App(c)' = App(c) /\ Top(c)'.spec = Top(c).spec
          /\ \A p : At(c, p)' <=> p = "list"
      BY <1>12, <2>1, <3>1 DEF DeployPcs, UndeployPcs, Untyped
    <3>3. ~overlapped => App(c) = Nothing \/ (App(c).status # "DELETING" /\ App(c).config # Top(c).spec)
      BY <1>4, <2>1, <2>3 DEF OwnHolds, DeployedConfig
    <3>4. ~overlapped => ListHolds(c)' /\ OwnHolds(c)'
      BY <3>2, <3>3 DEF ListHolds, OwnHolds
    <3> QED BY <1>1, <1>2, <2>1, <3>2, <3>4, QuietKeeps
  <2> QED BY <2>2, <2>3
<1>15. CASE List(c) \/ UndeployList(c)
  <2>1. Top(c).pc \in {"list", "undeploy"}
    BY <1>15 DEF List, UndeployList, At
  <2>2. PICK pc \in {"put", "put rest"} :
          /\ Hold(c, pc, CurrentSpecs)
          /\ pc = "put" <=> Top(c).pc = "list"
    BY <1>15, <2>1 DEF List, UndeployList, At
  <2>3. CurrentSpecs \in Listing
    BY ReadsTyped
  <2>4. /\ Others(c) /\ call'[c] # <<>> /\ Top(c)'.pc = pc /\ Top(c)'.key = Top(c).key
        /\ Top(c)'.spec = Top(c).spec /\ Top(c)'.seen = CurrentSpecs
    <3>1. pc \in (DeployPcs \cup UndeployPcs) \ {"required"} /\ (pc \in DeployPcs <=> Top(c).pc \in DeployPcs)
      BY <2>1, <2>2 DEF DeployPcs, UndeployPcs
    <3> QED BY <1>2, <2>1, <2>2, <2>3, <3>1, HoldTurns
  <2>5. App(c)' = App(c) /\ \A p : At(c, p)' <=> p = pc
    BY <1>1, <2>4 DEF App, At
  <2>6. \A k \in Keys : CurrentSpecs[k] = DeployedConfig(apps[k])
    BY DEF CurrentSpecs
  <2>7. ASSUME ~overlapped PROVE ListHolds(c)'
    <3>1. ASSUME NEW k \in Keys \ interrupted, CurrentSpecs[k] # Nothing
          PROVE  Recorded(k, CurrentSpecs[k])
      <4>1. ~Saving(c, k)
        BY <2>1 DEF Saving, At
      <4>2. Recorded(k, apps[k].config)
        BY <1>2, <2>6, <2>7, <3>1, <4>1, OneCall DEF Deployed
      <4>3. CurrentSpecs[k] = apps[k].config
        BY <2>6, <3>1 DEF DeployedConfig
      <4> QED BY <4>2, <4>3
    <3> QED BY <1>1, <2>4, <2>6, <3>1 DEF ListHolds, Recorded
  <2>8. ASSUME ~overlapped PROVE OwnHolds(c)'
    <3>1. pc = "put" => At(c, "list")
      BY <1>2, <2>2 DEF At
    <3> QED BY <1>4, <2>2, <2>4, <2>5, <2>8, <3>1 DEF OwnHolds
  <2> QED BY <1>1, <1>2, <2>1, <2>4, <2>7, <2>8, QuietKeeps
<1>16. CASE Observe(c)
  <2>1. PhaseForDeployer(App(c)) \in Phases \ {"not_deployed"}
    BY <1>3, ReadsTyped DEF App
  <2>2. CASE At(c, "observe") /\ Hold(c, "save", PhaseForDeployer(App(c)))
    <3>1. Top(c).pc = "observe"
      BY <2>2 DEF At
    <3>2. /\ Others(c) /\ call'[c] # <<>> /\ Top(c)'.pc = "save" /\ Top(c)'.key = Top(c).key
          /\ Top(c)'.spec = Top(c).spec
      BY <1>2, <2>1, <2>2, <3>1, HoldTurns DEF DeployPcs, UndeployPcs
    <3>3. App(c)' = App(c) /\ \A p : At(c, p)' <=> p = "save"
      BY <1>1, <3>2 DEF App, At
    <3>4. ~overlapped => ListHolds(c)' /\ OwnHolds(c)'
      BY <1>4, <2>2, <3>2, <3>3 DEF ListHolds, OwnHolds
    <3> QED BY <1>1, <1>2, <3>2, <3>4, QuietKeeps
  <2>3. CASE At(c, "observe again") /\ Hold(c, "patch", PhaseForDeployer(App(c)))
    <3>1. Top(c).pc = "observe again"
      BY <2>3 DEF At
    <3>2. Others(c) /\ Top(c)'.pc = "patch"
      BY <1>2, <2>1, <2>3, <3>1, HoldTurns DEF DeployPcs, UndeployPcs
    <3> QED BY <1>5, <3>1, <3>2
  <2> QED BY <1>16, <2>2, <2>3 DEF Observe
<1> QED BY <1>7, <1>8, <1>9, <1>10, <1>11, <1>13, <1>14, <1>15, <1>16 DEF Quiet

\* A call begins: when none is under way everything is recorded.
LEMMA StartKeeps ==
  ASSUME ServeAssumption, TypeInv, CallInv, NEW c \in Callers, Start(c)
  PROVE  CallInv'
<1>1. /\ overlapped' = (overlapped \/ \E d \in Callers : call[d] # <<>>)
      /\ UNCHANGED <<apps, records, interrupted>>
  BY DEF Start, StartDeploy, StartUndeploy, StartCall
<1>2. Others(c) /\ Top(c)'.pc \in {"required", "undeploy"}
  BY StartMoves
<1> SUFFICES ASSUME ~overlapped'
             PROVE  Alone' /\ (\A d \in Callers : ListHolds(d)' /\ OwnHolds(d)') /\ AppsHold'
  BY DEF CallInv
<1>3. ~overlapped /\ \A d \in Callers : call[d] = <<>>
  BY <1>1
<1>4. \A d \in Callers \ {c} : call'[d] = <<>>
  BY <1>2, <1>3 DEF Others
<1>5. Alone'
  BY <1>4 DEF Alone
<1>6. ASSUME NEW d \in Callers PROVE ListHolds(d)' /\ OwnHolds(d)'
  BY <1>2, <1>4, FreeHolds
<1>7. AppsHold'
  <2>1. \A k \in Keys, d \in Callers : ~Saving(d, k)
    BY <1>3 DEF Saving, At
  <2>2. \A k \in Keys \ interrupted : Deployed(k) => Recorded(k, apps[k].config)
    BY <1>3, <2>1 DEF CallInv, AppsHold
  <2> QED BY <1>1, <2>2 DEF AppsHold, Deployed, Recorded
<1> QED BY <1>5, <1>6, <1>7

\* The PUT of a deploy, and of an undeploy.
LEMMA PutsKeep ==
  ASSUME ServeAssumption, EntryAssumption, TypeInv, CallInv, NEW c \in Callers, Put(c) \/ UndeployPut(c)
  PROVE  CallInv'
<1>1. call[c] # <<>> /\ UNCHANGED <<records, interrupted, overlapped>>
  BY DEF Put, UndeployPut, At, ghostVars
<1>2. CASE Put(c)
  <2>1. /\ At(c, "put") /\ Top(c).pc = "put" /\ Go(c, "observe")
        /\ PutApplications([Top(c).seen EXCEPT ![Top(c).key] = Top(c).spec])
    BY <1>2 DEF Put, PutOwn, At
  <2>2. /\ Others(c) /\ call'[c] # <<>> /\ Top(c)'.pc = "observe"
        /\ Top(c)'.key = Top(c).key /\ Top(c)'.spec = Top(c).spec
    BY <1>1, <2>1, GoTurns DEF TypeInv, DeployPcs, UndeployPcs, Untyped
  <2>3. Top(c).key \in Keys /\ Top(c).spec \in Specs \cup {Nothing}
    BY <2>1, PutsListing
  <2>4. ASSUME ~overlapped
        PROVE  /\ DeployedConfig(apps'[Top(c).key]) = Top(c).spec
               /\ \A k \in Keys \ {Top(c).key} :
                    Deployed(k)' /\ k \notin interrupted => Recorded(k, apps'[k].config)
    BY <2>1, <2>3, <2>4, PutKeeps
  <2>5. ASSUME ~overlapped PROVE ListHolds(c)' /\ OwnHolds(c)'
    BY <2>2, <2>4, <2>5 DEF ListHolds, OwnHolds, At, App
  <2>6. ASSUME ~overlapped, NEW k \in Keys \ interrupted', Deployed(k)'
        PROVE  Recorded(k, apps[k].config)' \/ Saving(c, k)'
    <3>1. CASE k = Top(c).key
      BY <2>2, <3>1 DEF Saving, At
    <3>2. CASE k # Top(c).key
      BY <1>1, <2>4, <2>6, <3>2 DEF Recorded
    <3> QED BY <3>1, <3>2
  <2> QED BY <1>1, <2>2, <2>5, <2>6, OneCallKeeps
<1>3. CASE UndeployPut(c)
  <2>1. /\ At(c, "put rest") /\ Top(c).pc = "put rest" /\ Go(c, "forget")
        /\ PutApplications([Top(c).seen EXCEPT ![Top(c).key] = Nothing])
    BY <1>3 DEF UndeployPut, PutRest, At
  <2>2. /\ Others(c) /\ call'[c] # <<>> /\ Top(c)'.pc = "forget" /\ Top(c)'.key = Top(c).key
    BY <1>1, <2>1, GoTurns DEF TypeInv, DeployPcs, UndeployPcs, Untyped
  <2>3. Top(c).key \in Keys
    BY <2>1, PutsListing
  <2>4. ASSUME ~overlapped
        PROVE  /\ DeployedConfig(apps'[Top(c).key]) = Nothing
               /\ \A k \in Keys \ {Top(c).key} :
                    Deployed(k)' /\ k \notin interrupted => Recorded(k, apps'[k].config)
    BY <2>1, <2>4, PutKeeps
  <2>5. ASSUME ~overlapped PROVE ListHolds(c)' /\ OwnHolds(c)'
    BY <2>2, <2>4, <2>5 DEF ListHolds, OwnHolds, At, App
  <2>6. ASSUME ~overlapped, NEW k \in Keys \ interrupted', Deployed(k)'
        PROVE  Recorded(k, apps[k].config)' \/ Saving(c, k)'
    <3>1. k # Top(c).key
      BY <2>4, <2>6 DEF Deployed
    <3> QED BY <1>1, <2>4, <2>6, <3>1 DEF Recorded
  <2> QED BY <1>1, <2>2, <2>5, <2>6, OneCallKeeps
<1> QED BY <1>2, <1>3

\* The record is written, patched or dropped.
LEMMA RecordsKeep ==
  ASSUME ServeAssumption, EntryAssumption, TypeInv, StackInv, CallInv, NEW c \in Callers,
         Save(c) \/ Patch(c) \/ Forget(c)
  PROVE  CallInv'
<1>1. call[c] # <<>> /\ UNCHANGED <<apps, overlapped>>
  BY DEF Save, Patch, Forget, At, ghostVars
<1>2. CASE Save(c)
  <2>1. At(c, "save") /\ SaveRecord(c) /\ Top(c).pc = "save" /\ interrupted' = interrupted \ {Top(c).key}
    BY <1>2 DEF Save, At
  <2>2. /\ Top(c).key \in Keys /\ Top(c).spec \in Specs
        /\ records'[Top(c).key] # Nothing /\ records'[Top(c).key].spec = Top(c).spec
        /\ \A k \in Keys \ {Top(c).key} : records'[k] = records[k]
    BY <2>1, SaveTyped DEF EntryAssumption
  <2>3. Others(c) /\ ListHolds(c)' /\ OwnHolds(c)'
    <3>1. CASE Go(c, "wait")
      <4>1. Others(c) /\ Top(c)'.pc = "wait"
        BY <1>1, <2>1, <3>1, GoTurns DEF TypeInv, DeployPcs, UndeployPcs, Untyped
      <4> QED BY <4>1, FreeHolds
    <3>2. CASE Return(c)
      BY <1>1, <3>2, ReturnFrees
    <3> QED BY <1>2, <3>1, <3>2 DEF Save
  <2>4. ASSUME ~overlapped, NEW k \in Keys \ interrupted', Deployed(k)'
        PROVE  Recorded(k, apps[k].config)'
    <3>1. Deployed(k)
      BY <1>1, <2>4 DEF Deployed
    <3>2. CASE k = Top(c).key
      <4>1. DeployedConfig(apps[k]) = Top(c).spec
        BY <1>1, <2>1, <2>4, <3>1, <3>2, OneCall DEF OwnHolds, App, Deployed
      <4>2. apps[k].config = Top(c).spec
        BY <3>1, <4>1 DEF DeployedConfig, Deployed
      <4> QED BY <1>1, <2>2, <3>2, <4>2 DEF Recorded
    <3>3. CASE k # Top(c).key
      <4>1. k \notin interrupted /\ ~Saving(c, k)
        BY <2>1, <3>3 DEF Saving
      <4>2. Recorded(k, apps[k].config)
        BY <1>1, <2>4, <3>1, <4>1, OneCall
      <4> QED BY <1>1, <2>2, <3>3, <4>2 DEF Recorded
    <3> QED BY <3>2, <3>3
  <2> QED BY <1>1, <2>3, <2>4, OneCallKeeps
<1>3. CASE Patch(c)
  <2>1. At(c, "patch") /\ PatchRecord(Top(c).key, Top(c).seen, Top(c).replaced)
        /\ Return(c) /\ Top(c).pc = "patch" /\ interrupted' = interrupted
    BY <1>3 DEF Patch, At
  <2>2. RecordsKept
    BY <2>1, PatchTyped, PatchesTyped
  <2>3. Others(c) /\ ListHolds(c)' /\ OwnHolds(c)'
    BY <1>1, <2>1, ReturnFrees
  <2>4. ASSUME ~overlapped, NEW k \in Keys \ interrupted', Deployed(k)'
        PROVE  Recorded(k, apps[k].config)'
    <3>1. Deployed(k) /\ ~Saving(c, k)
      BY <1>1, <2>1, <2>4 DEF Deployed, Saving, At
    <3>2. Recorded(k, apps[k].config)
      BY <1>1, <2>1, <2>4, <3>1, OneCall
    <3> QED BY <1>1, <2>2, <3>2 DEF Recorded, RecordsKept
  <2> QED BY <1>1, <2>3, <2>4, OneCallKeeps
<1>4. CASE Forget(c)
  <2>1. At(c, "forget") /\ DropRecord(c) /\ Return(c) /\ Top(c).pc = "forget"
        /\ interrupted' = interrupted \ {Top(c).key}
    BY <1>4 DEF Forget, At
  <2>2. \A k \in Keys \ {Top(c).key} : records'[k] = records[k]
    BY <1>1, <2>1, DropTyped
  <2>3. Others(c) /\ ListHolds(c)' /\ OwnHolds(c)'
    BY <1>1, <2>1, ReturnFrees
  <2>4. ASSUME ~overlapped, NEW k \in Keys \ interrupted', Deployed(k)'
        PROVE  Recorded(k, apps[k].config)'
    <3>1. Deployed(k) /\ ~Saving(c, k)
      BY <1>1, <2>1, <2>4 DEF Deployed, Saving, At
    <3>2. k # Top(c).key
      BY <1>1, <2>1, <2>4, <3>1, OneCall DEF OwnHolds, App, Deployed
    <3>3. Recorded(k, apps[k].config)
      BY <1>1, <2>1, <2>4, <3>1, <3>2, OneCall
    <3> QED BY <1>1, <2>2, <3>2, <3>3 DEF Recorded
  <2> QED BY <1>1, <2>3, <2>4, OneCallKeeps
<1> QED BY <1>2, <1>3, <1>4

\* A call that is cut short leaves at most its own application unaccounted for.
LEMMA FailureKeeps ==
  ASSUME ServeAssumption, EntryAssumption, TypeInv, CallInv, NEW c \in Callers, CallFails(c)
  PROVE  CallInv'
<1>1. /\ call[c] # <<>> /\ Raise(c) /\ overlapped' = overlapped
      /\ interrupted' = IF Top(c).pc \in Writing THEN interrupted \cup {Top(c).key} ELSE interrupted
  BY DEF CallFails, ghostVars
<1>2. Others(c) /\ call'[c] = <<>>
  BY <1>1, RaiseEnds DEF TypeInv
<1>3. ListHolds(c)' /\ OwnHolds(c)'
  BY <1>2, FreeHolds
<1>4. ASSUME ~overlapped, NEW k \in Keys \ interrupted', Deployed(k)'
      PROVE  Recorded(k, apps[k].config)'
  <2>1. k \notin interrupted /\ (Top(c).pc \in Writing => k # Top(c).key)
    BY <1>1
  <2>2. ~Saving(c, k)
    BY <2>1 DEF Saving, At, Writing
  <2>3. Deployed(k) => Recorded(k, apps[k].config)
    BY <1>1, <1>4, <2>1, <2>2, OneCall
  <2>4. CASE UNCHANGED <<apps, records>>
    BY <1>4, <2>3, <2>4 DEF Deployed, Recorded
  <2>5. CASE At(c, "put") /\ PutOwn(c) /\ UNCHANGED records
    <3>1. k # Top(c).key /\ Top(c).spec \in Specs \cup {Nothing}
      BY <2>1, <2>5, PutsListing DEF At, Writing
    <3>2. PutApplications([Top(c).seen EXCEPT ![Top(c).key] = Top(c).spec])
      BY <2>5 DEF PutOwn
    <3>3. Recorded(k, apps'[k].config)
      BY <1>4, <2>1, <2>5, <3>1, <3>2, PutKeeps
    <3> QED BY <2>5, <3>3 DEF Recorded
  <2>6. CASE At(c, "put rest") /\ PutRest(c) /\ UNCHANGED records
    <3>1. k # Top(c).key
      BY <2>1, <2>6 DEF At, Writing
    <3>2. PutApplications([Top(c).seen EXCEPT ![Top(c).key] = Nothing])
      BY <2>6 DEF PutRest
    <3>3. Recorded(k, apps'[k].config)
      BY <1>4, <2>1, <2>6, <3>1, <3>2, PutKeeps
    <3> QED BY <2>6, <3>3 DEF Recorded
  <2>7. CASE At(c, "save") /\ SaveRecord(c) /\ UNCHANGED apps
    <3>1. k # Top(c).key
      BY <2>1, <2>7 DEF At, Writing
    <3>2. records'[k] = records[k]
      BY <2>7, <3>1, SaveTyped
    <3> QED BY <1>4, <2>3, <2>7, <3>2 DEF Deployed, Recorded
  <2>8. CASE At(c, "forget") /\ DropRecord(c) /\ UNCHANGED apps
    <3>1. k # Top(c).key
      BY <2>1, <2>8 DEF At, Writing
    <3>2. records'[k] = records[k]
      BY <1>1, <2>8, <3>1, DropTyped
    <3> QED BY <1>4, <2>3, <2>8, <3>2 DEF Deployed, Recorded
  <2> QED BY <2>4, <2>5, <2>6, <2>7, <2>8 DEF CallFails
<1> QED BY <1>1, <1>2, <1>3, <1>4, OneCallKeeps

LEMMA StepKeepsCalls ==
  ASSUME ServeAssumption, EntryAssumption, TypeInv, StackInv, CallInv, [Next]_vars
  PROVE  CallInv'
<1>1. ASSUME UNCHANGED <<apps, records, call, interrupted, overlapped>> PROVE CallInv'
  <2>1. AppsFade /\ RecordsKept
    BY <1>1 DEF AppsFade, RecordsKept
  <2> QED BY <1>1, <2>1, FadingKeeps
<1>2. CASE UNCHANGED vars \/ Change
  <2>1. UNCHANGED <<apps, records, call, interrupted, overlapped>>
    BY <1>2, ChangeTyped DEF vars, ghostVars
  <2> QED BY <1>1, <2>1
<1>3. ASSUME NEW c \in Callers,
             Start(c) \/ Deploy(c) \/ Undeploy(c) \/ TimeOut(c) \/ CallFails(c)
      PROVE  CallInv'
  BY <1>3, CallerSteps, StartKeeps, QuietStepKeeps, PutsKeep, RecordsKeep, FailureKeeps
<1>4. CASE ObserveDeployments \/ ObserverFails
  <2>1. RecordsKept /\ UNCHANGED <<apps, call, interrupted, overlapped>>
    BY <1>4, PollerTyped DEF ghostVars
  <2>2. AppsFade
    BY <2>1 DEF AppsFade
  <2> QED BY <2>1, <2>2, FadingKeeps
<1>5. CASE Serve \/ ServeLoses
  <2>1. AppsFade /\ UNCHANGED <<call, records, interrupted, overlapped>>
    BY <1>5, ServeTyped, LosesTyped DEF ghostVars
  <2>2. RecordsKept
    BY <2>1 DEF RecordsKept
  <2> QED BY <2>1, <2>2, FadingKeeps
<1> QED BY <1>2, <1>3, <1>4, <1>5 DEF Next

LEMMA InitCalls ==
  ASSUME Init
  PROVE  CallInv
<1>1. \A c \in Callers : call[c] = <<>>
  BY DEF Init
<1>2. \A k \in Keys : apps[k] = Nothing
  BY DEF Init
<1>3. Alone /\ \A c \in Callers : ListHolds(c) /\ OwnHolds(c)
  BY <1>1, IdleHolds DEF Alone
<1>4. AppsHold
  BY <1>2 DEF AppsHold, Deployed, DeployedConfig
<1> QED BY <1>3, <1>4 DEF CallInv

ServeInv == TypeInv /\ StackInv /\ CallInv

\* The inductive invariant, at the start and from step to step.
LEMMA ServeInvHolds ==
  /\ Init => ServeInv
  /\ ServeInv /\ [Next]_vars => ServeInv'
<1>1. Init => ServeInv
  BY InitTyped, InitStacks, InitCalls, ServeAssumption DEF ServeInv
<1>2. ServeInv /\ [Next]_vars => ServeInv'
  BY StepTyped, StepKeepsStacks, StepKeepsCalls, ServeAssumption, EntryAssumption DEF ServeInv
<1> QED BY <1>1, <1>2

\* As long as calls have not overlapped, an application is recorded with the spec it was
\* deployed with whenever no call is under way, but where the last call was cut short.
THEOREM AppsStayRecorded == Spec => []AppsAreRecorded
<1>1. ServeInv => AppsAreRecorded
  <2> SUFFICES ASSUME ServeInv, ~overlapped, \A c \in Callers : call[c] = <<>>,
                      NEW k \in Keys \ interrupted, DeployedConfig(apps[k]) # Nothing
               PROVE  records[k] # Nothing /\ records[k].spec = apps[k].config
    BY DEF AppsAreRecorded
  <2>1. \A c \in Callers : ~Saving(c, k)
    BY DEF Saving, At
  <2> QED BY <2>1 DEF ServeInv, CallInv, AppsHold, Deployed, Recorded
<1> QED BY <1>1, ServeInvHolds, PTL DEF Spec

\* Every step that PUTs is a PUT, or a PUT whose answer was lost.
LEMMA AppsMove ==
  ASSUME TypeInv, EntryAssumption, [Next]_vars
  PROVE  \/ AppsFade
         \/ \E c \in Callers : \/ At(c, "put") /\ PutOwn(c)
                               \/ At(c, "put rest") /\ PutRest(c)
<1>1. ASSUME UNCHANGED apps PROVE AppsFade
  BY <1>1 DEF AppsFade
<1>2. CASE UNCHANGED vars \/ Change
  <2>1. UNCHANGED apps
    BY <1>2, ChangeTyped DEF vars
  <2> QED BY <1>1, <2>1
<1>3. ASSUME NEW c \in Callers, Quiet(c) \/ Start(c) \/ Save(c) \/ Patch(c) \/ Forget(c)
      PROVE  UNCHANGED apps
  BY <1>3, QuietIsQuiet DEF OnlyCall, Start, StartDeploy, StartUndeploy, StartCall, Save, Patch, Forget
<1>4. ASSUME NEW c \in Callers, Put(c) \/ UndeployPut(c) \/ CallFails(c)
      PROVE  \/ UNCHANGED apps
             \/ At(c, "put") /\ PutOwn(c)
             \/ At(c, "put rest") /\ PutRest(c)
  BY <1>4 DEF Put, UndeployPut, CallFails
<1>5. CASE ObserveDeployments \/ ObserverFails \/ Serve \/ ServeLoses
  <2>1. CASE ObserveDeployments \/ ObserverFails
    <3>1. UNCHANGED apps
      BY <2>1 DEF ObserveDeployments, ObserverFails, ReadServe, ListRecords, ObserverEnds, PatchObserved,
                  OnlyObserver
    <3> QED BY <1>1, <3>1
  <2> QED BY <1>5, <2>1, ServeTyped, LosesTyped
<1> QED BY <1>1, <1>2, <1>3, <1>4, <1>5, CallerSteps DEF Next

\* What a step that fades leaves is not taken down and keeps its spec, and a PUT touches no
\* application but the caller's own.
LEMMA OwnIsAllThatGoes ==
  ASSUME ServeAssumption, EntryAssumption, ServeInv, [Next]_vars, ~overlapped, NEW k \in Keys,
         apps[k] # Nothing, apps'[k] # Nothing
  PROVE  /\ apps[k].status # "DELETING" /\ apps'[k].status = "DELETING" =>
              \E c \in Callers : At(c, "put rest") /\ Top(c).key = k
         /\ apps[k].config # apps'[k].config =>
              \E c \in Callers : At(c, "put") /\ Top(c).key = k
<1> USE DEF ServeInv
<1>1. CASE AppsFade
  BY <1>1 DEF AppsFade
<1>2. ASSUME NEW c \in Callers, At(c, "put"), PutOwn(c)
      PROVE  /\ apps[k].status # "DELETING" => apps'[k].status # "DELETING"
             /\ apps[k].config # apps'[k].config => Top(c).key = k
  <2>1. PutApplications([Top(c).seen EXCEPT ![Top(c).key] = Top(c).spec]) /\ Top(c).spec \in Specs
    BY <1>2, PutsListing DEF PutOwn
  <2>2. Top(c).spec # Nothing
    BY <2>1 DEF ServeAssumption
  <2>3. CASE k = Top(c).key
    <3>1. apps'[Top(c).key].status = "DEPLOYING"
      BY <1>2, <2>1, <2>2, PutKeeps
    <3> QED BY <2>3, <3>1
  <2>4. CASE k # Top(c).key
    <3>1. /\ apps'[k].config = apps[k].config
          /\ apps'[k].status = "DELETING" => apps[k].status = "DELETING"
      BY <1>2, <2>1, <2>4, PutKeeps
    <3> QED BY <3>1
  <2> QED BY <2>3, <2>4
<1>3. ASSUME NEW c \in Callers, At(c, "put rest"), PutRest(c)
      PROVE  /\ apps[k].status # "DELETING" /\ apps'[k].status = "DELETING" => Top(c).key = k
             /\ apps[k].config = apps'[k].config
  <2>1. PutApplications([Top(c).seen EXCEPT ![Top(c).key] = Nothing])
    BY <1>3 DEF PutRest
  <2>2. CASE k = Top(c).key
    <3>1. apps'[Top(c).key].config = apps[Top(c).key].config
      BY <1>3, <2>1, <2>2, PutKeeps
    <3> QED BY <2>2, <3>1
  <2>3. CASE k # Top(c).key
    <3>1. /\ apps'[k].config = apps[k].config
          /\ apps'[k].status = "DELETING" => apps[k].status = "DELETING"
      BY <1>3, <2>1, <2>3, PutKeeps
    <3> QED BY <2>3, <3>1
  <2> QED BY <2>2, <2>3
<1> QED BY <1>1, <1>2, <1>3, AppsMove

\* When calls do not overlap, an application is taken down only by an undeploy of it and
\* changed only by a deploy of it, although every PUT replaces the whole list.
THEOREM NothingElseGoes == Spec => NothingElseIsLost
<1>1. ServeInv /\ [Next]_vars =>
        [\A k \in Keys : ~overlapped /\ apps[k] # Nothing /\ apps'[k] # Nothing =>
           /\ apps[k].status # "DELETING" /\ apps'[k].status = "DELETING" =>
                \E c \in Callers : At(c, "put rest") /\ Top(c).key = k
           /\ apps[k].config # apps'[k].config =>
                \E c \in Callers : At(c, "put") /\ Top(c).key = k]_vars
  BY OwnIsAllThatGoes, ServeAssumption, EntryAssumption
<1> QED BY <1>1, ServeInvHolds, PTL DEF Spec, NothingElseIsLost

\* When calls do not overlap, a deploy PUTs a spec only where there is no application, or
\* one of another spec that is not on its way out.
THEOREM PutsStartAfresh == Spec => EveryPutStartsAfresh
<1>1. ServeInv /\ [Next]_vars =>
        [\A c \in Callers : Put(c) /\ ~overlapped =>
           \/ App(c) = Nothing
           \/ App(c).status # "DELETING" /\ App(c).config # Top(c).spec]_vars
  <2> SUFFICES ASSUME ServeInv, NEW c \in Callers, Put(c), ~overlapped
               PROVE  \/ App(c) = Nothing
                      \/ App(c).status # "DELETING" /\ App(c).config # Top(c).spec
    OBVIOUS
  <2>1. At(c, "put") /\ OwnHolds(c)
    BY DEF Put, ServeInv, CallInv
  <2> QED BY <2>1 DEF OwnHolds
<1> QED BY <1>1, ServeInvHolds, PTL DEF Spec, EveryPutStartsAfresh

-----------------------------------------------------------------------------
(* What a deploy requires *)

PastPut == {"observe", "save", "wait", "observe again", "patch"}
Standing == {k \in Keys : Deployed(k)}

\* A frame over the i-th deploys k.
Over(s, i, k) == \E j \in 1..(i - 1) : Deploying(s[j]) /\ s[j].key = k

\* What a deploy requires stands, is still to be deployed, or is being deployed for it.
Met(s, D) ==
  \A i \in 1..Len(s) : Deploying(s[i]) =>
    \A k \in Keys : Among(k, Requires[s[i].key]) =>
      k \in D \/ Among(k, s[i].todo) \/ Over(s, i, k)

\* What a deploy has PUT stands.
OwnStands(c) == call[c] # <<>> /\ Top(c).pc \in PastPut => Deployed(Top(c).key)

\* As long as calls have not overlapped and Serve has kept its applications.
ReqInv ==
  ~overlapped /\ ~lost => \A c \in Callers : Met(call[c], Standing) /\ OwnStands(c)

\* More may stand.
LEMMA MoreStands ==
  ASSUME NEW s, NEW D, NEW E, D \subseteq E
  PROVE  Met(s, D) => Met(s, E)
BY DEF Met

LEMMA TurnKeepsMet ==
  ASSUME NEW D, NEW s \in Seq(TypedFrame), Met(s, D), NEW t, Turns(s, t)
  PROVE  Met(t, D)
<1>1. s # <<>>
  BY DEF Turns
<1>2. PICK f \in TypedFrame :
        /\ t = <<f>> \o Tail(s)
        /\ f.key = s[1].key /\ f.wait = s[1].wait /\ f.todo = s[1].todo
        /\ f.pc # "required"
        /\ Deploying(f) <=> Deploying(s[1])
  BY DEF Turns
<1>3. Len(t) = Len(s) /\ t[1] = f /\ (\A i \in 2..Len(t) : t[i] = s[i]) /\ Len(s) \in Nat /\ Len(s) >= 1
  <2>1. f \in TypedFrame /\ t = <<f>> \o Tail(s)
    BY <1>2
  <2> QED BY <1>1, <2>1, Replaced
<1>4. ASSUME NEW i \in 1..Len(t)
      PROVE  /\ t[i].key = s[i].key /\ t[i].todo = s[i].todo
             /\ Deploying(t[i]) <=> Deploying(s[i])
  <2>1. CASE i = 1
    BY <1>2, <1>3, <2>1
  <2>2. CASE i # 1
    BY <1>3, <2>2
  <2> QED BY <2>1, <2>2
<1>5. ASSUME NEW i \in 1..Len(t), NEW k, Over(s, i, k) PROVE Over(t, i, k)
  <2>1. PICK j \in 1..(i - 1) : Deploying(s[j]) /\ s[j].key = k
    BY <1>5 DEF Over
  <2>2. j \in 1..Len(t)
    BY <1>3
  <2> QED BY <1>4, <2>1, <2>2 DEF Over
<1> QED BY <1>3, <1>4, <1>5 DEF Met

\* A frame pushed for what the top still has to deploy, or to clear its way.
LEMMA PushKeepsMet ==
  ASSUME NEW D, NEW s \in Seq(TypedFrame), s # <<>>, Met(s, D), Deploying(s[1]),
         NEW f \in TypedFrame, NEW g \in TypedFrame, NEW t, t = <<g, f>> \o Tail(s),
         f.key = s[1].key, Deploying(f), Deploying(g) => g.todo = Requires[g.key],
         \A k \in Keys : Among(k, s[1].todo) => Among(k, f.todo) \/ (Deploying(g) /\ g.key = k)
  PROVE  Met(t, D)
<1>1. /\ Len(t) = Len(s) + 1 /\ t[1] = g /\ t[2] = f /\ Len(s) \in Nat /\ Len(s) >= 1
      /\ \A i \in 3..Len(t) : t[i] = s[i - 1]
  BY Pushed
<1> SUFFICES ASSUME NEW i \in 1..Len(t), Deploying(t[i]), NEW k \in Keys, Among(k, Requires[t[i].key])
             PROVE  k \in D \/ Among(k, t[i].todo) \/ Over(t, i, k)
  BY DEF Met
<1>2. CASE i = 1
  BY <1>1, <1>2
<1>3. CASE i = 2
  <2>1. k \in D \/ Among(k, s[1].todo) \/ Over(s, 1, k)
    BY <1>1, <1>3 DEF Met
  <2>2. ~Over(s, 1, k)
    BY DEF Over
  <2>3. Deploying(g) /\ g.key = k => Over(t, 2, k)
    BY <1>1 DEF Over
  <2> QED BY <1>1, <1>3, <2>1, <2>2, <2>3
<1>4. CASE i \notin {1, 2}
  <2>1. i \in 3..Len(t) /\ i - 1 \in 1..Len(s) /\ t[i] = s[i - 1]
    BY <1>1, <1>4
  <2>2. k \in D \/ Among(k, s[i - 1].todo) \/ Over(s, i - 1, k)
    BY <2>1 DEF Met
  <2>3. ASSUME Over(s, i - 1, k) PROVE Over(t, i, k)
    <3>1. PICK j \in 1..((i - 1) - 1) : Deploying(s[j]) /\ s[j].key = k
      BY <2>3 DEF Over
    <3>2. j + 1 \in 1..(i - 1) /\ Deploying(t[j + 1]) /\ t[j + 1].key = k
      <4>1. j + 1 \in 1..(i - 1)
        BY <2>1
      <4>2. CASE j = 1
        BY <1>1, <3>1, <4>1, <4>2
      <4>3. CASE j # 1
        <5>1. j + 1 \in 3..Len(t) /\ (j + 1) - 1 = j
          BY <1>1, <2>1, <4>3
        <5>2. t[j + 1] = s[j]
          BY <1>1, <5>1
        <5> QED BY <3>1, <4>1, <5>2
      <4> QED BY <4>2, <4>3
    <3> QED BY <3>2 DEF Over
  <2> QED BY <2>1, <2>2, <2>3
<1> QED BY <1>2, <1>3, <1>4

\* A deploy that returns to one that waits for it leaves its application standing.
LEMMA ReturnKeepsMet ==
  ASSUME NEW D, NEW s \in Seq(TypedFrame), Met(s, D), NEW t, Returns(s, t),
         t # <<>> /\ Deploying(s[1]) => s[1].key \in D
  PROVE  Met(t, D)
<1>1. s # <<>> /\ t = Tail(s)
  BY DEF Returns
<1>2. /\ Len(t) = Len(s) - 1 /\ Len(s) \in Nat /\ Len(s) >= 1
      /\ \A i \in 1..Len(t) : t[i] = s[i + 1]
  BY <1>1, TopIsFirst, Popped
<1> SUFFICES ASSUME NEW i \in 1..Len(t), Deploying(t[i]), NEW k \in Keys, Among(k, Requires[t[i].key])
             PROVE  k \in D \/ Among(k, t[i].todo) \/ Over(t, i, k)
  BY DEF Met
<1>3. i + 1 \in 1..Len(s) /\ t[i] = s[i + 1] /\ (i + 1) - 1 = i /\ t # <<>>
  BY <1>2
<1>4. k \in D \/ Among(k, t[i].todo) \/ \E j \in 1..i : Deploying(s[j]) /\ s[j].key = k
  BY <1>3 DEF Met, Over
<1>5. ASSUME NEW j \in 1..i, Deploying(s[j]), s[j].key = k
      PROVE  k \in D \/ Over(t, i, k)
  <2>1. CASE j = 1
    BY <1>3, <1>5, <2>1
  <2>2. CASE j # 1
    <3>1. j - 1 \in 1..(i - 1) /\ j - 1 \in 1..Len(t) /\ (j - 1) + 1 = j
      BY <1>2, <2>2
    <3>2. t[j - 1] = s[j]
      BY <1>2, <3>1
    <3> QED BY <1>5, <3>1, <3>2 DEF Over
  <2> QED BY <2>1, <2>2
<1> QED BY <1>4, <1>5

LEMMA MovesKeepMet ==
  ASSUME NEW D, NEW s \in Seq(TypedFrame), Met(s, D), NEW t, Moves(s, t),
         Returns(s, t) /\ t # <<>> /\ Deploying(s[1]) => s[1].key \in D
  PROVE  Met(t, D)
<1>1. CASE Turns(s, t)
  BY <1>1, TurnKeepsMet
<1>2. CASE Descends(s, t)
  <2>1. s # <<>> /\ s[1].pc = "required" /\ s[1].todo # <<>>
    BY <1>2 DEF Descends
  <2>2. PICK f \in TypedFrame, g \in TypedFrame :
          /\ t = <<g, f>> \o Tail(s)
          /\ f.key = s[1].key /\ f.wait = s[1].wait /\ f.todo = Tail(s[1].todo) /\ f.pc = "required"
          /\ g.key = Head(s[1].todo) /\ g.wait /\ g.todo = Requires[g.key] /\ g.pc = "required"
    BY <1>2 DEF Descends
  <2>3. Deploying(s[1]) /\ Deploying(g) /\ Deploying(f)
    BY <2>1, <2>2 DEF Deploying, DeployPcs
  <2>4. ASSUME NEW k \in Keys, Among(k, s[1].todo) PROVE Among(k, f.todo) \/ g.key = k
    <3>1. s[1] \in TypedFrame
      BY <2>1, TopIsFirst
    <3>2. s[1].todo \in Seq(Keys)
      BY <3>1, TypedIsOK DEF Frame
    <3>3. PICK n \in DOMAIN s[1].todo : s[1].todo[n] = k
      BY <2>4 DEF Among
    <3>4. CASE n = 1
      BY <2>1, <2>2, <3>2, <3>3, <3>4
    <3>5. CASE n # 1
      <4>1. n \in 1..Len(s[1].todo)
        BY <3>2
      <4>2. n - 1 \in DOMAIN Tail(s[1].todo) /\ Tail(s[1].todo)[n - 1] = s[1].todo[n]
        BY <2>1, <3>2, <3>5, <4>1
      <4> QED BY <2>2, <3>3, <4>2 DEF Among
    <3> QED BY <3>4, <3>5
  <2> QED BY <2>1, <2>2, <2>3, <2>4, PushKeepsMet
<1>3. CASE Clears(s, t)
  <2>1. s # <<>> /\ s[1].pc = "clear"
    BY <1>3 DEF Clears
  <2>2. PICK f \in TypedFrame, g \in TypedFrame :
          /\ t = <<g, f>> \o Tail(s)
          /\ f.key = s[1].key /\ f.wait = s[1].wait /\ f.todo = s[1].todo /\ f.pc = "clearing"
          /\ g.key = s[1].key /\ g.pc = "undeploy"
    BY <1>3 DEF Clears
  <2>3. Deploying(s[1]) /\ ~Deploying(g) /\ Deploying(f)
    BY <2>1, <2>2 DEF Deploying, DeployPcs
  <2> QED BY <2>1, <2>2, <2>3, PushKeepsMet
<1>4. CASE Returns(s, t)
  BY <1>4, ReturnKeepsMet
<1>5. CASE Begins(s, t)
  <2>1. PICK f \in TypedFrame :
          t = <<f>> /\ (Deploying(f) => f.pc = "required" /\ f.todo = Requires[f.key])
    BY <1>5 DEF Begins
  <2>2. Len(t) = 1 /\ t[1] = f
    BY <2>1
  <2> QED BY <2>1, <2>2 DEF Met
<1>6. CASE t = <<>>
  BY <1>6 DEF Met
<1> QED BY <1>1, <1>2, <1>3, <1>4, <1>5, <1>6 DEF Moves

\* An undeploy takes down nothing that the deploys under it count on: the one it clears the
\* way for deploys the same model, and does not require itself.
LEMMA UndeployKeepsMet ==
  ASSUME NEW D, NEW s \in Seq(TypedFrame), s # <<>>, StackOK(s), Met(s, D), ~Deploying(s[1])
  PROVE  Met(s, D \ {s[1].key})
<1>1. Len(s) \in Nat
  OBVIOUS
<1> SUFFICES ASSUME NEW i \in 1..Len(s), Deploying(s[i]), Among(s[1].key, Requires[s[i].key])
             PROVE  Among(s[1].key, s[i].todo) \/ Over(s, i, s[1].key)
  BY DEF Met
<1>2. i >= 2 /\ 1 \in 1..(Len(s) - 1)
  BY <1>1
<1>3. s[2].pc = "clearing" /\ s[2].key = s[1].key
  BY <1>2 DEF StackOK, Nested
<1>4. Deploying(s[2])
  BY <1>3 DEF Deploying, DeployPcs
<1>5. CASE i = 2
  <2>1. Among(s[2].key, s[2].todo) \/ (2 >= 2 /\ Deploying(s[2 - 1]) /\ s[2 - 1].key = s[2].key)
    BY <1>3, <1>4, <1>5 DEF StackOK, Looping
  <2> QED BY <1>3, <1>5, <2>1
<1>6. CASE i # 2
  <2>1. 2 \in 1..(i - 1)
    BY <1>2, <1>6
  <2> QED BY <1>3, <1>4, <2>1 DEF Over
<1> QED BY <1>5, <1>6

\* Only a deploy that has seen its application run goes on from waiting, or returns.
LEMMA WaitsToStand ==
  ASSUME ServeAssumption, TypeInv, NEW c \in Callers, call[c] # <<>>, Top(c).pc = "wait on record",
         Start(c) \/ Deploy(c) \/ Undeploy(c) \/ TimeOut(c) \/ CallFails(c)
  PROVE  call'[c] = <<>> \/ Deployed(Top(c).key)
<1>1. CASE TimeOut(c) \/ CallFails(c) \/ SeeFailed(c)
  BY <1>1, RaiseEnds DEF TimeOut, CallFails, SeeFailed, TypeInv
<1>2. CASE SeeRunning(c)
  <2>1. App(c) # Nothing /\ App(c).status = "RUNNING" /\ Top(c).key \in Keys
    BY <1>2, TopTyped DEF SeeRunning, TypeInv, Frame
  <2>2. App(c) \in Application
    BY <2>1 DEF App, TypeInv, TablesTyped
  <2>3. App(c).config # Nothing
    BY <2>2 DEF Application, ServeAssumption
  <2> QED BY <2>1, <2>3 DEF Deployed, DeployedConfig, App
<1>3. CASE Start(c)
  BY <1>3 DEF Start, StartDeploy, StartUndeploy, StartCall
<1>4. CASE DeployRequired(c) \/ ReturnFromRecord(c) \/ PassRecord(c) \/ Clear(c) \/ Cleared(c)
           \/ Check(c) \/ List(c) \/ Put(c) \/ Observe(c) \/ Save(c) \/ Patch(c) \/ Undeploy(c)
  BY <1>4 DEF DeployRequired, ReturnFromRecord, PassRecord, HasRequired, Clear, Cleared, Check, List,
              Put, Observe, Save, Patch, Undeploy, UndeployList, UndeployPut, Forget, At
<1> QED BY <1>1, <1>2, <1>3, <1>4 DEF Deploy

\* Under a deploy that returns, one waits for it until its application stands.
LEMMA ReturnsStanding ==
  ASSUME ServeAssumption, TypeInv, StackInv, NEW c \in Callers,
         OwnStands(c),
         Start(c) \/ Deploy(c) \/ Undeploy(c) \/ TimeOut(c) \/ CallFails(c),
         Returns(call[c], call'[c]), call'[c] # <<>>, Deploying(call[c][1])
  PROVE  call[c][1].key \in Standing
<1>1. call[c] # <<>> /\ call'[c] = Tail(call[c])
  BY DEF Returns
<1>2. /\ call[c] \in Seq(TypedFrame) /\ Top(c) = call[c][1] /\ Top(c) \in Frame
      /\ Len(call[c]) \in Nat /\ Len(call[c]) >= 1
  BY <1>1, TopTyped DEF TypeInv
<1>3. 1 \in 1..(Len(call[c]) - 1)
  <2>1. Len(Tail(call[c])) = Len(call[c]) - 1 /\ Tail(call[c]) \in Seq(TypedFrame)
    BY <1>1, <1>2, Popped
  <2>2. Tail(call[c]) # <<>>
    BY <1>1
  <2>3. Len(Tail(call[c])) >= 1
    BY <2>1, <2>2
  <2> QED BY <1>2, <2>1, <2>3
<1>4. call[c][1].wait
  BY <1>3 DEF StackInv, StackOK, Nested
<1>5. call[c][1].pc \in {"wait on record", "patch"}
  BY <1>4 DEF Returns
<1>6. CASE call[c][1].pc = "wait on record"
  BY <1>1, <1>2, <1>6, WaitsToStand DEF Standing, Frame
<1>7. CASE call[c][1].pc = "patch"
  BY <1>1, <1>2, <1>7 DEF OwnStands, PastPut, Standing, Frame
<1> QED BY <1>5, <1>6, <1>7

\* A step of a caller that leaves Serve alone is past its PUT only if it was, or has found its
\* application deployed with its spec.
LEMMA OwnStaysStanding ==
  ASSUME ServeAssumption, TypeInv, StackInv, NEW c \in Callers, OwnStands(c),
         Quiet(c) \/ Start(c) \/ Save(c) \/ Patch(c) \/ Forget(c)
  PROVE  OwnStands(c)' /\ UNCHANGED apps
<1> USE DEF TypeInv
<1>1. UNCHANGED apps
  BY QuietIsQuiet DEF OnlyCall, Start, StartDeploy, StartUndeploy, StartCall, Save, Patch, Forget
<1> SUFFICES OwnStands(c)'
  BY <1>1
<1>2. ASSUME call'[c] = <<>> \/ Top(c)'.pc \notin PastPut PROVE OwnStands(c)'
  BY <1>2 DEF OwnStands
<1>3. ASSUME call[c] # <<>>, Top(c).pc \in PastPut, Top(c)'.key = Top(c).key PROVE OwnStands(c)'
  BY <1>1, <1>3 DEF OwnStands, Deployed
<1>4. CASE Start(c) \/ DeployRequired(c) \/ PassRecord(c)
  <2>1. Top(c)'.pc \in {"required", "undeploy", "clear"}
    BY <1>4, StartMoves, DeployRequiredMoves, PassRecordMoves
  <2> QED BY <1>2, <2>1 DEF PastPut
<1>5. CASE TimeOut(c) \/ SeeFailed(c)
  BY <1>2, <1>5, RaiseEnds DEF TimeOut, SeeFailed
<1>6. ASSUME call[c] # <<>>, Return(c) PROVE OwnStands(c)'
  <2>1. call'[c] # <<>> => Len(call[c]) >= 2 /\ Top(c)' = call[c][2]
    BY <1>6, ReturnPops
  <2>2. Len(call[c]) \in Nat
    BY <1>6, TopTyped
  <2>3. Len(call[c]) >= 2 => call[c][2].pc \in {"required", "clearing"}
    BY <2>2 DEF StackInv, StackOK, Suspended
  <2> QED BY <1>2, <2>1, <2>3 DEF PastPut
<1>7. ASSUME call[c] # <<>>, Top(c).pc = "required" => Top(c).todo = <<>>,
             NEW pc \in (DeployPcs \cup UndeployPcs) \ ({"required"} \cup Untyped),
             pc \in DeployPcs <=> Top(c).pc \in DeployPcs, Go(c, pc),
             pc \in PastPut => Top(c).pc \in PastPut \/ Deployed(Top(c).key)
      PROVE  OwnStands(c)'
  <2>1. Top(c)'.pc = pc /\ Top(c)'.key = Top(c).key
    BY <1>7, GoTurns
  <2>2. CASE pc \in PastPut /\ Deployed(Top(c).key)
    BY <1>1, <2>1, <2>2 DEF OwnStands, Deployed
  <2> QED BY <1>2, <1>3, <1>7, <2>1, <2>2
<1>8. CASE ReturnFromRecord(c)
  <2>1. call[c] # <<>> /\ Top(c).pc = "required" /\ Top(c).todo = <<>>
    BY <1>8 DEF ReturnFromRecord, HasRequired, At
  <2>2. CASE Go(c, "wait on record")
    BY <1>7, <2>1, <2>2 DEF DeployPcs, UndeployPcs, Untyped, PastPut
  <2> QED BY <1>6, <1>8, <2>1, <2>2 DEF ReturnFromRecord
<1>9. CASE Clear(c)
  <2>1. At(c, "clear") /\ call[c] # <<>> /\ Top(c).pc = "clear"
    BY <1>9 DEF Clear, At
  <2>2. CASE Go(c, "clearing") \/ Go(c, "check")
    BY <1>7, <2>1, <2>2 DEF DeployPcs, UndeployPcs, Untyped, PastPut
  <2>3. CASE call' = [call EXCEPT ![c] = <<UndeployFrame(Top(c).key),
                                           [Top(c) EXCEPT !.pc = "clearing"]>> \o Tail(@)]
    <3>1. Top(c)'.pc = "undeploy"
      BY <2>1, <2>3, ClearMoves
    <3> QED BY <1>2, <3>1 DEF PastPut
  <2> QED BY <1>9, <2>2, <2>3 DEF Clear
<1>10. CASE Cleared(c)
  BY <1>7, <1>10 DEF Cleared, At, DeployPcs, UndeployPcs, Untyped, PastPut
<1>11. CASE Check(c)
  <2>1. call[c] # <<>> /\ Top(c).pc = "check"
    BY <1>11 DEF Check, At
  <2>2. CASE DeployedConfig(App(c)) = Top(c).spec /\ Go(c, "observe")
    <3>1. Top(c).spec \in Specs
      BY <2>1, TopTyped DEF FrameOK, DeployPcs
    <3>2. Deployed(Top(c).key)
      BY <2>2, <3>1 DEF Deployed, App, ServeAssumption
    <3> QED BY <1>7, <2>1, <2>2, <3>2 DEF DeployPcs, UndeployPcs, Untyped
  <2>3. CASE Go(c, "list")
    BY <1>7, <2>1, <2>3 DEF DeployPcs, UndeployPcs, Untyped, PastPut
  <2> QED BY <1>11, <2>2, <2>3 DEF Check
<1>12. CASE List(c) \/ UndeployList(c) \/ Observe(c)
  <2>1. /\ call[c] # <<>> /\ Top(c).key \in Keys
        /\ Top(c).pc \in {"list", "undeploy", "observe", "observe again"}
    <3>1. call[c] # <<>> /\ Top(c).pc \in {"list", "undeploy", "observe", "observe again"}
      BY <1>12 DEF List, UndeployList, Observe, At
    <3> QED BY <3>1, TopTyped DEF Frame
  <2>2. CurrentSpecs \in Listing /\ PhaseForDeployer(App(c)) \in Phases \ {"not_deployed"}
    BY <2>1, ReadsTyped DEF App
  <2>3. CASE List(c)
    <3>1. Top(c)'.pc = "put"
      BY <2>1, <2>2, <2>3, HoldTurns DEF List, At, DeployPcs, UndeployPcs
    <3> QED BY <1>2, <3>1 DEF PastPut
  <2>4. CASE UndeployList(c)
    <3>1. Top(c)'.pc = "put rest"
      BY <2>1, <2>2, <2>4, HoldTurns DEF UndeployList, At, DeployPcs, UndeployPcs
    <3> QED BY <1>2, <3>1 DEF PastPut
  <2>5. CASE Observe(c)
    <3>1. Top(c)'.key = Top(c).key
      BY <2>1, <2>2, <2>5, HoldTurns DEF Observe, At, DeployPcs, UndeployPcs
    <3>2. Top(c).pc \in PastPut
      BY <2>5 DEF Observe, At, PastPut
    <3> QED BY <1>3, <2>1, <3>1, <3>2
  <2> QED BY <1>12, <2>3, <2>4, <2>5
<1>13. CASE Save(c)
  <2>1. call[c] # <<>> /\ Top(c).pc = "save"
    BY <1>13 DEF Save, At
  <2>2. CASE Go(c, "wait")
    BY <1>7, <2>1, <2>2 DEF DeployPcs, UndeployPcs, Untyped, PastPut
  <2> QED BY <1>6, <1>13, <2>1, <2>2 DEF Save
<1>14. CASE SeeRunning(c)
  <2>1. call[c] # <<>> /\ Top(c).pc \in {"wait", "wait on record"}
    BY <1>14 DEF SeeRunning, At
  <2>2. CASE Top(c).pc = "wait" /\ Go(c, "observe again")
    BY <1>7, <2>1, <2>2 DEF DeployPcs, UndeployPcs, Untyped, PastPut
  <2> QED BY <1>6, <1>14, <2>1, <2>2 DEF SeeRunning
<1>15. CASE Patch(c) \/ Forget(c)
  <2>1. call[c] # <<>> /\ Return(c)
    BY <1>15 DEF Patch, Forget, At
  <2> QED BY <1>6, <2>1
<1> QED BY <1>4, <1>5, <1>8, <1>9, <1>10, <1>11, <1>12, <1>13, <1>14, <1>15 DEF Quiet

\* A PUT deploys the caller's own application, and takes down no other.
LEMMA PutStands ==
  ASSUME ServeAssumption, EntryAssumption, TypeInv, CallInv, ~overlapped, NEW c \in Callers,
         At(c, "put"), PutOwn(c)
  PROVE  DeployedConfig(apps'[Top(c).key]) # Nothing /\ Standing \subseteq Standing'
<1>1. PutApplications([Top(c).seen EXCEPT ![Top(c).key] = Top(c).spec]) /\ Top(c).spec \in Specs
  BY PutsListing DEF PutOwn
<1>2. Top(c).key \in Keys
  BY PutsListing
<1>3. /\ DeployedConfig(apps'[Top(c).key]) = Top(c).spec
      /\ \A k \in Keys \ {Top(c).key} : Deployed(k) => Deployed(k)'
  BY <1>1, PutKeeps
<1>4. Top(c).spec # Nothing
  BY <1>1 DEF ServeAssumption
<1>5. DeployedConfig(apps'[Top(c).key]) # Nothing
  BY <1>3, <1>4
<1>6. ASSUME NEW k \in Standing PROVE k \in Standing'
  <2>1. CASE k = Top(c).key
    BY <1>2, <1>5, <2>1 DEF Standing, Deployed
  <2>2. CASE k # Top(c).key
    BY <1>3, <2>2 DEF Standing
  <2> QED BY <2>1, <2>2
<1> QED BY <1>5, <1>6

\* A caller keeps what is required.
LEMMA CallerKeepsRequired ==
  ASSUME ServeAssumption, EntryAssumption, TypeInv, StackInv, CallInv, ReqInv, NEW c \in Callers,
         Start(c) \/ Deploy(c) \/ Undeploy(c) \/ TimeOut(c) \/ CallFails(c)
  PROVE  ReqInv'
<1> USE DEF TypeInv
<1>1. lost' = lost /\ (overlapped => overlapped')
  <2>1. CASE Quiet(c)
    BY <2>1, QuietIsQuiet DEF OnlyCall, ghostVars
  <2>2. CASE Start(c)
    <3>1. \E f : StartCall(c, f)
      BY <2>2 DEF Start, StartDeploy, StartUndeploy
    <3>2. PICK f : StartCall(c, f)
      BY <3>1
    <3> QED BY <3>2, Zenon DEF StartCall
  <2>3. CASE Put(c) \/ Save(c) \/ Patch(c) \/ UndeployPut(c) \/ Forget(c) \/ CallFails(c)
    <3>1. UNCHANGED ghostVars
      BY <2>3 DEF Put, Save, Patch, UndeployPut, Forget, CallFails
    <3> QED BY <3>1 DEF ghostVars
  <2> QED BY <2>1, <2>2, <2>3, CallerSteps
<1> SUFFICES ASSUME ~overlapped', ~lost', NEW d \in Callers
             PROVE  Met(call'[d], Standing') /\ OwnStands(d)'
  BY DEF ReqInv
<1>2. ~overlapped /\ ~lost /\ \A e \in Callers : Met(call[e], Standing) /\ OwnStands(e)
  BY <1>1 DEF ReqInv, TablesTyped
<1>3. Others(c) /\ Moves(call[c], call'[c]) /\ call[c] \in Seq(TypedFrame)
  BY CallerMoves DEF CallsTyped
<1>4. Met(call'[c], Standing)
  <2>1. Returns(call[c], call'[c]) /\ call'[c] # <<>> /\ Deploying(call[c][1]) => call[c][1].key \in Standing
    BY <1>2, ReturnsStanding
  <2>2. Met(call[c], Standing)
    BY <1>2
  <2> QED BY <1>3, <2>1, <2>2, MovesKeepMet
<1>5. ASSUME call'[d] = <<>> PROVE Met(call'[d], Standing') /\ OwnStands(d)'
  BY <1>5 DEF Met, OwnStands
<1>6. ASSUME Quiet(c) \/ Start(c) \/ Save(c) \/ Patch(c) \/ Forget(c)
      PROVE  Met(call'[d], Standing') /\ OwnStands(d)'
  <2>1. OwnStands(c)' /\ UNCHANGED apps
    BY <1>2, <1>6, OwnStaysStanding
  <2>2. Standing' = Standing
    BY <2>1 DEF Standing, Deployed
  <2>3. CASE d = c
    BY <1>4, <2>1, <2>2, <2>3
  <2>4. CASE d # c
    <3>1. call'[d] = call[d]
      BY <1>3, <2>4 DEF Others
    <3>2. OwnStands(d)'
      BY <1>2, <2>1, <3>1 DEF OwnStands, Top, Deployed
    <3> QED BY <1>2, <2>2, <3>1, <3>2
  <2> QED BY <2>3, <2>4
<1>7. ASSUME call[c] # <<>>, d # c PROVE call'[d] = <<>>
  BY <1>2, <1>3, <1>7, OneCall DEF Others
<1>8. CASE Put(c)
  <2>1. At(c, "put") /\ PutOwn(c) /\ Go(c, "observe") /\ call[c] # <<>> /\ Top(c).pc = "put"
    BY <1>8 DEF Put, At
  <2>2. DeployedConfig(apps'[Top(c).key]) # Nothing /\ Standing \subseteq Standing'
    BY <1>2, <2>1, PutStands
  <2>3. Top(c)'.key = Top(c).key
    BY <2>1, GoTurns DEF DeployPcs, UndeployPcs, Untyped
  <2>4. OwnStands(c)'
    BY <2>2, <2>3 DEF OwnStands, Deployed
  <2>5. Met(call'[c], Standing')
    BY <1>4, <2>2, MoreStands
  <2> QED BY <1>5, <1>7, <2>1, <2>4, <2>5
<1>9. CASE UndeployPut(c)
  <2>1. /\ At(c, "put rest") /\ Top(c).pc = "put rest" /\ Go(c, "forget") /\ call[c] # <<>>
        /\ PutApplications([Top(c).seen EXCEPT ![Top(c).key] = Nothing])
    BY <1>9 DEF UndeployPut, PutRest, At
  <2>2. Top(c) = call[c][1] /\ ~Deploying(Top(c))
    BY <2>1, TopTyped DEF Deploying, DeployPcs
  <2>3. Standing \ {Top(c).key} \subseteq Standing'
    <3>1. \A k \in Keys \ {Top(c).key} : Deployed(k) => Deployed(k)'
      BY <1>2, <2>1, PutKeeps
    <3> QED BY <3>1 DEF Standing
  <2>4. Met(call[c], Standing \ {call[c][1].key})
    BY <1>2, <1>3, <2>1, <2>2, UndeployKeepsMet DEF StackInv
  <2>5. Turns(call[c], call'[c]) /\ Top(c)'.pc = "forget"
    BY <2>1, GoTurns DEF DeployPcs, UndeployPcs, Untyped
  <2>6. Met(call'[c], Standing \ {call[c][1].key})
    BY <1>3, <2>4, <2>5, TurnKeepsMet
  <2>7. Met(call'[c], Standing')
    BY <2>2, <2>3, <2>6, MoreStands
  <2>8. OwnStands(c)'
    BY <2>5 DEF OwnStands, PastPut
  <2> QED BY <1>5, <1>7, <2>1, <2>7, <2>8
<1>10. CASE CallFails(c)
  <2>1. call[c] # <<>> /\ call'[c] = <<>>
    BY <1>10, RaiseEnds DEF CallFails
  <2> QED BY <1>5, <1>7, <2>1
<1> QED BY <1>6, <1>8, <1>9, <1>10, CallerSteps

LEMMA StepKeepsRequired ==
  ASSUME ServeAssumption, EntryAssumption, TypeInv, StackInv, CallInv, ReqInv, [Next]_vars
  PROVE  ReqInv'
<1>1. ASSUME Standing \subseteq Standing', UNCHANGED <<call, overlapped, lost>>
      PROVE  ReqInv'
  <2> SUFFICES ASSUME ~overlapped, ~lost, NEW c \in Callers
               PROVE  Met(call[c], Standing') /\ OwnStands(c)'
    BY <1>1 DEF ReqInv
  <2>1. Met(call[c], Standing) /\ OwnStands(c)
    BY DEF ReqInv
  <2>2. OwnStands(c)'
    <3> SUFFICES ASSUME call[c] # <<>>, Top(c).pc \in PastPut
                 PROVE  DeployedConfig(apps'[Top(c).key]) # Nothing
      BY <1>1 DEF OwnStands, Top, Deployed
    <3>1. Top(c).key \in Standing
      BY <2>1, TopTyped DEF OwnStands, TypeInv, Frame, Standing
    <3>2. Top(c).key \in Standing'
      BY <1>1, <3>1
    <3> QED BY <3>2 DEF Standing, Deployed
  <2> QED BY <1>1, <2>1, <2>2, MoreStands
<1>2. CASE UNCHANGED vars \/ Change \/ ObserveDeployments \/ ObserverFails
  <2>1. UNCHANGED <<apps, call, overlapped, lost>>
    BY <1>2, ChangeTyped, PollerTyped DEF vars, ghostVars
  <2>2. Standing' = Standing
    BY <2>1 DEF Standing, Deployed
  <2> QED BY <1>1, <2>1, <2>2
<1>3. CASE Serve
  <2>1. AppsStay /\ UNCHANGED <<call, overlapped, lost>>
    BY <1>3, ServeTyped DEF ghostVars
  <2>2. Standing \subseteq Standing'
    BY <2>1 DEF AppsStay, Standing, Deployed
  <2> QED BY <1>1, <2>1, <2>2
<1>4. CASE ServeLoses
  BY <1>4, LosesTyped DEF ReqInv
<1>5. ASSUME NEW c \in Callers,
             Start(c) \/ Deploy(c) \/ Undeploy(c) \/ TimeOut(c) \/ CallFails(c)
      PROVE  ReqInv'
  BY <1>5, CallerKeepsRequired
<1> QED BY <1>2, <1>3, <1>4, <1>5 DEF Next

\* When calls do not overlap and Serve has kept its applications, all that a model requires is
\* deployed when the model is, even where a record would have answered for it.
THEOREM RequiredStand == Spec => RequiredAreThere
<1>1. Init => ReqInv
  BY DEF Init, ReqInv, Met, OwnStands
<1>2. ServeInv /\ ReqInv /\ [Next]_vars => ReqInv'
  BY StepKeepsRequired, ServeAssumption, EntryAssumption DEF ServeInv
<1>3. ServeInv /\ ReqInv /\ [Next]_vars =>
        [\A c \in Callers : Put(c) /\ ~overlapped /\ ~lost =>
           \A i \in DOMAIN Requires[Top(c).key] :
             DeployedConfig(apps[Requires[Top(c).key][i]]) # Nothing]_vars
  <2> SUFFICES ASSUME ServeInv, ReqInv, NEW c \in Callers, Put(c), ~overlapped, ~lost,
                      NEW i \in DOMAIN Requires[Top(c).key]
               PROVE  Deployed(Requires[Top(c).key][i])
    BY DEF Deployed
  <2>1. call[c] # <<>> /\ Top(c).pc = "put"
    BY DEF Put, At
  <2>2. /\ Top(c) = call[c][1] /\ Top(c) \in Frame /\ 1 \in 1..Len(call[c])
    BY <2>1, TopTyped DEF ServeInv, TypeInv
  <2>3. Deploying(call[c][1]) /\ call[c][1].todo = <<>>
    BY <2>1, <2>2 DEF Deploying, DeployPcs, ServeInv, StackInv, StackOK, Provided
  <2> DEFINE k == Requires[Top(c).key][i]
  <2>4. k \in Keys /\ Among(k, Requires[call[c][1].key])
    <3>1. Top(c).key \in Keys
      BY <2>2 DEF Frame
    <3>2. Requires[Top(c).key] \in Seq(Keys)
      BY <3>1, ServeAssumption DEF ServeAssumption
    <3> QED BY <2>2, <3>2 DEF Among
  <2>5. Met(call[c], Standing)
    BY DEF ReqInv
  <2> HIDE DEF k
  <2>6. k \in Standing \/ Among(k, call[c][1].todo) \/ Over(call[c], 1, k)
    BY <2>2, <2>3, <2>4, <2>5 DEF Met
  <2>7. ~Among(k, <<>>) /\ ~Over(call[c], 1, k)
    BY DEF Among, Over
  <2>8. k \in Standing
    BY <2>3, <2>6, <2>7
  <2> QED BY <2>8 DEF Standing, k
<1> QED BY <1>1, <1>2, <1>3, ServeInvHolds, PTL DEF Spec, RequiredAreThere
=============================================================================
