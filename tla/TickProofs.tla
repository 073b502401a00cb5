----------------------------- MODULE TickProofs -----------------------------
(***************************************************************************)
(* Tick for any tree, any caps and any number of commands: a tick counts   *)
(* every ticket that is dispatched, and no engine goes over its cap.       *)
(***************************************************************************)
EXTENDS Tick, FiniteSetTheorems, TLAPS

LEMMA AppliesIsStatus ==
  ASSUME NEW s \in Status, NEW c \in Transition, Applies(s, c)
  PROVE  /\ Apply(s, c).to \in Status
         /\ Apply(s, c).to = "dispatched" => c = "dispatch"
<1>1. CASE s = "open"
  BY <1>1 DEF Applies, Apply, transitions, Definition, Status
<1>2. CASE s = "dispatched"
  BY <1>2 DEF Applies, Apply, transitions, Definition, Status
<1>3. CASE s = "failed"
  BY <1>3 DEF Applies, Apply, transitions, Definition, Status
<1>4. CASE s = "blocked"
  BY <1>4 DEF Applies, Apply, transitions, Definition, Status
<1>5. CASE s = "done"
  BY <1>5 DEF Applies, Apply, transitions, Definition, Status
<1>6. CASE s = "closed"
  BY <1>6 DEF Applies, transitions
<1> QED BY <1>1, <1>2, <1>3, <1>4, <1>5, <1>6 DEF Status

\* What the variables of the cards look like, on disk.
CardsTyped ==
  /\ status \in [Tickets -> Status]
  /\ age \in [Tickets -> Age]
  /\ \A t \in Tickets : status[t] # "dispatched" => age[t] = 0
  /\ changed \in BOOLEAN

\* What the variables of the ticks look like.
TickTyped ==
  /\ sinceCheck \in 0 .. Interval
  /\ cache \in [ready : Nat, running : SUBSET Tickets]
  /\ tick \in Working \cup {Idle, Dead}
  /\ commands \in 0 .. MaxCommands

LEMMA TypeParts == TypeOK <=> CardsTyped /\ TickTyped
BY DEF TypeOK, CardsTyped, TickTyped

LEMMA Rewritten ==
  ASSUME CardsTyped, NEW t \in Tickets, NEW s \in Status, NEW a \in Age,
         s # "dispatched" => a = 0, Rewrite(t, s, a)
  PROVE  CardsTyped'
BY DEF CardsTyped, Rewrite

LEMMA LeftAlone ==
  ASSUME CardsTyped, Untouched
  PROVE  CardsTyped'
BY DEF CardsTyped, Untouched

LEMMA ZeroAge == 0 \in Age
BY BoundsAssumption DEF Age

LEMMA PhaseTyped ==
  ASSUME TickTyped, NEW pc, Phase(pc)
  PROVE  tick \in Working
BY DEF TickTyped, Phase

LEMMA InIsSubset == \A s, st : In(s, st) \subseteq Tickets
BY DEF In

LEMMA CardsStayTyped ==
  ASSUME TypeOK, Next
  PROVE  CardsTyped'
<1> USE ZeroAge
<1>0. CardsTyped /\ TickTyped
  BY TypeParts
<1>1. CASE Load \/ StartStall \/ StartDispatch \/ EndDispatch \/ Restat \/ Dies
  BY <1>0, <1>1, LeftAlone DEF Load, StartStall, StartDispatch, EndDispatch, Restat, Dies
<1>2. CASE Save
  <2>1. tick \in Working
    BY <1>0, <1>2, PhaseTyped DEF Save
  <2> QED BY <1>0, <1>2, <2>1 DEF Save, CardsTyped, Working
<1>3. ASSUME NEW t \in Tickets, Reconcile(t)
      PROVE  CardsTyped'
  <2>1. tick \in Working
    BY <1>0, <1>3, PhaseTyped DEF Reconcile
  <2>2. tick.slice.age[t] \in Age
    BY <2>1 DEF Working
  <2>3. CASE Untouched
    BY <1>0, <2>3, LeftAlone
  <2>4. ASSUME NEW s \in {"dispatched", "done", "failed", "blocked"},
               Rewrite(t, s, IF s = "dispatched" THEN tick.slice.age[t] ELSE 0)
        PROVE  CardsTyped'
    BY <1>0, <2>2, <2>4, Rewritten DEF Status
  <2> QED BY <1>3, <2>3, <2>4 DEF Reconcile
<1>4. ASSUME NEW t \in Tickets, Stall(t)
      PROVE  CardsTyped'
  <2>1. ASSUME NEW s \in {"failed", "blocked"}, Rewrite(t, s, 0)
        PROVE  CardsTyped'
    BY <1>0, <2>1, Rewritten DEF Status
  <2> QED BY <1>0, <1>4, <2>1, LeftAlone DEF Stall
<1>5. ASSUME NEW t \in Tickets, Launch(t)
      PROVE  CardsTyped'
  BY <1>0, <1>5, Rewritten DEF Launch, Status
<1>6. ASSUME NEW t \in Tickets, PassOver(t)
      PROVE  CardsTyped'
  BY <1>0, <1>6, LeftAlone DEF PassOver
<1>7. CASE TimePasses
  BY <1>0, <1>7, BoundsAssumption DEF TimePasses, CardsTyped, Age
<1>8. ASSUME NEW t \in Tickets, NEW c \in ByHand, Command(t, c)
      PROVE  CardsTyped'
  <2>1. status[t] \in Status /\ c \in Transition
    BY <1>0, ByHandAssumption DEF CardsTyped
  <2>2. \A s \in {Apply(status[t], c).to} \cup {"blocked"} : s \in Status
    BY <1>8, <2>1, AppliesIsStatus DEF Command, Status
  <2>3. \E s \in Status : Rewrite(t, s, 0)
    BY <1>8, <2>2 DEF Command
  <2> QED BY <1>0, <2>3, Rewritten
<1> QED
  BY <1>1, <1>2, <1>3, <1>4, <1>5, <1>6, <1>7, <1>8 DEF Next, Proceed

LEMMA IdleIsNotWorking == Idle \notin Working /\ Dead \notin Working
BY DEF Idle, Dead, Working

LEMMA TickStaysTyped ==
  ASSUME TypeOK, Next
  PROVE  TickTyped'
<1> USE ZeroAge
<1>0. CardsTyped /\ TickTyped
  BY TypeParts
<1>a. Kept => (TickTyped' <=> tick' \in Working \cup {Idle, Dead})
  BY <1>0 DEF Kept, TickTyped
<1>1. CASE Load
  <2>1. tick' \in Working
    BY <1>0, <1>1, BoundsAssumption, InIsSubset DEF Load, Working, CardsTyped, WindowOpen
  <2> QED BY <1>a, <1>1, <2>1 DEF Load
<1>2. CASE StartStall
  <2>1. tick \in Working
    BY <1>0, <1>2, PhaseTyped DEF StartStall
  <2>2. tick' \in Working
    BY <1>2, <2>1, InIsSubset DEF StartStall, Working
  <2> QED BY <1>a, <1>2, <2>2 DEF StartStall
<1>3. CASE StartDispatch
  <2>1. tick \in Working
    BY <1>0, <1>3, PhaseTyped DEF StartDispatch
  <2>2. Eligible(tick.slice.status) \subseteq Tickets
    BY InIsSubset DEF Eligible, OpenReady
  <2>3. tick' \in Working
    BY <1>3, <2>1, <2>2, InIsSubset DEF StartDispatch, Working
  <2> QED BY <1>a, <1>3, <2>3 DEF StartDispatch
<1>4. CASE EndDispatch
  <2>1. tick \in Working
    BY <1>0, <1>4, PhaseTyped DEF EndDispatch
  <2>2. tick' \in Working
    BY <1>4, <2>1 DEF EndDispatch, Working
  <2> QED BY <1>a, <1>4, <2>2 DEF EndDispatch
<1>5. CASE Restat
  <2>1. tick \in Working
    BY <1>0, <1>5, PhaseTyped DEF Restat
  <2>2. tick' \in Working
    BY <1>5, <2>1 DEF Restat, Working
  <2> QED BY <1>a, <1>5, <2>2 DEF Restat
<1>6. CASE Save
  <2>1. OpenReady(status) \subseteq Tickets /\ In("dispatched", status) \subseteq Tickets
    BY InIsSubset DEF OpenReady
  <2>2. Cardinality(OpenReady(status)) \in Nat
    BY <2>1, TicketsAssumption, FS_Subset, FS_CardinalityType
  <2> QED BY <1>0, <1>6, <2>1, <2>2, BoundsAssumption DEF Save, TickTyped
<1>7. CASE Dies
  BY <1>a, <1>7 DEF Dies
<1>8. CASE TimePasses
  BY <1>0, <1>8, BoundsAssumption DEF TimePasses, TickTyped, WindowOpen
<1>9. ASSUME NEW t \in Tickets, Reconcile(t)
      PROVE  TickTyped'
  <2>1. tick \in Working
    BY <1>0, <1>9, PhaseTyped DEF Reconcile
  <2>2. Done(t) \in Working
    BY <2>1 DEF Done, Working
  <2>3. ASSUME NEW s \in {"dispatched", "done", "failed", "blocked"},
               tick' = [Done(t) EXCEPT !.slice.status[t] = s,
                          !.slice.age[t] = IF s = "dispatched" THEN @ ELSE 0]
        PROVE  tick' \in Working
    BY <2>2, <2>3 DEF Working, Status
  <2>4. tick' \in Working
    BY <1>9, <2>2, <2>3 DEF Reconcile
  <2> QED BY <1>a, <1>9, <2>4 DEF Reconcile
<1>10. ASSUME NEW t \in Tickets, Stall(t) \/ PassOver(t)
       PROVE  TickTyped'
  <2>1. tick \in Working
    BY <1>0, <1>10, PhaseTyped DEF Stall, PassOver
  <2>2. tick' \in Working
    BY <1>10, <2>1 DEF Stall, PassOver, Done, Working
  <2> QED BY <1>a, <1>10, <2>2 DEF Stall, PassOver
<1>11. ASSUME NEW t \in Tickets, Launch(t)
       PROVE  TickTyped'
  <2>1. tick \in Working
    BY <1>0, <1>11, PhaseTyped DEF Launch
  <2>2. tick.started + 1 \in 0 .. MaxDispatch
    BY <1>11, <2>1, BoundsAssumption DEF Launch, Working
  <2>3. tick' \in Working
    BY <1>11, <2>1, <2>2 DEF Launch, Done, Working
  <2> QED BY <1>a, <1>11, <2>3 DEF Launch
<1>12. ASSUME NEW t \in Tickets, NEW c \in ByHand, Command(t, c)
       PROVE  TickTyped'
  <2>1. ASSUME Phase("reload")
        PROVE  [tick EXCEPT !.moved = TRUE] \in Working
    BY <1>0, <2>1, PhaseTyped DEF Working
  <2>2. tick' \in Working \cup {Idle, Dead}
    BY <1>0, <1>12, <2>1 DEF Command, TickTyped
  <2> QED BY <1>0, <1>12, <2>2, BoundsAssumption DEF Command, TickTyped
<1> QED
  BY <1>1, <1>2, <1>3, <1>4, <1>5, <1>6, <1>7, <1>8, <1>9, <1>10, <1>11, <1>12
     DEF Next, Proceed

LEMMA StepTypeOK ==
  ASSUME TypeOK, [Next]_vars
  PROVE  TypeOK'
<1>1. CASE Next
  <2>1. CardsTyped' /\ TickTyped'
    BY <1>1, CardsStayTyped, TickStaysTyped
  <2> QED BY <2>1 DEF TypeOK, CardsTyped, TickTyped
<1>2. CASE UNCHANGED vars
  BY <1>2 DEF vars, TypeOK
<1> QED BY <1>1, <1>2

\* The values of all variables stay within their types.
THEOREM TickTypeOK == Spec => []TypeOK
<1>1. Init => TypeOK
  BY BoundsAssumption, ZeroAge DEF Init, TypeOK, Status
<1>2. TypeOK /\ [Next]_vars => TypeOK'
  BY StepTypeOK
<1> QED BY <1>1, <1>2, PTL DEF Spec

-----------------------------------------------------------------------------
(* What a tick counts.                                                      *)

LEMMA LoadCounts ==
  ASSUME Load
  PROVE  Counted'
BY DEF Load, Counted, Phase, Untouched, In

LEMMA ReconcileCounts ==
  ASSUME TypeOK, Counted, NEW t \in Tickets, Reconcile(t)
  PROVE  Counted'
<1>1. tick \in Working
  BY TypeParts, PhaseTyped DEF Reconcile
<1>2. In("dispatched", status) \subseteq In("dispatched", tick.slice.status)
  BY DEF Counted, Reconcile
<1>3. CASE Untouched /\ tick' = Done(t)
  BY <1>1, <1>2, <1>3 DEF Untouched, Done, Counted, Phase, Reconcile, Working, In
<1>4. ASSUME NEW s \in {"dispatched", "done", "failed", "blocked"}, NEW a,
             Rewrite(t, s, a),
             tick' = [Done(t) EXCEPT !.slice.status[t] = s,
                        !.slice.age[t] = IF s = "dispatched" THEN @ ELSE 0]
      PROVE  Counted'
  <2>1. /\ tick'.pc = "reconcile"
        /\ tick'.slice.status = [tick.slice.status EXCEPT ![t] = s]
    BY <1>1, <1>4 DEF Done, Working, Reconcile, Phase
  <2>2. tick.slice.status \in [Tickets -> Status] /\ status \in [Tickets -> Status]
    BY <1>1 DEF Working, TypeOK
  <2>3. \A u \in Tickets :
          status'[u] = "dispatched" => tick'.slice.status[u] = "dispatched"
    BY <1>2, <1>4, <2>1, <2>2 DEF Rewrite, In
  <2> QED BY <2>1, <2>3 DEF Counted, Phase, In
<1> QED BY <1>3, <1>4 DEF Reconcile

LEMMA StallCounts ==
  ASSUME TypeOK, Counted, NEW t \in Tickets, Stall(t)
  PROVE  Counted'
<1>1. tick \in Working
  BY TypeParts, PhaseTyped DEF Stall
<1>2. In("dispatched", status) \subseteq In("dispatched", tick.slice.status)
  BY DEF Counted, Stall
<1>3. In("dispatched", status') \subseteq In("dispatched", status)
  BY DEF Stall, Rewrite, Untouched, In, TypeOK
<1>4. tick'.pc = "stall" /\ tick'.slice = tick.slice
  BY <1>1 DEF Stall, Done, Working, Phase
<1> QED BY <1>2, <1>3, <1>4 DEF Counted, Phase, In

LEMMA DispatchCounts ==
  ASSUME TypeOK, Counted, NEW t \in Tickets, Launch(t) \/ PassOver(t)
  PROVE  Counted'
<1>1. tick \in Working
  BY TypeParts, PhaseTyped DEF Launch, PassOver
<1>2. In("dispatched", status) \subseteq tick.counted
  BY DEF Counted, Launch, PassOver
<1>3. CASE Launch(t)
  <2>1. tick'.pc = "dispatch" /\ tick'.counted = tick.counted \cup {t}
    BY <1>1, <1>3 DEF Launch, Done, Working, Phase
  <2>2. In("dispatched", status') \subseteq In("dispatched", status) \cup {t}
    BY <1>3 DEF Launch, Rewrite, In, TypeOK
  <2> QED BY <1>2, <2>1, <2>2 DEF Counted, Phase, In
<1>4. CASE PassOver(t)
  <2>1. tick'.pc = "dispatch" /\ tick'.counted = tick.counted
    BY <1>1, <1>4 DEF PassOver, Done, Working, Phase
  <2> QED BY <1>2, <1>4, <2>1 DEF PassOver, Untouched, Counted, Phase, In
<1> QED BY <1>3, <1>4

LEMMA PhasesCount ==
  ASSUME TypeOK, Counted, StartStall \/ StartDispatch
  PROVE  Counted'
<1>1. tick \in Working
  BY TypeParts, PhaseTyped DEF StartStall, StartDispatch
<1>2. In("dispatched", status) \subseteq In("dispatched", tick.slice.status)
  BY DEF Counted, StartStall, StartDispatch
<1>3. CASE StartStall
  <2>1. tick'.pc = "stall" /\ tick'.slice = tick.slice
    BY <1>1, <1>3 DEF StartStall, Working
  <2> QED BY <1>2, <1>3, <2>1 DEF StartStall, Untouched, Counted, Phase, In
<1>4. CASE StartDispatch
  <2>1. tick'.pc = "dispatch" /\ tick'.counted = In("dispatched", tick.slice.status)
    BY <1>1, <1>4 DEF StartDispatch, Working
  <2> QED BY <1>2, <1>4, <2>1 DEF StartDispatch, Untouched, Counted, Phase, In
<1> QED BY <1>3, <1>4

LEMMA OutsideCounts ==
  ASSUME TypeOK, EndDispatch \/ Restat \/ Save \/ Dies
  PROVE  Counted'
<1>1. EndDispatch \/ Restat => tick \in Working
  BY TypeParts, PhaseTyped DEF EndDispatch, Restat
<1>2. tick' \in {Idle, Dead} \/ tick'.pc \in {"restat", "reload"}
  BY <1>1 DEF EndDispatch, Restat, Save, Dies, Working
<1> QED BY <1>2 DEF Counted, Phase

\* A command but "dispatch" takes tickets out of dispatched only.
LEMMA CommandCounts ==
  ASSUME "dispatch" \notin ByHand, TypeOK, Counted,
         NEW t \in Tickets, NEW c \in ByHand, Command(t, c)
  PROVE  Counted'
<1>1. Apply(status[t], c).to # "dispatched"
  BY AppliesIsStatus, ByHandAssumption DEF Command, TypeOK
<1>2. \E s : s # "dispatched" /\ Rewrite(t, s, 0)
  BY <1>1 DEF Command
<1>3. In("dispatched", status') \subseteq In("dispatched", status)
  BY <1>2 DEF Rewrite, In, TypeOK
<1>4. CASE Phase("reload")
  <2>1. tick \in Working
    BY <1>4, TypeParts, PhaseTyped
  <2>2. tick'.pc = "reload"
    BY <1>4, <2>1 DEF Command, Phase, Working
  <2> QED BY <2>2 DEF Counted, Phase
<1>5. CASE ~Phase("reload")
  BY <1>3, <1>5 DEF Command, Counted, Phase, In
<1> QED BY <1>4, <1>5

LEMMA StepCounted ==
  ASSUME "dispatch" \notin ByHand, TypeOK, Counted, [Next]_vars
  PROVE  Counted'
<1>1. CASE UNCHANGED vars
  BY <1>1 DEF vars, Counted, Phase, In
<1>2. CASE Load \/ StartStall \/ StartDispatch \/ EndDispatch \/ Restat \/ Save \/ Dies
  BY <1>2, LoadCounts, PhasesCount, OutsideCounts
<1>3. ASSUME NEW t \in Tickets, Reconcile(t) \/ Stall(t) \/ Launch(t) \/ PassOver(t)
      PROVE  Counted'
  BY <1>3, ReconcileCounts, StallCounts, DispatchCounts
<1>4. CASE TimePasses
  BY <1>4 DEF TimePasses, Counted, Phase
<1>5. ASSUME NEW t \in Tickets, NEW c \in ByHand, Command(t, c)
      PROVE  Counted'
  BY <1>5, CommandCounts
<1> QED BY <1>1, <1>2, <1>3, <1>4, <1>5 DEF Next, Proceed

\* Whatever people and reconcile do to the cards while a tick works on its old
\* slice, no dispatched ticket is missing from what the tick counts, as long
\* as only ticks dispatch.
THEOREM TickCounted ==
  ASSUME "dispatch" \notin ByHand
  PROVE  Spec => []Counted
<1>1. Init => Counted
  BY DEF Init, Counted, Phase
<1>2. TypeOK /\ Counted /\ [Next]_vars => Counted'
  BY StepCounted
<1> QED BY <1>1, <1>2, TickTypeOK, PTL DEF Spec

-----------------------------------------------------------------------------
(* What the tickets of a set weigh.  The fold adds their weights up in some *)
(* order; it comes to the number of units they are made of, whatever the    *)
(* order, and so grows with the set.                                        *)

\* A collection of parts of a finite set has a least member: what stands in
\* for induction.
LEMMA LeastPart ==
  ASSUME NEW S, IsFiniteSet(S), NEW B, B \subseteq SUBSET S, B # {}
  PROVE  \E T \in B : \A U \in B : U \subseteq T => U = T
<1>1. FiniteSubsetsOf(S) = SUBSET S
  BY FS_FiniteSubsetsOfFinite
<1>2. IsWellFoundedOn(StrictSubsetOrdering(S), SUBSET S)
  BY <1>1, FS_StrictSubsetOrderingWellFounded
<1>3. PICK T \in B : \A U \in B : ~(<<U, T>> \in StrictSubsetOrdering(S))
  BY <1>2, WFMin, Zenon
<1> QED BY <1>3 DEF StrictSubsetOrdering

Units(T) == UNION {{t} \X (1 .. WeightOf[t]) : t \in T}

LEMMA UnitsOfOne ==
  ASSUME NEW t \in Tickets
  PROVE  /\ IsFiniteSet({t} \X (1 .. WeightOf[t]))
         /\ Cardinality({t} \X (1 .. WeightOf[t])) = WeightOf[t]
<1>1. WeightOf[t] \in Nat /\ WeightOf[t] > 0
  BY WeightAssumption
<1>2. IsFiniteSet({t}) /\ Cardinality({t}) = 1
  BY FS_Singleton
<1>3. /\ IsFiniteSet(1 .. WeightOf[t])
      /\ Cardinality(1 .. WeightOf[t]) =
           IF 1 > WeightOf[t] THEN 0 ELSE WeightOf[t] - 1 + 1
  BY <1>1, FS_Interval
<1>4. Cardinality(1 .. WeightOf[t]) = WeightOf[t]
  BY <1>1, <1>3
<1>5. /\ IsFiniteSet({t} \X (1 .. WeightOf[t]))
      /\ Cardinality({t} \X (1 .. WeightOf[t])) = Cardinality({t}) * Cardinality(1 .. WeightOf[t])
  BY <1>2, <1>3, FS_Product
<1>6. Cardinality({t} \X (1 .. WeightOf[t])) = 1 * WeightOf[t]
  BY <1>2, <1>4, <1>5
<1> QED BY <1>1, <1>5, <1>6

LEMMA UnitsSplit ==
  ASSUME NEW T, NEW x \in T
  PROVE  /\ Units(T) = Units(T \ {x}) \cup ({x} \X (1 .. WeightOf[x]))
         /\ Units(T \ {x}) \cap ({x} \X (1 .. WeightOf[x])) = {}
BY DEF Units

LEMMA UnitsFinite ==
  ASSUME NEW T \in SUBSET Tickets
  PROVE  IsFiniteSet(Units(T))
<1> DEFINE B == {U \in SUBSET Tickets : ~IsFiniteSet(Units(U))}
<1>1. SUFFICES ASSUME B # {} PROVE FALSE
  OBVIOUS
<1>2. PICK U \in B : \A V \in B : V \subseteq U => V = U
  <2> HIDE DEF B
  <2>1. B \subseteq SUBSET Tickets /\ IsFiniteSet(Tickets)
    BY TicketsAssumption DEF B
  <2> QED BY <1>1, <2>1, LeastPart
<1>3. CASE U = {}
  <2>1. Units(U) = {}
    BY <1>3 DEF Units
  <2> QED BY <2>1, FS_EmptySet
<1>4. CASE U # {}
  <2>1. PICK x \in U : TRUE
    BY <1>4
  <2>2. IsFiniteSet(Units(U \ {x}))
    BY <1>2
  <2>3. IsFiniteSet({x} \X (1 .. WeightOf[x]))
    BY UnitsOfOne
  <2>4. IsFiniteSet(Units(U \ {x}) \cup ({x} \X (1 .. WeightOf[x])))
    BY <2>2, <2>3, FS_Union
  <2>5. IsFiniteSet(Units(U))
    BY <2>4, UnitsSplit
  <2> QED BY <1>2, <2>5
<1> QED BY <1>2, <1>3, <1>4

LEMMA UnitsAddUp ==
  ASSUME NEW T \in SUBSET Tickets, NEW x \in T
  PROVE  Cardinality(Units(T)) = WeightOf[x] + Cardinality(Units(T \ {x}))
<1> DEFINE A == Units(T \ {x})
           B == {x} \X (1 .. WeightOf[x])
<1>1. Units(T) = A \cup B /\ A \cap B = {}
  BY UnitsSplit
<1>2. IsFiniteSet(A) /\ IsFiniteSet(B) /\ Cardinality(B) = WeightOf[x]
  BY UnitsFinite, UnitsOfOne
<1> HIDE DEF A, B
<1>3. Cardinality(A \cup B) = Cardinality(A) + Cardinality(B) - Cardinality(A \cap B)
  BY <1>2, FS_Union
<1>4. Cardinality(A \cap B) = 0 /\ Cardinality(A) \in Nat /\ WeightOf[x] \in Nat
  BY <1>1, <1>2, FS_EmptySet, FS_CardinalityType, WeightAssumption
<1>5. Cardinality(Units(T)) = WeightOf[x] + Cardinality(A)
  BY <1>1, <1>2, <1>3, <1>4
<1> QED BY <1>5 DEF A

\* The recursive function that the fold of the community modules is.
Some(s) == CHOOSE x \in s : TRUE
AddsUp(T, g) ==
  g = [s \in SUBSET T |-> IF s = {} THEN 0 ELSE WeightOf[Some(s)] + g[s \ {Some(s)}]]

LEMMA FoldUnfolded ==
  \A T : FoldFunctionOnSet(+, 0, WeightOf, T) = (CHOOSE g : AddsUp(T, g))[T]
BY DEF AddsUp, Some, FoldFunctionOnSet, MapThenFoldSet

\* There is such a function, and there is only one.
LEMMA UnitsAreAddedUp ==
  ASSUME NEW T \in SUBSET Tickets
  PROVE  \E g : AddsUp(T, g)
<1> DEFINE g == [s \in SUBSET T |-> Cardinality(Units(s))]
<1>1. ASSUME NEW s \in SUBSET T
      PROVE  g[s] = IF s = {} THEN 0 ELSE WeightOf[Some(s)] + g[s \ {Some(s)}]
  <2>1. CASE s = {}
    <3>1. Units(s) = {}
      BY <2>1 DEF Units
    <3> QED BY <2>1, <3>1, FS_EmptySet
  <2>2. CASE s # {}
    <3>1. Some(s) \in s
      BY <2>2 DEF Some
    <3>2. Cardinality(Units(s)) = WeightOf[Some(s)] + Cardinality(Units(s \ {Some(s)}))
      BY <3>1, UnitsAddUp
    <3> QED BY <2>2, <3>2
  <2> QED BY <2>1, <2>2
<1>2. g = [s \in SUBSET T |-> g[s]]
  OBVIOUS
<1> HIDE DEF g
<1>3. AddsUp(T, g)
  BY <1>1, <1>2, Zenon DEF AddsUp
<1> QED BY <1>3

LEMMA AddsUpUnits ==
  ASSUME NEW T \in SUBSET Tickets, NEW g, AddsUp(T, g)
  PROVE  g[T] = Cardinality(Units(T))
<1> DEFINE B == {s \in SUBSET T : g[s] # Cardinality(Units(s))}
<1>1. SUFFICES ASSUME B # {} PROVE FALSE
  OBVIOUS
<1>2. IsFiniteSet(T)
  BY TicketsAssumption, FS_Subset
<1>3. PICK s \in B : \A u \in B : u \subseteq s => u = s
  <2> HIDE DEF B
  <2>1. B \subseteq SUBSET T
    BY DEF B
  <2> QED BY <1>1, <1>2, <2>1, LeastPart
<1>4. g[s] = IF s = {} THEN 0 ELSE WeightOf[Some(s)] + g[s \ {Some(s)}]
  BY Zenon DEF AddsUp
<1>5. CASE s = {}
  <2>1. Units(s) = {}
    BY <1>5 DEF Units
  <2> QED BY <1>4, <1>5, <2>1, FS_EmptySet
<1>6. CASE s # {}
  <2>1. Some(s) \in s
    BY <1>6 DEF Some
  <2>2. g[s \ {Some(s)}] = Cardinality(Units(s \ {Some(s)}))
    BY <1>3, <2>1
  <2>3. Cardinality(Units(s)) = WeightOf[Some(s)] + Cardinality(Units(s \ {Some(s)}))
    BY <2>1, UnitsAddUp
  <2> QED BY <1>4, <1>6, <2>2, <2>3
<1> QED BY <1>5, <1>6

\* The tickets of an engine, and what they weigh together.
OfEngine(S, e) == {t \in S : EngineOf[t] = e}

LEMMA WeightIsUnits ==
  ASSUME NEW S \in SUBSET Tickets, NEW e
  PROVE  /\ WeightOn(S, e) = Cardinality(Units(OfEngine(S, e)))
         /\ WeightOn(S, e) \in Nat
<1> DEFINE T == OfEngine(S, e)
<1>1. T \in SUBSET Tickets
  BY DEF OfEngine
<1>2. WeightOn(S, e) = FoldFunctionOnSet(+, 0, WeightOf, T)
  BY DEF WeightOn, OfEngine
<1> HIDE DEF T
<1>3. AddsUp(T, CHOOSE g : AddsUp(T, g))
  BY <1>1, UnitsAreAddedUp
<1>4. WeightOn(S, e) = Cardinality(Units(T))
  BY <1>1, <1>2, <1>3, FoldUnfolded, AddsUpUnits
<1>5. Cardinality(Units(T)) \in Nat
  BY <1>1, UnitsFinite, FS_CardinalityType
<1> QED BY <1>4, <1>5 DEF T

LEMMA WeightGrows ==
  ASSUME NEW R \in SUBSET Tickets, NEW S \in SUBSET R, NEW e
  PROVE  WeightOn(S, e) <= WeightOn(R, e)
<1>1. Units(OfEngine(S, e)) \subseteq Units(OfEngine(R, e))
  BY DEF Units, OfEngine
<1>2. OfEngine(R, e) \subseteq Tickets /\ S \subseteq Tickets
  BY DEF OfEngine
<1>3. IsFiniteSet(Units(OfEngine(R, e)))
  BY <1>2, UnitsFinite
<1>4. Cardinality(Units(OfEngine(S, e))) <= Cardinality(Units(OfEngine(R, e)))
  BY <1>1, <1>3, FS_Subset
<1> QED BY <1>2, <1>4, WeightIsUnits

LEMMA WeightWithOneMore ==
  ASSUME NEW S \in SUBSET Tickets, NEW t \in Tickets, NEW e
  PROVE  WeightOn(S \cup {t}, e) <=
           IF e = EngineOf[t] THEN WeightOn(S, e) + WeightOf[t] ELSE WeightOn(S, e)
<1> DEFINE A == OfEngine(S, e)
           B == OfEngine(S \cup {t}, e)
<1>0. /\ S \cup {t} \in SUBSET Tickets /\ A \in SUBSET Tickets /\ B \in SUBSET Tickets
      /\ WeightOf[t] \in Nat
  BY WeightAssumption DEF OfEngine
<1>1. /\ WeightOn(S, e) = Cardinality(Units(A))
      /\ WeightOn(S \cup {t}, e) = Cardinality(Units(B))
      /\ WeightOn(S, e) \in Nat
  BY <1>0, WeightIsUnits
<1>2. CASE B = A
  BY <1>0, <1>1, <1>2
<1>3. CASE B # A
  <2>1. t \in B /\ e = EngineOf[t] /\ B \ {t} = A
    BY <1>3 DEF OfEngine
  <2>2. Cardinality(Units(B)) = WeightOf[t] + Cardinality(Units(B \ {t}))
    BY <1>0, <2>1, UnitsAddUp
  <2>3. WeightOn(S \cup {t}, e) = WeightOf[t] + WeightOn(S, e)
    BY <1>1, <2>1, <2>2
  <2> QED BY <1>0, <1>1, <2>1, <2>3
<1> QED BY <1>2, <1>3

-----------------------------------------------------------------------------
(* No engine is ever over its cap.                                          *)

\* The tickets of S, dispatched together, would be over no cap.
WithinCaps(S) == \A e \in DOMAIN Cap : Cap[e] >= 0 => WeightOn(S, e) <= Cap[e]

\* Reconcile may write "dispatched" over a ticket that somebody gave back in
\* the meantime, so the cards alone are not enough: while it works, the slice
\* is within the caps too, and it writes about nothing but the slice's own.
SliceWithinCaps ==
  Phase("reconcile") =>
    /\ tick.todo \subseteq In("dispatched", tick.slice.status)
    /\ WithinCaps(In("dispatched", tick.slice.status))

CapsInv == TypeOK /\ Counted /\ CapsHold /\ SliceWithinCaps

LEMMA FewerAreWithinCaps ==
  ASSUME NEW R \in SUBSET Tickets, NEW S \in SUBSET R, WithinCaps(R)
  PROVE  WithinCaps(S)
<1> SUFFICES ASSUME NEW e \in DOMAIN Cap, Cap[e] >= 0
             PROVE  WeightOn(S, e) <= Cap[e]
  BY DEF WithinCaps
<1>1. WeightOn(R, e) <= Cap[e]
  BY DEF WithinCaps
<1>2. WeightOn(S, e) <= WeightOn(R, e)
  BY WeightGrows
<1>3. WeightOn(S, e) \in Nat /\ WeightOn(R, e) \in Nat /\ Cap[e] \in Int
  BY WeightIsUnits, CapAssumption
<1> QED BY <1>1, <1>2, <1>3

\* What Fits checks is enough, even for a set that counted too many.
LEMMA OneMoreFits ==
  ASSUME NEW R \in SUBSET Tickets, NEW S \in SUBSET R, NEW t \in Tickets,
         WithinCaps(S), Fits(R, t)
  PROVE  WithinCaps(S \cup {t})
<1> SUFFICES ASSUME NEW e \in DOMAIN Cap, Cap[e] >= 0
             PROVE  WeightOn(S \cup {t}, e) <= Cap[e]
  BY DEF WithinCaps
<1>1. /\ WeightOn(S, e) \in Nat /\ WeightOn(R, e) \in Nat
      /\ WeightOn(S \cup {t}, e) \in Nat
  BY WeightIsUnits
<1>2. Cap[e] \in Int /\ WeightOf[t] \in Nat
  BY CapAssumption, WeightAssumption
<1>3. CASE e = EngineOf[t]
  <2>1. WeightOn(R, e) + WeightOf[t] <= Cap[e]
    BY <1>3 DEF Fits
  <2>2. WeightOn(S, e) <= WeightOn(R, e)
    BY WeightGrows
  <2>3. WeightOn(S \cup {t}, e) <= WeightOn(S, e) + WeightOf[t]
    BY <1>3, WeightWithOneMore
  <2> QED BY <1>1, <1>2, <2>1, <2>2, <2>3
<1>4. CASE e # EngineOf[t]
  <2>1. WeightOn(S, e) <= Cap[e]
    BY DEF WithinCaps
  <2>2. WeightOn(S \cup {t}, e) <= WeightOn(S, e)
    BY <1>4, WeightWithOneMore
  <2> QED BY <1>1, <1>2, <2>1, <2>2
<1> QED BY <1>3, <1>4

\* Nothing that leaves no new ticket dispatched goes over a cap.
LEMMA FewerDispatched ==
  ASSUME TypeOK, CapsHold, In("dispatched", status') \subseteq In("dispatched", status)
  PROVE  CapsHold'
<1>1. In("dispatched", status) \subseteq Tickets /\ WithinCaps(In("dispatched", status))
  BY DEF In, CapsHold, WithinCaps
<1>2. WithinCaps(In("dispatched", status'))
  BY <1>1, FewerAreWithinCaps
<1> QED BY <1>2 DEF CapsHold, WithinCaps

LEMMA LaunchWithinCaps ==
  ASSUME TypeOK, Counted, CapsHold, NEW t \in Tickets, Launch(t)
  PROVE  CapsHold'
<1>1. tick \in Working
  BY TypeParts, PhaseTyped DEF Launch
<1>2. tick.counted \in SUBSET Tickets /\ In("dispatched", status) \subseteq tick.counted
  BY <1>1 DEF Working, Counted, Launch
<1>3. WithinCaps(In("dispatched", status)) /\ Fits(tick.counted, t)
  BY DEF CapsHold, WithinCaps, Launch
<1>4. WithinCaps(In("dispatched", status) \cup {t})
  BY <1>2, <1>3, OneMoreFits
<1>5. In("dispatched", status') = In("dispatched", status) \cup {t}
  BY DEF Launch, Rewrite, In, TypeOK
<1> QED BY <1>4, <1>5 DEF CapsHold, WithinCaps

\* The slice that Load takes is the tree as it is.
LEMMA LoadWithinCaps ==
  ASSUME CapsHold, Load
  PROVE  CapsHold' /\ SliceWithinCaps'
<1>1. /\ status' = status
      /\ tick'.slice.status = status
      /\ tick'.todo = In("dispatched", status)
  BY DEF Load, Untouched
<1> QED BY <1>1 DEF CapsHold, SliceWithinCaps, WithinCaps

\* Whatever reconcile writes, the slice keeps no more dispatched tickets than
\* it had, and the tree has no more than the slice.
LEMMA ReconcileWithinCaps ==
  ASSUME CapsInv, NEW t \in Tickets, Reconcile(t)
  PROVE  CapsHold' /\ SliceWithinCaps'
<1>1. tick \in Working /\ tick.pc = "reconcile"
  BY TypeParts, PhaseTyped DEF Reconcile, CapsInv, Phase
<1>2. /\ t \in tick.todo
      /\ tick.todo \subseteq In("dispatched", tick.slice.status)
      /\ WithinCaps(In("dispatched", tick.slice.status))
  BY DEF CapsInv, SliceWithinCaps, Reconcile, First
<1>3. /\ tick'.todo = tick.todo \ {t}
      /\ \E s \in Status : tick'.slice.status = [tick.slice.status EXCEPT ![t] = s]
  <2>1. CASE tick' = Done(t)
    BY <1>1, <2>1 DEF Done, Working
  <2>2. ASSUME NEW s \in {"dispatched", "done", "failed", "blocked"},
               tick' = [Done(t) EXCEPT !.slice.status[t] = s,
                          !.slice.age[t] = IF s = "dispatched" THEN @ ELSE 0]
        PROVE  /\ tick'.todo = tick.todo \ {t}
               /\ tick'.slice.status = [tick.slice.status EXCEPT ![t] = s]
               /\ s \in Status
    BY <1>1, <2>2 DEF Done, Working, Status
  <2> QED BY <2>1, <2>2 DEF Reconcile
<1>4. /\ tick'.todo \subseteq In("dispatched", tick'.slice.status)
      /\ In("dispatched", tick'.slice.status) \subseteq In("dispatched", tick.slice.status)
  BY <1>1, <1>2, <1>3 DEF In, Working
<1>5. In("dispatched", tick.slice.status) \in SUBSET Tickets
  BY DEF In
<1>6. WithinCaps(In("dispatched", tick'.slice.status))
  BY <1>2, <1>4, <1>5, FewerAreWithinCaps
<1>7. Phase("reconcile")' => In("dispatched", status') \subseteq In("dispatched", tick'.slice.status)
  BY ReconcileCounts DEF CapsInv, Counted
<1>8. tick'.pc = "reconcile" /\ tick' \notin {Idle, Dead}
  BY <1>1 DEF Reconcile, Done, Working, Idle, Dead
<1>9. WithinCaps(In("dispatched", status'))
  <2>1. In("dispatched", tick'.slice.status) \in SUBSET Tickets
    BY DEF In
  <2>2. In("dispatched", status') \subseteq In("dispatched", tick'.slice.status)
    BY <1>7, <1>8 DEF Phase
  <2> QED BY <1>6, <2>1, <2>2, FewerAreWithinCaps
<1> QED BY <1>4, <1>6, <1>9 DEF CapsHold, SliceWithinCaps, WithinCaps

\* The steps outside reconcile that leave the slice alone, or drop it.
LEMMA OtherPhase ==
  ASSUME NEW pc, tick' \in {Idle, Dead} \/ tick'.pc = pc, pc # "reconcile"
  PROVE  SliceWithinCaps'
BY DEF SliceWithinCaps, Phase

LEMMA PhasesWithinCaps ==
  ASSUME CapsInv, StartStall \/ StartDispatch \/ EndDispatch \/ Restat \/ Save \/ Dies
  PROVE  CapsHold' /\ SliceWithinCaps'
<1>1. status' = status
  BY DEF StartStall, StartDispatch, EndDispatch, Restat, Save, Dies, Untouched
<1>2. CapsHold'
  BY <1>1 DEF CapsInv, CapsHold
<1>3. ~(Save \/ Dies) => tick \in Working
  BY TypeParts, PhaseTyped DEF CapsInv, StartStall, StartDispatch, EndDispatch, Restat
<1>4. tick' \in {Idle, Dead} \/ tick'.pc \in {"stall", "dispatch", "restat", "reload"}
  BY <1>3 DEF StartStall, StartDispatch, EndDispatch, Restat, Save, Dies, Working
<1> QED BY <1>2, <1>4, OtherPhase

LEMMA StallWithinCaps ==
  ASSUME CapsInv, NEW t \in Tickets, Stall(t) \/ PassOver(t)
  PROVE  CapsHold' /\ SliceWithinCaps'
<1>1. tick \in Working
  BY TypeParts, PhaseTyped DEF CapsInv, Stall, PassOver
<1>2. tick'.pc \in {"stall", "dispatch"}
  BY <1>1 DEF Stall, PassOver, Done, Working, Phase
<1>3. In("dispatched", status') \subseteq In("dispatched", status)
  BY DEF Stall, PassOver, Rewrite, Untouched, In, TypeOK, CapsInv
<1> QED BY <1>2, <1>3, OtherPhase, FewerDispatched DEF CapsInv

LEMMA CommandWithinCaps ==
  ASSUME "dispatch" \notin ByHand, CapsInv,
         NEW t \in Tickets, NEW c \in ByHand, Command(t, c)
  PROVE  CapsHold' /\ SliceWithinCaps'
<1>1. TypeOK /\ CapsHold /\ SliceWithinCaps
  BY DEF CapsInv
<1>2. In("dispatched", status') \subseteq In("dispatched", status)
  <2>1. Apply(status[t], c).to # "dispatched"
    BY <1>1, AppliesIsStatus, ByHandAssumption DEF Command, TypeOK
  <2>2. \E s : s # "dispatched" /\ Rewrite(t, s, 0)
    BY <2>1 DEF Command
  <2> QED BY <1>1, <2>2 DEF Rewrite, In, TypeOK
<1>3. SliceWithinCaps'
  <2>1. CASE Phase("reload")
    <3>1. tick \in Working
      BY <1>1, <2>1, TypeParts, PhaseTyped
    <3>2. tick'.pc = "reload"
      BY <2>1, <3>1 DEF Command, Phase, Working
    <3> QED BY <3>2, OtherPhase
  <2>2. CASE ~Phase("reload")
    BY <1>1, <2>2 DEF Command, SliceWithinCaps, Phase, WithinCaps
  <2> QED BY <2>1, <2>2
<1> QED BY <1>1, <1>2, <1>3, FewerDispatched

LEMMA InitCapsInv == Init => CapsInv
<1> SUFFICES ASSUME Init PROVE CapsInv
  OBVIOUS
<1>1. TypeOK /\ Counted /\ SliceWithinCaps
  BY BoundsAssumption, ZeroAge
     DEF Init, TypeOK, Status, Counted, SliceWithinCaps, Phase
<1>2. In("dispatched", status) = {}
  BY DEF Init, In
<1>3. ASSUME NEW e \in DOMAIN Cap PROVE WeightOn({}, e) = 0
  <2>1. Units(OfEngine({}, e)) = {}
    BY DEF Units, OfEngine
  <2> QED BY <2>1, WeightIsUnits, FS_EmptySet
<1>4. CapsHold
  BY <1>2, <1>3, CapAssumption DEF CapsHold
<1> QED BY <1>1, <1>4 DEF CapsInv

\* As long as only ticks dispatch, no engine is ever over its cap, for any
\* tickets, weights and caps, although a tick counts in a slice that people
\* and other writers outdate, and reconcile writes old copies back.
THEOREM TickCapsHold ==
  ASSUME "dispatch" \notin ByHand
  PROVE  Spec => []CapsHold
<1>1. CapsInv /\ [Next]_vars => CapsInv'
  <2> SUFFICES ASSUME CapsInv, [Next]_vars PROVE CapsInv'
    OBVIOUS
  <2>1. TypeOK' /\ Counted'
    BY StepTypeOK, StepCounted DEF CapsInv
  <2>2. CapsHold' /\ SliceWithinCaps'
    <3>1. CASE Load
      BY <3>1, LoadWithinCaps DEF CapsInv
    <3>2. CASE StartStall \/ StartDispatch \/ EndDispatch \/ Restat \/ Save \/ Dies
      BY <3>2, PhasesWithinCaps
    <3>3. ASSUME NEW t \in Tickets, Reconcile(t) \/ Stall(t) \/ PassOver(t)
          PROVE  CapsHold' /\ SliceWithinCaps'
      BY <3>3, ReconcileWithinCaps, StallWithinCaps
    <3>4. ASSUME NEW t \in Tickets, Launch(t)
          PROVE  CapsHold' /\ SliceWithinCaps'
      <4>1. tick \in Working
        BY <3>4, TypeParts, PhaseTyped DEF CapsInv, Launch
      <4>2. tick'.pc = "dispatch"
        BY <3>4, <4>1 DEF Launch, Done, Working, Phase
      <4> QED BY <3>4, <4>2, LaunchWithinCaps, OtherPhase DEF CapsInv
    <3>5. CASE TimePasses
      BY <3>5 DEF TimePasses, CapsInv, CapsHold, SliceWithinCaps, Phase
    <3>6. ASSUME NEW t \in Tickets, NEW c \in ByHand, Command(t, c)
          PROVE  CapsHold' /\ SliceWithinCaps'
      BY <3>6, CommandWithinCaps
    <3>7. CASE UNCHANGED vars
      BY <3>7 DEF vars, CapsInv, CapsHold, SliceWithinCaps, Phase, WithinCaps
    <3> QED BY <3>1, <3>2, <3>3, <3>4, <3>5, <3>6, <3>7 DEF Next, Proceed
  <2> QED BY <2>1, <2>2 DEF CapsInv
<1>2. CapsInv => CapsHold
  BY DEF CapsInv
<1> QED BY InitCapsInv, <1>1, <1>2, PTL DEF Spec
=============================================================================
