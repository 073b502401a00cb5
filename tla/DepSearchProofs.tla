-------------------------- MODULE DepSearchProofs ---------------------------
(***************************************************************************)
(* The searches of helpers.go give the right answer for every graph, of    *)
(* any size, whatever the order of the lists: a ticket is accepted just    *)
(* when Accepts says so, and a cascade takes along just its Branch.        *)
(***************************************************************************)
EXTENDS DepSearch, SequenceTheorems, TLAPS

Graph == [Ids -> SUBSET Ids]

-----------------------------------------------------------------------------
(* What Reach gives. *)

LEMMA ReachStarts ==
  ASSUME NEW E \in Graph, NEW x \in Ids
  PROVE  x \in Reach(E, x) /\ Reach(E, x) \subseteq Ids
BY DEF Reach, Graph

LEMMA ReachGoesOn ==
  ASSUME NEW E \in Graph, NEW x \in Ids, NEW n \in Reach(E, x), NEW m \in E[n]
  PROVE  m \in Reach(E, x)
<1>1. n \in Ids /\ m \in Ids
  BY DEF Reach, Graph
<1>2. SUFFICES ASSUME NEW S \in SUBSET Ids, x \in S, Closed(E, S)
               PROVE  m \in S
  BY <1>1 DEF Reach, Graph
<1>3. n \in S
  BY <1>2 DEF Reach, Graph
<1> QED BY <1>2, <1>3 DEF Closed

\* What is reached stays within every set that edges do not leave.
LEMMA ReachWithin ==
  ASSUME NEW E \in Graph, NEW x \in Ids, NEW S \in SUBSET Ids, x \in S, Closed(E, S)
  PROVE  Reach(E, x) \subseteq S
BY DEF Reach, Graph

\* Who needs a ticket that reaches x reaches x.
LEMMA ReachBelow ==
  ASSUME NEW E \in Graph, NEW n \in Ids, NEW m \in E[n], NEW x \in Reach(E, m)
  PROVE  x \in Reach(E, n)
<1>1. m \in Ids /\ x \in Ids
  BY DEF Reach, Graph
<1>2. SUFFICES ASSUME NEW S \in SUBSET Ids, n \in S, Closed(E, S)
               PROVE  x \in S
  BY <1>1 DEF Reach, Graph
<1>3. m \in S
  BY <1>2 DEF Closed
<1> QED BY <1>1, <1>2, <1>3 DEF Reach, Graph

\* Parts of a set without circles have none.
LEMMA AcyclicParts ==
  ASSUME NEW E \in Graph, NEW S \in SUBSET Ids, NEW T \in SUBSET S, Acyclic(E, S)
  PROVE  Acyclic(E, T)
BY DEF Acyclic

\* A ticket all of whose needs are in a set that is free of circles, and that
\* no edge leaves, may join it.
LEMMA AcyclicGrows ==
  ASSUME NEW E \in Graph, NEW S \in SUBSET Ids, Acyclic(E, S),
         \A n \in S : E[n] \subseteq S, NEW x \in Ids \ S, E[x] \subseteq S
  PROVE  Acyclic(E, S \cup {x})
<1> SUFFICES ASSUME NEW T \in SUBSET (S \cup {x}), T # {}
             PROVE  \E n \in T : E[n] \cap T = {}
  BY DEF Acyclic
<1>1. CASE T \subseteq S
  BY <1>1 DEF Acyclic
<1>2. CASE T \cap S = {}
  BY <1>2
<1>3. CASE x \in T /\ T \cap S # {}
  <2>1. PICK n \in T \cap S : E[n] \cap (T \cap S) = {}
    BY <1>3 DEF Acyclic
  <2> QED BY <2>1
<1> QED BY <1>1, <1>2, <1>3

-----------------------------------------------------------------------------
(* The stack of calls. *)

LEMMA TopIsOn ==
  ASSUME TypeOK, path # <<>>
  PROVE  /\ Len(path) \in Nat \ {0} /\ Top \in OnPath /\ Top \in Ids
         /\ OnPath \subseteq Ids
         /\ \A i \in 1..Len(path) : path[i] \in OnPath /\ (path[i] = Top => i = Len(path))
BY DEF TypeOK, OnPath, Top

LEMMA PathBegins ==
  ASSUME TypeOK, Begins
  PROVE  /\ path' \in Seq(Ids) /\ Len(path') = 1 /\ path'[1] = ticket
         /\ OnPath' = {ticket}
         /\ todo' \in [Ids -> SUBSET Ids] /\ todo'[ticket] = Edges(ticket)
<1>1. ticket \in Ids /\ Edges(ticket) \in SUBSET Ids
  BY DEF TypeOK, Edges, Dependents
<1> QED BY <1>1 DEF TypeOK, Begins, OnPath

LEMMA PathEnters ==
  ASSUME TypeOK, path # <<>>, NEW d \in todo[Top], d \notin OnPath, Enters(d)
  PROVE  /\ d \in Ids /\ path' \in Seq(Ids) /\ Len(path') = Len(path) + 1
         /\ path'[Len(path) + 1] = d /\ \A i \in 1..Len(path) : path'[i] = path[i]
         /\ OnPath' = OnPath \cup {d}
         /\ \A i, j \in 1..Len(path') : path'[i] = path'[j] => i = j
         /\ todo' \in [Ids -> SUBSET Ids]
         /\ todo'[d] = Edges(d) /\ todo'[Top] = todo[Top] \ {d}
         /\ \A n \in Ids \ {Top, d} : todo'[n] = todo[n]
<1>1. /\ Len(path) \in Nat \ {0} /\ Top \in OnPath /\ Top \in Ids /\ d \in Ids
      /\ Edges(d) \in SUBSET Ids
  BY TopIsOn DEF TypeOK, Edges, Dependents
<1>2. /\ path' \in Seq(Ids) /\ Len(path') = Len(path) + 1
      /\ path'[Len(path) + 1] = d /\ \A i \in 1..Len(path) : path'[i] = path[i]
  BY <1>1 DEF Enters, TypeOK
<1>3. OnPath' = OnPath \cup {d}
  BY <1>1, <1>2 DEF OnPath
<1>4. \A i, j \in 1..Len(path') : path'[i] = path'[j] => i = j
  <2>1. \A i, j \in 1..Len(path) : path[i] = path[j] => i = j
    BY DEF TypeOK
  <2>2. \A i \in 1..Len(path) : path[i] # d
    BY DEF OnPath
  <2>3. \A i \in 1..Len(path') : i \in 1..Len(path) \/ i = Len(path) + 1
    BY <1>1, <1>2
  <2> QED BY <1>2, <2>1, <2>2, <2>3
<1>5. /\ todo' \in [Ids -> SUBSET Ids]
      /\ todo'[d] = Edges(d) /\ todo'[Top] = todo[Top] \ {d}
      /\ \A n \in Ids \ {Top, d} : todo'[n] = todo[n]
  BY <1>1 DEF Enters, TypeOK
<1> QED BY <1>1, <1>2, <1>3, <1>4, <1>5

LEMMA PathPops ==
  ASSUME TypeOK, path # <<>>, Pops
  PROVE  /\ path' \in Seq(Ids) /\ Len(path') = Len(path) - 1
         /\ \A i \in 1..(Len(path) - 1) : path'[i] = path[i]
         /\ OnPath' = OnPath \ {Top}
         /\ \A i, j \in 1..Len(path') : path'[i] = path'[j] => i = j
<1>1. Len(path) \in Nat \ {0} /\ path \in Seq(Ids)
  BY TopIsOn DEF TypeOK
<1>2. /\ path' \in Seq(Ids) /\ Len(path') = Len(path) - 1
      /\ \A i \in 1..(Len(path) - 1) : path'[i] = path[i]
  <2>1. PICK n \in Nat : n = Len(path) - 1
    BY <1>1
  <2>2. \A i \in 1..n : path[i] \in Ids
    BY <1>1, <2>1
  <2>3. path' = SubSeq(path, 1, n)
    BY <2>1 DEF Pops
  <2>4. n - 1 + 1 = n /\ (~(1 <= n) => n = 0) /\ \A i \in 1..n : 1 + i - 1 = i
    OBVIOUS
  <2>5. /\ path' \in Seq(Ids) /\ Len(path') = (IF 1 <= n THEN n - 1 + 1 ELSE 0)
        /\ \A i \in 1..(n - 1 + 1) : path'[i] = path[1 + i - 1]
    BY <2>2, <2>3, SubSeqProperties
  <2>6. Len(path') = n
    BY <2>4, <2>5
  <2>7. \A i \in 1..n : path'[i] = path[i]
    BY <2>4, <2>5
  <2> QED BY <2>1, <2>5, <2>6, <2>7
<1>3. OnPath' = {path[i] : i \in 1..(Len(path) - 1)}
  BY <1>1, <1>2 DEF OnPath
<1>4. OnPath' = OnPath \ {Top}
  <2>1. \A i \in 1..(Len(path) - 1) : path[i] # Top
    BY <1>1, TopIsOn
  <2>2. \A i \in 1..Len(path) : i \in 1..(Len(path) - 1) \/ path[i] = Top
    BY <1>1 DEF Top
  <2>3. \A i \in 1..(Len(path) - 1) : i \in 1..Len(path)
    BY <1>1
  <2> QED BY <1>3, <2>1, <2>2, <2>3 DEF OnPath
<1>5. \A i, j \in 1..(Len(path) - 1) : path[i] = path[j] => i = j
  <2>1. \A i, j \in 1..Len(path) : path[i] = path[j] => i = j
    BY DEF TypeOK
  <2> QED BY <1>1, <2>1
<1> QED BY <1>1, <1>2, <1>4, <1>5

\* An edge back to the path closes a circle, all of it on the path.
LEMMA EdgeBack ==
  ASSUME TypeOK, PathHolds, pc \in {"cycle", "depth"},
         NEW d \in needs[Top], d \in OnPath, OnPath \subseteq Reach(needs, ticket)
  PROVE  ~Acyclic(needs, Reach(needs, ticket))
<1>0. path # <<>> /\ Len(path) \in Nat \ {0}
  BY TopIsOn DEF PathHolds
<1>1. PICK k \in 1..Len(path) : path[k] = d
  BY DEF OnPath
<1> DEFINE T == {path[i] : i \in k..Len(path)}
<1>2. T \subseteq Reach(needs, ticket) /\ T # {}
  BY <1>0, <1>1 DEF OnPath
<1>3. ASSUME NEW n \in T
      PROVE  needs[n] \cap T # {}
  <2>1. PICK i \in k..Len(path) : n = path[i]
    OBVIOUS
  <2>2. CASE i = Len(path)
    BY <1>0, <1>1, <2>1, <2>2 DEF Top
  <2>3. CASE i # Len(path)
    <3>1. path[i + 1] \in needs[n] /\ i + 1 \in k..Len(path)
      BY <1>0, <2>1, <2>3 DEF PathHolds, Edges
    <3> QED BY <3>1
  <2> QED BY <2>2, <2>3
<1> QED BY <1>2, <1>3 DEF Acyclic

-----------------------------------------------------------------------------
(* The types and the path. *)

InputsOK ==
  /\ cards \in SUBSET Ids /\ ticket \in cards
  /\ needs \in Graph /\ \A n \in Ids \ cards : needs[n] = {}

Kept == UNCHANGED <<graph, pc>>

\* What a walk changes, for each of the three ways it goes on.
LEMMA PassKeeps ==
  ASSUME TypeOK, PathHolds, path # <<>>, NEW d \in todo[Top], Passes(d), Kept
  PROVE  /\ PathHolds' /\ OnPath' = OnPath /\ Top' = Top
         /\ todo' \in [Ids -> SUBSET Ids] /\ todo'[Top] = todo[Top] \ {d}
         /\ \A n \in Ids \ {Top} : todo'[n] = todo[n]
<1>1. /\ todo' \in [Ids -> SUBSET Ids] /\ todo'[Top] = todo[Top] \ {d}
      /\ \A n \in Ids \ {Top} : todo'[n] = todo[n]
  BY TopIsOn DEF TypeOK, Passes
<1>2. path' = path /\ pc' = pc /\ cards' = cards /\ needs' = needs /\ ticket' = ticket
  BY DEF Passes, Kept, graph
<1>3. \A n \in Ids : todo'[n] \subseteq todo[n]
  BY <1>1
<1>4. \A i \in 1..Len(path) : path[i] \in Ids
  BY DEF TypeOK
<1>5. PathHolds'
  <2>1. \A i \in 1..Len(path) : (todo[path[i]] \subseteq Edges(path[i]))'
    BY <1>2, <1>3, <1>4 DEF PathHolds, Edges, Dependents
  <2>2. \A i \in 1..(Len(path) - 1) : i \in 1..Len(path)
    BY DEF TypeOK
  <2>3. \A i \in 1..(Len(path) - 1) : (path[i + 1] \in Edges(path[i]) \ todo[path[i]])'
    BY <1>2, <1>3, <1>4, <2>2 DEF PathHolds, Edges, Dependents
  <2> QED BY <1>2, <2>1, <2>3 DEF PathHolds, Kept, graph
<1> QED BY <1>1, <1>2, <1>5 DEF OnPath, Top

LEMMA EnterKeeps ==
  ASSUME TypeOK, PathHolds, path # <<>>, NEW d \in todo[Top], d \notin OnPath, Enters(d), Kept
  PROVE  PathHolds' /\ Top' = d
<1>1. /\ path' \in Seq(Ids) /\ Len(path') = Len(path) + 1
      /\ path'[Len(path) + 1] = d /\ \A i \in 1..Len(path) : path'[i] = path[i]
      /\ todo'[d] = Edges(d) /\ todo'[Top] = todo[Top] \ {d} /\ d \in Ids
      /\ \A n \in Ids \ {Top, d} : todo'[n] = todo[n]
  BY PathEnters
<1>2. pc' = pc /\ cards' = cards /\ needs' = needs /\ ticket' = ticket
  BY DEF Kept, graph
<1>3. /\ Len(path) \in Nat \ {0}
      /\ \A i \in 1..Len(path) : path[i] # d /\ path[i] \in Ids
      /\ \A i \in 1..Len(path) : path[i] = Top => i = Len(path)
  BY TopIsOn
<1>4. ASSUME NEW i \in 1..Len(path')
      PROVE  (todo[path[i]] \subseteq Edges(path[i]))'
  <2>1. CASE i = Len(path) + 1
    BY <1>1, <1>2, <2>1 DEF Edges, Dependents
  <2>2. CASE i # Len(path) + 1
    <3>1. i \in 1..Len(path)
      BY <1>1, <1>3, <2>2
    <3>2. todo'[path[i]] \subseteq todo[path[i]]
      BY <1>1, <1>3, <3>1
    <3> QED BY <1>1, <1>2, <1>3, <3>1, <3>2 DEF PathHolds, Edges, Dependents
  <2> QED BY <2>1, <2>2
<1>5. ASSUME NEW i \in 1..(Len(path') - 1)
      PROVE  (path[i + 1] \in Edges(path[i]) \ todo[path[i]])'
  <2>0. i \in 1..Len(path) /\ i + 1 \in 1..Len(path')
    BY <1>1, <1>3
  <2>1. CASE i = Len(path)
    <3>1. path'[i + 1] = d /\ path'[i] = Top
      BY <1>1, <2>0, <2>1 DEF Top
    <3>2. d \in Edges(Top)
      BY <1>3, <2>0, <2>1 DEF PathHolds, Top
    <3> QED BY <1>1, <1>2, <1>3, <3>1, <3>2, TopIsOn DEF Edges, Dependents
  <2>2. CASE i # Len(path)
    <3>1. i \in 1..(Len(path) - 1) /\ i + 1 \in 1..Len(path)
      BY <1>3, <2>0, <2>2
    <3>2. path'[i + 1] = path[i + 1] /\ path'[i] = path[i]
      BY <1>1, <2>0, <3>1
    <3>3. todo'[path[i]] = todo[path[i]]
      BY <1>1, <1>3, <2>0, <2>2
    <3> QED BY <1>2, <1>3, <2>0, <3>1, <3>2, <3>3 DEF PathHolds, Edges, Dependents
  <2> QED BY <2>1, <2>2
<1>6. path'[1] = ticket' /\ path' # <<>>
  BY <1>1, <1>3 DEF PathHolds, Kept, graph
<1>7. Top' = d
  BY <1>1 DEF Top
<1> QED BY <1>4, <1>5, <1>6, <1>7 DEF PathHolds

LEMMA PopKeeps ==
  ASSUME TypeOK, PathHolds, Len(path) > 1, Pops, UNCHANGED todo, Kept
  PROVE  PathHolds'
<1>1. /\ path' \in Seq(Ids) /\ Len(path') = Len(path) - 1
      /\ \A i \in 1..(Len(path) - 1) : path'[i] = path[i]
  BY PathPops DEF TypeOK
<1>2. pc' = pc /\ cards' = cards /\ needs' = needs /\ ticket' = ticket
  BY DEF Kept, graph
<1>3. Len(path) \in Nat /\ \A i \in 1..Len(path) : path[i] \in Ids
  BY DEF TypeOK
<1>4. ASSUME NEW i \in 1..Len(path')
      PROVE  /\ (todo[path[i]] \subseteq Edges(path[i]))'
             /\ path'[i] = path[i] /\ i \in 1..(Len(path) - 1) /\ i \in 1..Len(path)
  <2>1. i \in 1..(Len(path) - 1) /\ i \in 1..Len(path)
    BY <1>1, <1>3
  <2> QED BY <1>1, <1>2, <1>3, <2>1 DEF PathHolds, Edges, Dependents
<1>5. ASSUME NEW i \in 1..(Len(path') - 1)
      PROVE  (path[i + 1] \in Edges(path[i]) \ todo[path[i]])'
  <2>1. i \in 1..Len(path') /\ i + 1 \in 1..Len(path')
    BY <1>1, <1>3
  <2> QED BY <1>2, <1>3, <1>4, <2>1 DEF PathHolds, Edges, Dependents
<1>6. path'[1] = ticket' /\ path' # <<>>
  BY <1>1, <1>3 DEF PathHolds, Kept, graph
<1> QED BY <1>4, <1>5, <1>6 DEF PathHolds

LEMMA BeginKeeps ==
  ASSUME TypeOK, Begins, UNCHANGED graph, pc' = "collect" <=> pc = "collect"
  PROVE  PathHolds' /\ Top' = ticket
<1>1. Len(path') = 1 /\ path'[1] = ticket /\ todo'[ticket] = Edges(ticket)
  BY PathBegins
<1>2. cards' = cards /\ needs' = needs /\ ticket' = ticket
  BY DEF graph
<1>3. ASSUME NEW i \in 1..Len(path')
      PROVE  (todo[path[i]] \subseteq Edges(path[i]))'
  <2>1. i = 1
    BY <1>1
  <2> QED BY <1>1, <1>2, <2>1 DEF Edges, Dependents
<1>4. ASSUME NEW i \in 1..(Len(path') - 1)
      PROVE  FALSE
  BY <1>1
<1>5. path' # <<>> /\ path'[1] = ticket'
  BY <1>1, <1>2
<1> QED BY <1>1, <1>3, <1>4, <1>5 DEF PathHolds, Top

-----------------------------------------------------------------------------
(* The steps.  First the calls that a search begins with. *)

LEMMA LookUpKeeps ==
  ASSUME SearchInv, LookUp
  PROVE  SearchInv'
<1>0. /\ TypeOK /\ PathHolds /\ CacheEmpty /\ pc = "validate"
      /\ UNCHANGED <<graph, best, cache>>
  BY DEF SearchInv, LookUp
<1>1. cards' = cards /\ needs' = needs /\ ticket' = ticket /\ best' = best /\ cache' = cache
  BY <1>0 DEF graph
<1>2. CASE needs[ticket] \subseteq cards
  <2>1. pc' = "cycle" /\ Begins /\ visited' = {ticket}
    BY <1>2 DEF LookUp
  <2>2. /\ path' \in Seq(Ids) /\ Len(path') = 1 /\ path'[1] = ticket
        /\ OnPath' = {ticket}
        /\ todo' \in [Ids -> SUBSET Ids] /\ todo'[ticket] = needs[ticket]
    BY <1>0, <2>1, PathBegins DEF Edges
  <2>3. TypeOK'
    BY <1>0, <1>1, <2>1, <2>2 DEF TypeOK
  <2>4. PathHolds'
    BY <1>0, <2>1, BeginKeeps
  <2>5. CycleHolds'
    <3>1. (visited \ OnPath)' = {}
      BY <2>1, <2>2
    <3>2. Acyclic(needs', {})
      BY DEF Acyclic
    <3>3. visited' \subseteq Reach(needs', ticket')
      BY <1>0, <1>1, <2>1, ReachStarts DEF TypeOK, Graph
    <3>4. \A i \in 1..Len(path') : needs'[path'[i]] \ todo'[path'[i]] = {}
      BY <1>1, <2>2
    <3> QED BY <1>1, <1>2, <2>1, <2>2, <3>1, <3>2, <3>3, <3>4 DEF CycleHolds
  <2>6. CollectHolds' /\ DepthHolds' /\ CacheEmpty' /\ VerdictIsRight'
    BY <1>0, <1>1, <2>1 DEF CollectHolds, DepthHolds, CacheEmpty, VerdictIsRight
  <2> QED BY <2>3, <2>4, <2>5, <2>6 DEF SearchInv
<1>3. CASE ~(needs[ticket] \subseteq cards)
  <2>1. pc' = "refused" /\ path' = path /\ todo' = todo /\ visited' = visited /\ path = <<>>
    BY <1>3 DEF LookUp
  <2>2. TypeOK'
    BY <1>0, <1>1, <2>1 DEF TypeOK
  <2>3. PathHolds'
    BY <2>1 DEF PathHolds
  <2>4. VerdictIsRight'
    BY <1>1, <1>3, <2>1 DEF VerdictIsRight, Accepts
  <2>5. CycleHolds' /\ CollectHolds' /\ DepthHolds' /\ CacheEmpty'
    BY <2>1 DEF CycleHolds, CollectHolds, DepthHolds, CacheEmpty
  <2> QED BY <2>2, <2>3, <2>4, <2>5 DEF SearchInv
<1> QED BY <1>2, <1>3

LEMMA CollectKeeps ==
  ASSUME SearchInv, Collect
  PROVE  SearchInv'
<1>0. /\ TypeOK /\ PathHolds /\ pc = "collect" /\ Begins /\ visited' = {ticket}
      /\ UNCHANGED <<graph, pc, best, cache>>
  BY DEF SearchInv, Collect
<1>1. /\ cards' = cards /\ needs' = needs /\ ticket' = ticket
      /\ best' = best /\ cache' = cache /\ pc' = pc
  BY <1>0 DEF graph
<1>2. /\ path' \in Seq(Ids) /\ Len(path') = 1 /\ path'[1] = ticket
      /\ OnPath' = {ticket}
      /\ todo' \in [Ids -> SUBSET Ids] /\ todo'[ticket] = Dependents(cards, needs, ticket)
  BY <1>0, PathBegins DEF Edges
<1>3. TypeOK'
  BY <1>0, <1>1, <1>2 DEF TypeOK
<1>4. PathHolds'
  BY <1>0, BeginKeeps
<1>5. CollectHolds'
  <2>1. ticket \in Branch(cards, needs, ticket)
    BY <1>0, ReachStarts DEF TypeOK, Graph, Branch
  <2> QED BY <1>0, <1>1, <1>2, <2>1 DEF CollectHolds
<1>6. CycleHolds' /\ DepthHolds' /\ CacheEmpty' /\ VerdictIsRight'
  BY <1>0, <1>1 DEF CycleHolds, DepthHolds, CacheEmpty, VerdictIsRight
<1> QED BY <1>3, <1>4, <1>5, <1>6 DEF SearchInv

-----------------------------------------------------------------------------
(* The walk of detectCycle and collectCascadeIDs. *)

LEMMA CircleKeeps ==
  ASSUME SearchInv, Circle
  PROVE  SearchInv'
<1>0. /\ TypeOK /\ PathHolds /\ CycleHolds /\ pc = "cycle" /\ pc' = "refused"
      /\ UNCHANGED <<graph, path, todo, visited, best, cache>>
  BY DEF SearchInv, Circle
<1>1. /\ cards' = cards /\ needs' = needs /\ ticket' = ticket
      /\ path' = path /\ todo' = todo /\ visited' = visited
      /\ best' = best /\ cache' = cache
  BY <1>0 DEF graph
<1>2. path # <<>> /\ Len(path) \in 1..Len(path)
  BY <1>0, TopIsOn DEF PathHolds
<1>3. PICK d \in todo[Top] : d \in OnPath
  BY DEF Circle
<1>4. d \in needs[Top]
  BY <1>0, <1>2, <1>3 DEF PathHolds, Edges, Top
<1>5. OnPath \subseteq Reach(needs, ticket)
  BY <1>0 DEF CycleHolds
<1>6. ~Acyclic(needs, Reach(needs, ticket))
  BY <1>0, <1>3, <1>4, <1>5, EdgeBack
<1>7. VerdictIsRight'
  BY <1>0, <1>1, <1>6 DEF VerdictIsRight, Accepts
<1>8. TypeOK'
  BY <1>0, <1>1 DEF TypeOK
<1>9. PathHolds'
  BY <1>0, <1>1 DEF PathHolds, Edges, Dependents
<1>10. CycleHolds' /\ CollectHolds' /\ DepthHolds' /\ CacheEmpty'
  BY <1>0 DEF CycleHolds, CollectHolds, DepthHolds, CacheEmpty
<1> QED BY <1>7, <1>8, <1>9, <1>10 DEF SearchInv

\* While a walk goes on there is no depth and no answer yet.
LEMMA StillWalking ==
  ASSUME SearchInv, pc \in {"cycle", "collect"}, pc' = pc, cache' = cache
  PROVE  DepthHolds' /\ CacheEmpty' /\ VerdictIsRight'
BY DEF SearchInv, DepthHolds, CacheEmpty, VerdictIsRight

LEMMA SkipKeeps ==
  ASSUME SearchInv, Skip
  PROVE  SearchInv'
<1>0. /\ TypeOK /\ PathHolds /\ CycleHolds /\ CollectHolds
      /\ pc \in {"cycle", "collect"} /\ path # <<>>
      /\ UNCHANGED <<graph, pc, visited, best, cache>>
  BY DEF SearchInv, Skip, Walking
<1>1. PICK d \in todo[Top] \cap visited : (pc = "cycle" => d \notin OnPath) /\ Passes(d)
  BY DEF Skip
<1>2. /\ PathHolds' /\ OnPath' = OnPath /\ Top' = Top
      /\ todo' \in [Ids -> SUBSET Ids] /\ todo'[Top] = todo[Top] \ {d}
      /\ \A n \in Ids \ {Top} : todo'[n] = todo[n]
  BY <1>0, <1>1, PassKeeps DEF Kept
<1>3. /\ cards' = cards /\ needs' = needs /\ ticket' = ticket /\ path' = path
      /\ best' = best /\ cache' = cache /\ pc' = pc /\ visited' = visited
  BY <1>0, <1>1 DEF graph, Passes
<1>4. /\ Top \in Ids /\ OnPath \subseteq Ids
      /\ \A i \in 1..Len(path) : path[i] \in OnPath /\ (path[i] = Top => i = Len(path))
  BY <1>0, TopIsOn
<1>5. TypeOK'
  BY <1>0, <1>2, <1>3 DEF TypeOK
<1>6. CycleHolds'
  <2> SUFFICES ASSUME pc = "cycle"
               PROVE  CycleHolds'
    BY <1>3 DEF CycleHolds
  <2>1. ASSUME NEW i \in 1..Len(path), NEW m \in needs[path[i]] \ todo'[path[i]]
        PROVE  m \in visited \ OnPath \/ (i < Len(path) /\ m = path[i + 1])
    <3>1. CASE m \in todo[path[i]]
      <4>1. path[i] = Top /\ m = d
        BY <1>2, <1>4, <2>1, <3>1
      <4> QED BY <1>1, <4>1
    <3>2. CASE m \notin todo[path[i]]
      BY <2>1, <3>2 DEF CycleHolds, SearchInv
    <3> QED BY <3>1, <3>2
  <2>2. (visited \ OnPath)' = visited \ OnPath
    BY <1>2, <1>3
  <2> QED BY <1>0, <1>2, <1>3, <2>1, <2>2 DEF CycleHolds
<1>7. CollectHolds'
  <2> SUFFICES ASSUME pc = "collect"
               PROVE  CollectHolds'
    BY <1>0, <1>3 DEF CollectHolds
  <2>1. ASSUME NEW n \in visited, NEW m \in Dependents(cards, needs, n)
        PROVE  m \in visited \/ (n \in OnPath /\ m \in todo'[n])
    BY <1>0, <1>1, <1>2, <1>4 DEF CollectHolds
  <2> QED BY <1>0, <1>2, <1>3, <2>1 DEF CollectHolds
<1>8. DepthHolds' /\ CacheEmpty' /\ VerdictIsRight'
  BY <1>0, <1>3, StillWalking
<1> QED BY <1>2, <1>5, <1>6, <1>7, <1>8 DEF SearchInv

LEMMA DescendKeeps ==
  ASSUME SearchInv, Descend
  PROVE  SearchInv'
<1>0. /\ TypeOK /\ PathHolds /\ CycleHolds /\ CollectHolds
      /\ pc \in {"cycle", "collect"} /\ path # <<>>
      /\ UNCHANGED <<graph, pc, best, cache>>
  BY DEF SearchInv, Descend, Walking
<1>1. PICK d \in todo[Top] \ visited : Enters(d) /\ visited' = visited \cup {d}
  BY DEF Descend
<1>2. OnPath \subseteq visited /\ d \notin OnPath
  BY <1>0 DEF CycleHolds, CollectHolds
<1>3. /\ d \in Ids /\ path' \in Seq(Ids) /\ Len(path') = Len(path) + 1
      /\ path'[Len(path) + 1] = d /\ \A i \in 1..Len(path) : path'[i] = path[i]
      /\ OnPath' = OnPath \cup {d}
      /\ \A i, j \in 1..Len(path') : path'[i] = path'[j] => i = j
      /\ todo' \in [Ids -> SUBSET Ids]
      /\ todo'[d] = Edges(d) /\ todo'[Top] = todo[Top] \ {d}
      /\ \A n \in Ids \ {Top, d} : todo'[n] = todo[n]
  BY <1>0, <1>1, <1>2, PathEnters
<1>4. /\ cards' = cards /\ needs' = needs /\ ticket' = ticket
      /\ best' = best /\ cache' = cache /\ pc' = pc
  BY <1>0 DEF graph
<1>5. /\ Len(path) \in Nat \ {0} /\ Top \in Ids /\ Top \in OnPath /\ OnPath \subseteq Ids
      /\ \A i \in 1..Len(path) : path[i] \in OnPath /\ (path[i] = Top => i = Len(path))
      /\ Top = path[Len(path)]
  BY <1>0, TopIsOn DEF Top
<1>6. PathHolds'
  BY <1>0, <1>1, <1>2, EnterKeeps DEF Kept
<1>7. TypeOK'
  BY <1>0, <1>1, <1>3, <1>4 DEF TypeOK
<1>8. d \in Edges(Top)
  BY <1>0, <1>5 DEF PathHolds
<1>9. CycleHolds'
  <2> SUFFICES ASSUME pc = "cycle"
               PROVE  CycleHolds'
    BY <1>4 DEF CycleHolds
  <2>1. (visited \ OnPath)' = visited \ OnPath
    BY <1>1, <1>3
  <2>2. visited' \subseteq Reach(needs, ticket)
    <3>1. Top \in Reach(needs, ticket) /\ visited \subseteq Reach(needs, ticket)
      BY <1>0, <1>2, <1>5 DEF CycleHolds
    <3>2. d \in Reach(needs, ticket)
      BY <1>0, <1>8, <3>1, ReachGoesOn DEF Edges, TypeOK, Graph
    <3> QED BY <1>1, <3>1, <3>2
  <2>3. ASSUME NEW i \in 1..Len(path'), NEW m \in needs[path'[i]] \ todo'[path'[i]]
        PROVE  m \in visited \ OnPath \/ (i < Len(path') /\ m = path'[i + 1])
    <3>1. i \in 1..Len(path)
      <4>1. CASE i = Len(path) + 1
        BY <1>3, <2>3, <4>1 DEF Edges
      <4> QED BY <1>3, <1>5, <4>1
    <3>2. path'[i] = path[i] /\ path[i] \in OnPath /\ path[i] # d /\ path[i] \in Ids
      BY <1>2, <1>3, <1>5, <3>1
    <3>3. CASE m \in todo[path[i]]
      <4>1. path[i] = Top /\ m = d
        BY <1>3, <2>3, <3>2, <3>3
      <4>2. i = Len(path)
        BY <1>5, <3>1, <4>1
      <4> QED BY <1>3, <1>5, <4>1, <4>2
    <3>4. CASE m \notin todo[path[i]]
      <4>1. m \in visited \ OnPath \/ (i < Len(path) /\ m = path[i + 1])
        BY <1>0, <2>3, <3>1, <3>2, <3>4 DEF CycleHolds
      <4>2. i < Len(path) => i + 1 \in 1..Len(path) /\ i < Len(path')
        BY <1>3, <1>5, <3>1
      <4> QED BY <1>3, <4>1, <4>2
    <3> QED BY <3>3, <3>4
  <2>4. OnPath' \subseteq visited'
    BY <1>1, <1>2, <1>3
  <2> QED BY <1>0, <1>4, <2>1, <2>2, <2>3, <2>4 DEF CycleHolds
<1>10. CollectHolds'
  <2> SUFFICES ASSUME pc = "collect"
               PROVE  CollectHolds'
    BY <1>0, <1>4 DEF CollectHolds
  <2>1. d \in Branch(cards, needs, ticket)
    <3>1. d \in cards /\ Top \in needs[d]
      BY <1>8 DEF Edges, Dependents
    <3>2. ticket \in Reach(needs, Top)
      BY <1>0, <1>2, <1>5 DEF CollectHolds, Branch
    <3>3. ticket \in Reach(needs, d)
      BY <1>0, <1>3, <3>1, <3>2, ReachBelow DEF TypeOK, Graph
    <3> QED BY <3>1, <3>3 DEF Branch
  <2>2. ASSUME NEW n \in visited', NEW m \in Dependents(cards, needs, n)
        PROVE  m \in visited' \/ (n \in OnPath' /\ m \in todo'[n])
    <3>1. CASE n = d
      BY <1>3, <2>2, <3>1 DEF Edges
    <3>2. CASE n # d
      <4>1. n \in Ids /\ n \in visited
        BY <1>0, <1>1, <2>2, <3>2 DEF TypeOK
      <4>2. m \in visited \/ (n \in OnPath /\ m \in todo[n])
        BY <1>0, <2>2, <4>1 DEF CollectHolds
      <4> QED BY <1>1, <1>3, <3>2, <4>1, <4>2
    <3> QED BY <3>1, <3>2
  <2>3. OnPath' \subseteq visited'
    BY <1>1, <1>2, <1>3
  <2> QED BY <1>0, <1>1, <1>4, <2>1, <2>2, <2>3 DEF CollectHolds
<1>11. DepthHolds' /\ CacheEmpty' /\ VerdictIsRight'
  BY <1>0, <1>4, StillWalking
<1> QED BY <1>6, <1>7, <1>9, <1>10, <1>11 DEF SearchInv

LEMMA ReturnKeeps ==
  ASSUME SearchInv, Return
  PROVE  SearchInv'
<1>0. /\ TypeOK /\ PathHolds /\ CycleHolds /\ CollectHolds
      /\ pc \in {"cycle", "collect"} /\ path # <<>>
      /\ todo[Top] = {} /\ Len(path) > 1 /\ Pops
      /\ UNCHANGED <<graph, pc, todo, visited, best, cache>>
  BY DEF SearchInv, Return, Walking
<1>1. /\ path' \in Seq(Ids) /\ Len(path') = Len(path) - 1
      /\ \A i \in 1..(Len(path) - 1) : path'[i] = path[i]
      /\ OnPath' = OnPath \ {Top}
      /\ \A i, j \in 1..Len(path') : path'[i] = path'[j] => i = j
  BY <1>0, PathPops
<1>2. /\ cards' = cards /\ needs' = needs /\ ticket' = ticket /\ todo' = todo
      /\ best' = best /\ cache' = cache /\ pc' = pc /\ visited' = visited
  BY <1>0 DEF graph
<1>3. /\ Len(path) \in Nat \ {0} /\ Top \in Ids /\ Top \in OnPath /\ OnPath \subseteq Ids
      /\ Top = path[Len(path)]
  BY <1>0, TopIsOn DEF Top
<1>4. PathHolds'
  BY <1>0, PopKeeps DEF Kept
<1>5. TypeOK'
  BY <1>0, <1>1, <1>2 DEF TypeOK
<1>6. CycleHolds'
  <2> SUFFICES ASSUME pc = "cycle"
               PROVE  CycleHolds'
    BY <1>2 DEF CycleHolds
  <2> DEFINE done == visited \ OnPath
  <2>0. /\ Acyclic(needs, done) /\ \A n \in done : needs[n] \subseteq done
        /\ OnPath \subseteq visited /\ visited \subseteq Reach(needs, ticket)
        /\ \A i \in 1..Len(path) : \A m \in needs[path[i]] \ todo[path[i]] :
             m \in done \/ (i < Len(path) /\ m = path[i + 1])
        /\ needs[ticket] \subseteq cards
    BY <1>0 DEF CycleHolds
  <2>1. needs[Top] \subseteq done
    BY <1>0, <1>3, <2>0
  <2>2. (visited \ OnPath)' = done \cup {Top}
    BY <1>1, <1>2, <1>3, <2>0
  <2>3. Acyclic(needs, done \cup {Top})
    <3>1. done \in SUBSET Ids /\ Top \in Ids \ done /\ needs \in Graph
      BY <1>0, <1>3 DEF TypeOK, Graph
    <3> QED BY <2>0, <2>1, <3>1, AcyclicGrows
  <2>4. \A n \in done \cup {Top} : needs[n] \subseteq done \cup {Top}
    BY <2>0, <2>1
  <2>5. ASSUME NEW i \in 1..Len(path'), NEW m \in needs[path'[i]] \ todo'[path'[i]]
        PROVE  m \in done \cup {Top} \/ (i < Len(path') /\ m = path'[i + 1])
    <3>1. i \in 1..(Len(path) - 1) /\ i \in 1..Len(path) /\ path'[i] = path[i]
      BY <1>1, <1>3
    <3>2. m \in done \/ m = path[i + 1]
      BY <1>2, <2>0, <2>5, <3>1
    <3>3. CASE i + 1 = Len(path)
      BY <1>3, <3>2, <3>3
    <3>4. CASE i + 1 # Len(path)
      <4>1. i + 1 \in 1..(Len(path) - 1) /\ i < Len(path')
        BY <1>1, <1>3, <3>1, <3>4
      <4> QED BY <1>1, <3>2, <4>1
    <3> QED BY <3>3, <3>4
  <2>6. OnPath' \subseteq visited'
    BY <1>1, <1>2, <2>0
  <2> QED BY <1>2, <2>0, <2>2, <2>3, <2>4, <2>5, <2>6 DEF CycleHolds
<1>7. CollectHolds'
  <2> SUFFICES ASSUME pc = "collect"
               PROVE  CollectHolds'
    BY <1>0, <1>2 DEF CollectHolds
  <2>1. ASSUME NEW n \in visited, NEW m \in Dependents(cards, needs, n)
        PROVE  m \in visited \/ (n \in OnPath' /\ m \in todo[n])
    BY <1>0, <1>1 DEF CollectHolds
  <2> QED BY <1>0, <1>1, <1>2, <2>1 DEF CollectHolds
<1>8. DepthHolds' /\ CacheEmpty' /\ VerdictIsRight'
  BY <1>0, <1>2, StillWalking
<1> QED BY <1>4, <1>5, <1>6, <1>7, <1>8 DEF SearchInv

LEMMA NoCircleKeeps ==
  ASSUME SearchInv, NoCircle
  PROVE  SearchInv'
<1>0. /\ TypeOK /\ PathHolds /\ CycleHolds /\ CacheEmpty /\ pc = "cycle" /\ path # <<>>
      /\ todo[Top] = {} /\ Len(path) = 1 /\ pc' = "depth" /\ Begins
      /\ best' = [best EXCEPT ![ticket] = 1]
      /\ UNCHANGED <<graph, visited, cache>>
  BY DEF SearchInv, NoCircle, PathHolds
<1>1. /\ cards' = cards /\ needs' = needs /\ ticket' = ticket
      /\ cache' = cache /\ visited' = visited
  BY <1>0 DEF graph
<1>2. /\ path' \in Seq(Ids) /\ Len(path') = 1 /\ path'[1] = ticket
      /\ OnPath' = {ticket} /\ ticket \in Ids
      /\ todo' \in [Ids -> SUBSET Ids] /\ todo'[ticket] = needs[ticket]
  BY <1>0, PathBegins DEF Edges, TypeOK
<1>3. TypeOK'
  <2>1. best' \in [Ids -> Nat]
    BY <1>0, <1>2 DEF TypeOK
  <2>2. (\A i, j \in 1..Len(path) : path[i] = path[j] => i = j)'
    BY <1>2
  <2> QED BY <1>0, <1>1, <1>2, <2>1, <2>2 DEF TypeOK
<1>4. PathHolds'
  BY <1>0, BeginKeeps
<1>5. Acyclic(needs, Reach(needs, ticket))
  <2> DEFINE done == visited \ OnPath
  <2>0. /\ Acyclic(needs, done) /\ \A n \in done : needs[n] \subseteq done
        /\ OnPath \subseteq visited
        /\ \A i \in 1..Len(path) : \A m \in needs[path[i]] \ todo[path[i]] :
             m \in done \/ (i < Len(path) /\ m = path[i + 1])
    BY <1>0 DEF CycleHolds
  <2>1. Top = ticket /\ OnPath = {ticket}
    BY <1>0 DEF PathHolds, Top, OnPath
  <2>2. needs[ticket] \subseteq done
    <3>1. \A m \in needs[path[1]] \ todo[path[1]] : m \in done
      BY <1>0, <2>0
    <3> QED BY <1>0, <2>1, <3>1 DEF PathHolds
  <2>3. done \in SUBSET Ids /\ ticket \in Ids \ done /\ needs \in Graph
    BY <1>0, <1>2, <2>1 DEF TypeOK, Graph
  <2>4. Acyclic(needs, done \cup {ticket})
    BY <2>0, <2>2, <2>3, AcyclicGrows
  <2>5. Closed(needs, done \cup {ticket})
    BY <2>0, <2>2 DEF Closed
  <2>6. Reach(needs, ticket) \subseteq done \cup {ticket}
    BY <2>3, <2>5, ReachWithin
  <2> QED BY <2>3, <2>4, <2>6, AcyclicParts
<1>6. DepthHolds'
  <2>1. needs[ticket] \subseteq cards /\ \A n \in Ids : cache[n] = 0
    BY <1>0 DEF CycleHolds, CacheEmpty
  <2>2. OnPath' \subseteq Reach(needs, ticket)
    BY <1>0, <1>2, ReachStarts DEF TypeOK, Graph
  <2>3. best'[ticket] = 1
    BY <1>0, <1>2 DEF TypeOK
  <2>4. ASSUME NEW i \in 1..Len(path')
        PROVE  /\ i = 1 /\ path'[i] = ticket /\ needs'[path'[i]] \ todo'[path'[i]] = {}
               /\ best'[path'[i]] = i
    BY <1>1, <1>2, <2>3
  <2>5. Longest(1, 1, {})'
    BY DEF Longest
  <2>6. \A i \in 1..Len(path') :
          (Longest(best[path[i]], i, {m \in needs[path[i]] \ todo[path[i]] : cache[m] # 0}))'
    <3>1. ASSUME NEW i \in 1..Len(path')
          PROVE  {m \in needs'[path'[i]] \ todo'[path'[i]] : cache'[m] # 0} = {}
      BY <2>4
    <3> QED BY <2>4, <3>1 DEF Longest
  <2> QED BY <1>0, <1>1, <1>5, <2>1, <2>2, <2>4, <2>6 DEF DepthHolds
<1>7. CycleHolds' /\ CollectHolds' /\ CacheEmpty' /\ VerdictIsRight'
  BY <1>0 DEF CycleHolds, CollectHolds, CacheEmpty, VerdictIsRight
<1> QED BY <1>3, <1>4, <1>6, <1>7 DEF SearchInv

LEMMA CollectedKeeps ==
  ASSUME SearchInv, Collected
  PROVE  SearchInv'
<1>0. /\ TypeOK /\ PathHolds /\ CollectHolds /\ pc = "collect" /\ path # <<>>
      /\ todo[Top] = {} /\ Len(path) = 1 /\ pc' = "collected" /\ Pops
      /\ UNCHANGED <<graph, todo, visited, best, cache>>
  BY DEF SearchInv, Collected
<1>1. /\ path' \in Seq(Ids) /\ Len(path') = 0 /\ path' = <<>>
      /\ OnPath' = OnPath \ {Top}
  <2>1. path' \in Seq(Ids) /\ Len(path') = 0 /\ OnPath' = OnPath \ {Top}
    BY <1>0, PathPops
  <2> QED BY <2>1
<1>2. /\ cards' = cards /\ needs' = needs /\ ticket' = ticket /\ todo' = todo
      /\ best' = best /\ cache' = cache /\ visited' = visited
  BY <1>0 DEF graph
<1>3. TypeOK'
  BY <1>0, <1>1, <1>2 DEF TypeOK
<1>4. PathHolds'
  BY <1>0, <1>1 DEF PathHolds
<1>5. OnPath = {Top}
  BY <1>0 DEF Top, OnPath
<1>6. CollectHolds'
  <2>1. \A n \in visited : \A m \in Dependents(cards, needs, n) : m \in visited
    BY <1>0, <1>5 DEF CollectHolds
  <2> QED BY <1>0, <1>1, <1>2, <1>5, <2>1 DEF CollectHolds
<1>7. CycleHolds' /\ DepthHolds' /\ CacheEmpty' /\ VerdictIsRight'
  BY <1>0 DEF CycleHolds, DepthHolds, CacheEmpty, VerdictIsRight
<1> QED BY <1>3, <1>4, <1>6, <1>7 DEF SearchInv

-----------------------------------------------------------------------------
(* The measure of maxDependencyDepthVisited. *)

LEMMA DeeperJoins ==
  ASSUME NEW S, NEW d, NEW v \in Nat, NEW base \in Nat, cache[d] \in Nat,
         \A m \in S : cache[m] \in Nat, Longest(v, base, S)
  PROVE  Longest(Deeper(v, base + cache[d]), base, S \cup {d})
<1>1. CASE base + cache[d] > v
  BY <1>1 DEF Deeper, Longest
<1>2. CASE ~(base + cache[d] > v)
  BY <1>2 DEF Deeper, Longest
<1> QED BY <1>1, <1>2

\* What the depth invariant says of the ticket on top, and of one already known.
LEMMA DepthOfTop ==
  ASSUME TypeOK, PathHolds, DepthHolds, pc = "depth"
  PROVE  /\ path # <<>> /\ Len(path) \in Nat \ {0} /\ Top \in Ids /\ Top = path[Len(path)]
         /\ Len(path) \in 1..Len(path)
         /\ todo[Top] \subseteq needs[Top] /\ needs[Top] \subseteq Ids
         /\ todo[Top] \cap OnPath = {}
         /\ Top \in Reach(needs, ticket)
<1>1. /\ path # <<>> /\ Len(path) \in Nat \ {0} /\ Top \in Ids /\ Top = path[Len(path)]
      /\ Len(path) \in 1..Len(path) /\ Top \in OnPath
  BY TopIsOn DEF PathHolds, Top
<1>2. todo[Top] \subseteq needs[Top] /\ needs[Top] \subseteq Ids
  BY <1>1 DEF PathHolds, Edges, TypeOK
<1>3. OnPath \subseteq Reach(needs, ticket) /\ Acyclic(needs, Reach(needs, ticket))
  BY DEF DepthHolds
<1>4. ASSUME NEW d \in todo[Top], d \in OnPath
      PROVE  FALSE
  BY <1>2, <1>3, <1>4, EdgeBack
<1> QED BY <1>1, <1>2, <1>3, <1>4

LEMMA MeasureKeeps ==
  ASSUME SearchInv, Measure
  PROVE  SearchInv'
<1>0. /\ TypeOK /\ PathHolds /\ DepthHolds /\ pc = "depth"
      /\ UNCHANGED <<graph, pc, visited, cache>>
  BY DEF SearchInv, Measure
<1>1. PICK d \in todo[Top] :
        /\ Known(d) /\ Passes(d)
        /\ best' = [best EXCEPT ![Top] =
             Deeper(@, Len(path) + IF cache[d] # 0 THEN cache[d] ELSE 1)]
  BY DEF Measure
<1>2. /\ path # <<>> /\ Len(path) \in Nat \ {0} /\ Top \in Ids /\ Top = path[Len(path)]
      /\ Len(path) \in 1..Len(path)
      /\ todo[Top] \subseteq needs[Top] /\ needs[Top] \subseteq Ids
      /\ todo[Top] \cap OnPath = {}
  BY <1>0, DepthOfTop
<1>3. cache[d] # 0 /\ cache[d] \in Nat /\ d \in Ids /\ d \in needs[Top]
  BY <1>0, <1>1, <1>2 DEF Known, TypeOK
<1>4. /\ PathHolds' /\ OnPath' = OnPath /\ Top' = Top
      /\ todo' \in [Ids -> SUBSET Ids] /\ todo'[Top] = todo[Top] \ {d}
      /\ \A n \in Ids \ {Top} : todo'[n] = todo[n]
  BY <1>0, <1>1, <1>2, PassKeeps DEF Kept
<1>5. /\ cards' = cards /\ needs' = needs /\ ticket' = ticket /\ path' = path
      /\ cache' = cache /\ pc' = pc /\ visited' = visited
  BY <1>0, <1>1 DEF graph, Passes
<1>6. /\ best' \in [Ids -> Nat] /\ best'[Top] = Deeper(best[Top], Len(path) + cache[d])
      /\ \A n \in Ids \ {Top} : best'[n] = best[n]
  <2>1. Deeper(best[Top], Len(path) + cache[d]) \in Nat
    BY <1>0, <1>2, <1>3 DEF Deeper, TypeOK
  <2> QED BY <1>0, <1>1, <1>2, <1>3, <2>1 DEF TypeOK
<1>7. TypeOK'
  BY <1>0, <1>4, <1>5, <1>6 DEF TypeOK
<1>8. \A i \in 1..Len(path) : path[i] \in Ids /\ (path[i] = Top => i = Len(path))
  BY <1>0, <1>2, TopIsOn
<1>9. ASSUME NEW i \in 1..Len(path)
      PROVE  LET seen == needs[path[i]] \ todo'[path[i]] IN
             /\ Longest(best'[path[i]], i, {m \in seen : cache[m] # 0})
             /\ \A m \in seen : cache[m] # 0 \/ (i < Len(path) /\ m = path[i + 1])
  <2> DEFINE old == needs[path[i]] \ todo[path[i]]
             seen == needs[path[i]] \ todo'[path[i]]
             known(S) == {m \in S : cache[m] # 0}
  <2>1. /\ Longest(best[path[i]], i, known(old))
        /\ \A m \in old : cache[m] # 0 \/ (i < Len(path) /\ m = path[i + 1])
    BY <1>0 DEF DepthHolds
  <2>2. CASE path[i] = Top
    <3>1. i = Len(path) /\ seen = old \cup {d}
      BY <1>3, <1>4, <1>8, <2>2
    <3>2. known(seen) = known(old) \cup {d}
      BY <1>3, <3>1
    <3>3. /\ best[Top] \in Nat /\ Len(path) \in Nat
          /\ \A m \in known(old) : cache[m] \in Nat
      <4>1. old \subseteq Ids
        BY <1>2, <2>2
      <4> QED BY <1>0, <1>2, <4>1 DEF TypeOK
    <3>4. Longest(best[Top], Len(path), known(old))
      BY <2>1, <2>2, <3>1
    <3>5. Longest(Deeper(best[Top], Len(path) + cache[d]), Len(path), known(old) \cup {d})
      BY <1>3, <3>3, <3>4, DeeperJoins
    <3>6. Longest(best'[path[i]], i, known(seen))
      BY <1>6, <2>2, <3>1, <3>2, <3>5
    <3>7. \A m \in seen : cache[m] # 0 \/ (i < Len(path) /\ m = path[i + 1])
      BY <1>3, <2>1, <3>1
    <3> QED BY <3>6, <3>7
  <2>3. CASE path[i] # Top
    <3>1. seen = old /\ best'[path[i]] = best[path[i]]
      BY <1>4, <1>6, <1>8, <2>3
    <3> QED BY <2>1, <3>1
  <2> QED BY <2>2, <2>3
<1>10. DepthHolds'
  <2>1. (needs[ticket] \subseteq cards /\ Acyclic(needs, Reach(needs, ticket))
         /\ OnPath \subseteq Reach(needs, ticket))'
    BY <1>0, <1>4, <1>5 DEF DepthHolds
  <2>2. (\A n \in Ids : cache[n] # 0 =>
           /\ n \notin OnPath /\ Longest(cache[n], 1, needs[n])
           /\ \A m \in needs[n] : cache[m] # 0)'
    BY <1>0, <1>4, <1>5 DEF DepthHolds, Longest
  <2>3. (\A i \in 1..Len(path) :
         LET seen == needs[path[i]] \ todo[path[i]] IN
         /\ Longest(best[path[i]], i, {m \in seen : cache[m] # 0})
         /\ \A m \in seen : cache[m] # 0 \/ (i < Len(path) /\ m = path[i + 1]))'
    BY <1>5, <1>9 DEF Longest
  <2> QED BY <2>1, <2>2, <2>3 DEF DepthHolds
<1>11. CycleHolds' /\ CollectHolds' /\ CacheEmpty' /\ VerdictIsRight'
  BY <1>0, <1>5 DEF CycleHolds, CollectHolds, CacheEmpty, VerdictIsRight
<1> QED BY <1>4, <1>7, <1>10, <1>11 DEF SearchInv

LEMMA MeasureBelowKeeps ==
  ASSUME SearchInv, MeasureBelow
  PROVE  SearchInv'
<1>0. /\ TypeOK /\ PathHolds /\ DepthHolds /\ pc = "depth"
      /\ UNCHANGED <<graph, pc, visited, cache>>
  BY DEF SearchInv, MeasureBelow
<1>1. PICK d \in todo[Top] :
        ~Known(d) /\ Enters(d) /\ best' = [best EXCEPT ![d] = Len(path) + 1]
  BY DEF MeasureBelow
<1>2. /\ path # <<>> /\ Len(path) \in Nat \ {0} /\ Top \in Ids /\ Top = path[Len(path)]
      /\ Len(path) \in 1..Len(path)
      /\ todo[Top] \subseteq needs[Top] /\ needs[Top] \subseteq Ids
      /\ Top \in Reach(needs, ticket)
  BY <1>0, DepthOfTop
<1>3. cache[d] = 0 /\ d \notin OnPath /\ d \in needs[Top]
  BY <1>1, <1>2 DEF Known
<1>4. /\ d \in Ids /\ path' \in Seq(Ids) /\ Len(path') = Len(path) + 1
      /\ path'[Len(path) + 1] = d /\ \A i \in 1..Len(path) : path'[i] = path[i]
      /\ OnPath' = OnPath \cup {d}
      /\ \A i, j \in 1..Len(path') : path'[i] = path'[j] => i = j
      /\ todo' \in [Ids -> SUBSET Ids]
      /\ todo'[d] = needs[d] /\ todo'[Top] = todo[Top] \ {d}
      /\ \A n \in Ids \ {Top, d} : todo'[n] = todo[n]
  BY <1>0, <1>1, <1>2, <1>3, PathEnters DEF Edges
<1>5. /\ cards' = cards /\ needs' = needs /\ ticket' = ticket
      /\ cache' = cache /\ pc' = pc /\ visited' = visited
  BY <1>0 DEF graph
<1>6. /\ best' \in [Ids -> Nat] /\ best'[d] = Len(path) + 1
      /\ \A n \in Ids \ {d} : best'[n] = best[n]
  BY <1>0, <1>1, <1>2, <1>4 DEF TypeOK
<1>7. TypeOK'
  BY <1>0, <1>4, <1>5, <1>6 DEF TypeOK
<1>8. PathHolds'
  BY <1>0, <1>1, <1>2, <1>3, EnterKeeps DEF Kept
<1>9. \A i \in 1..Len(path) :
        path[i] \in Ids /\ path[i] # d /\ (path[i] = Top => i = Len(path))
  BY <1>0, <1>2, <1>3, TopIsOn
<1>10. ASSUME NEW i \in 1..Len(path')
       PROVE  LET seen == needs[path'[i]] \ todo'[path'[i]] IN
              /\ Longest(best'[path'[i]], i, {m \in seen : cache[m] # 0})
              /\ \A m \in seen : cache[m] # 0 \/ (i < Len(path') /\ m = path'[i + 1])
  <2> DEFINE seen == needs[path'[i]] \ todo'[path'[i]]
             known(S) == {m \in S : cache[m] # 0}
  <2>1. CASE i = Len(path) + 1
    <3>1. seen = {} /\ known(seen) = {} /\ best'[path'[i]] = i
      BY <1>4, <1>6, <2>1
    <3>2. Longest(i, i, {})
      BY <1>2, <2>1 DEF Longest
    <3> QED BY <3>1, <3>2
  <2>2. CASE i # Len(path) + 1
    <3> DEFINE old == needs[path[i]] \ todo[path[i]]
    <3>0. /\ i \in 1..Len(path) /\ path'[i] = path[i] /\ best'[path[i]] = best[path[i]]
          /\ i < Len(path')
      BY <1>2, <1>4, <1>6, <1>9, <2>2
    <3>1. /\ Longest(best[path[i]], i, known(old))
          /\ \A m \in old : cache[m] # 0 \/ (i < Len(path) /\ m = path[i + 1])
      BY <1>0, <3>0 DEF DepthHolds
    <3>2. CASE path[i] = Top
      <4>1. i = Len(path) /\ seen = old \cup {d}
        BY <1>3, <1>4, <1>9, <3>0, <3>2
      <4>2. known(seen) = known(old)
        BY <1>3, <4>1
      <4>3. \A m \in seen : cache[m] # 0 \/ (i < Len(path') /\ m = path'[i + 1])
        BY <1>4, <3>0, <3>1, <4>1
      <4> QED BY <3>0, <3>1, <4>2, <4>3
    <3>3. CASE path[i] # Top
      <4>1. seen = old
        BY <1>4, <1>9, <3>0, <3>3
      <4>2. i < Len(path) => i + 1 \in 1..Len(path)
        BY <1>2, <3>0
      <4> QED BY <1>4, <3>0, <3>1, <4>1, <4>2
    <3> QED BY <3>2, <3>3
  <2> QED BY <2>1, <2>2
<1>11. DepthHolds'
  <2>1. d \in Reach(needs, ticket)
    BY <1>0, <1>2, <1>3, ReachGoesOn DEF TypeOK, Graph
  <2>2. (needs[ticket] \subseteq cards /\ Acyclic(needs, Reach(needs, ticket))
         /\ OnPath \subseteq Reach(needs, ticket))'
    BY <1>0, <1>4, <1>5, <2>1 DEF DepthHolds
  <2>3. (\A n \in Ids : cache[n] # 0 =>
           /\ n \notin OnPath /\ Longest(cache[n], 1, needs[n])
           /\ \A m \in needs[n] : cache[m] # 0)'
    BY <1>0, <1>3, <1>4, <1>5 DEF DepthHolds, Longest
  <2>4. (\A i \in 1..Len(path) :
         LET seen == needs[path[i]] \ todo[path[i]] IN
         /\ Longest(best[path[i]], i, {m \in seen : cache[m] # 0})
         /\ \A m \in seen : cache[m] # 0 \/ (i < Len(path) /\ m = path[i + 1]))'
    BY <1>5, <1>10 DEF Longest
  <2> QED BY <2>2, <2>3, <2>4 DEF DepthHolds
<1>12. CycleHolds' /\ CollectHolds' /\ CacheEmpty' /\ VerdictIsRight'
  BY <1>0, <1>5 DEF CycleHolds, CollectHolds, CacheEmpty, VerdictIsRight
<1> QED BY <1>7, <1>8, <1>11, <1>12 DEF SearchInv

\* The depths that are known below a ticket tell whether a chain from it is
\* too long.
LEMMA DepthTells ==
  ASSUME NEW E \in Graph, NEW x \in Ids, NEW v \in Nat, cache \in [Ids -> Nat],
         Longest(v, 1, E[x]), \A m \in E[x] : cache[m] # 0,
         \A n \in Ids : cache[n] # 0 =>
           Longest(cache[n], 1, E[n]) /\ \A m \in E[n] : cache[m] # 0
  PROVE  TooDeep(E, x) <=> v > 3
<1>0. \A n \in Ids : E[n] \subseteq Ids
  BY DEF Graph
<1>1. ASSUME TooDeep(E, x)
      PROVE  v > 3
  <2>1. PICK a \in E[x] : \E b \in E[a] : E[b] # {}
    BY <1>1 DEF TooDeep
  <2>2. PICK b \in E[a] : E[b] # {}
    BY <2>1
  <2>3. PICK c \in E[b] : TRUE
    BY <2>2
  <2>4. /\ a \in Ids /\ b \in Ids /\ c \in Ids
        /\ cache[a] \in Nat /\ cache[b] \in Nat /\ cache[c] \in Nat
    BY <1>0
  <2>5. cache[a] # 0 /\ cache[b] # 0 /\ cache[c] # 0
    BY <2>4
  <2>6. v >= 1 + cache[a] /\ cache[a] >= 1 + cache[b] /\ cache[b] >= 1 + cache[c]
    BY <2>4, <2>5 DEF Longest
  <2> QED BY <2>4, <2>5, <2>6
<1>2. ASSUME v > 3
      PROVE  TooDeep(E, x)
  <2>1. PICK a \in E[x] : v = 1 + cache[a]
    BY <1>2 DEF Longest
  <2>2. a \in Ids /\ cache[a] \in Nat /\ cache[a] > 2
    BY <1>0, <1>2, <2>1
  <2>3. PICK b \in E[a] : cache[a] = 1 + cache[b]
    BY <2>2 DEF Longest
  <2>4. b \in Ids /\ cache[b] \in Nat /\ cache[b] > 1
    BY <1>0, <2>2, <2>3
  <2>5. PICK c \in E[b] : cache[b] = 1 + cache[c]
    BY <2>4 DEF Longest
  <2> QED BY <2>5 DEF TooDeep
<1> QED BY <1>1, <1>2

\* The call that returns: its ticket t is known from now on, and the call
\* before it, if there is one, has seen t.
LEMMA MeasuredKeeps ==
  ASSUME SearchInv, Measured
  PROVE  SearchInv'
<1>0. /\ TypeOK /\ PathHolds /\ DepthHolds /\ pc = "depth" /\ todo[Top] = {} /\ Pops
      /\ cache' = [cache EXCEPT ![Top] = best[Top] - (Len(path) - 1)]
      /\ UNCHANGED <<graph, todo, visited>>
  BY DEF SearchInv, Measured
<1>1. /\ cards' = cards /\ needs' = needs /\ ticket' = ticket /\ todo' = todo
      /\ visited' = visited
  BY <1>0 DEF graph
<1>2. PICK t \in Ids, k \in Nat \ {0} :
        /\ t = Top /\ k = Len(path) /\ t = path[k] /\ k \in 1..Len(path)
        /\ needs[t] \subseteq Ids /\ t \in OnPath /\ path # <<>> /\ todo[t] = {}
  BY <1>0, DepthOfTop, TopIsOn
<1>3. /\ path' \in Seq(Ids) /\ Len(path') = k - 1
      /\ \A i \in 1..(k - 1) : path'[i] = path[i]
      /\ OnPath' = OnPath \ {t}
      /\ \A i, j \in 1..Len(path') : path'[i] = path'[j] => i = j
  BY <1>0, <1>2, PathPops
<1>4. \A i \in 1..k : path[i] \in Ids /\ (path[i] = t => i = k)
  BY <1>0, <1>2, TopIsOn
<1>5. /\ needs[ticket] \subseteq cards /\ Acyclic(needs, Reach(needs, ticket))
      /\ OnPath \subseteq Reach(needs, ticket)
      /\ cache[t] = 0
      /\ \A n \in Ids : cache[n] # 0 =>
           /\ n \notin OnPath /\ Longest(cache[n], 1, needs[n])
           /\ \A m \in needs[n] : cache[m] # 0
  BY <1>0, <1>2 DEF DepthHolds
<1>6. ASSUME NEW i \in 1..k
      PROVE  LET seen == needs[path[i]] \ todo[path[i]] IN
             /\ Longest(best[path[i]], i, {m \in seen : cache[m] # 0})
             /\ \A m \in seen : cache[m] # 0 \/ (i < k /\ m = path[i + 1])
  BY <1>0, <1>2 DEF DepthHolds
<1>7. /\ \A m \in needs[t] : cache[m] # 0 /\ m # t
      /\ Longest(best[t], k, needs[t])
  <2> DEFINE seen == needs[path[k]] \ todo[path[k]]
  <2>1. k \in 1..k /\ ~(k < k)
    BY <1>2
  <2>2. /\ Longest(best[path[k]], k, {m \in seen : cache[m] # 0})
        /\ \A m \in seen : cache[m] # 0
    BY <1>6, <2>1
  <2>3. seen = needs[t]
    BY <1>2
  <2>4. {m \in seen : cache[m] # 0} = needs[t]
    BY <2>2, <2>3
  <2> QED BY <1>2, <1>5, <2>2, <2>3, <2>4
\* What is cached is the depth below t, and at least one.
<1>8. PICK v \in Nat \ {0} : v = best[t] - (k - 1) /\ best[t] = v + (k - 1) /\ best[t] \in Nat
  <2>1. best[t] \in Nat
    BY <1>0, <1>2 DEF TypeOK
  <2>2. best[t] >= k
    BY <1>7 DEF Longest
  <2>3. best[t] - (k - 1) \in Nat \ {0} /\ best[t] = (best[t] - (k - 1)) + (k - 1)
    BY <1>2, <2>1, <2>2
  <2> QED BY <2>1, <2>3
<1>9. /\ cache' \in [Ids -> Nat] /\ cache'[t] = v
      /\ \A n \in Ids \ {t} : cache'[n] = cache[n]
  <2>1. cache' = [cache EXCEPT ![t] = v]
    BY <1>0, <1>2, <1>8
  <2> QED BY <1>0, <1>2, <1>8, <2>1 DEF TypeOK
<1>10. Longest(v, 1, needs[t])'
  <2>1. \A m \in needs[t] : cache'[m] = cache[m] /\ cache[m] \in Nat
    BY <1>0, <1>2, <1>7, <1>9 DEF TypeOK
  <2>2. /\ \A m \in needs[t] : best[t] >= k + cache[m]
        /\ best[t] = k \/ \E m \in needs[t] : best[t] = k + cache[m]
    BY <1>7 DEF Longest
  <2>3. \A m \in needs[t] : v >= 1 + cache'[m]
    BY <1>2, <1>8, <2>1, <2>2
  <2>4. v = 1 \/ \E m \in needs[t] : v = 1 + cache'[m]
    BY <1>2, <1>8, <2>1, <2>2
  <2> QED BY <1>1, <1>8, <2>3, <2>4 DEF Longest
<1>11. \A n \in Ids : cache'[n] # 0 =>
         /\ n \notin OnPath' /\ (Longest(cache[n], 1, needs[n]))'
         /\ \A m \in needs'[n] : cache'[m] # 0
  <2> SUFFICES ASSUME NEW n \in Ids, cache'[n] # 0
               PROVE  /\ n \notin OnPath' /\ (Longest(cache[n], 1, needs[n]))'
                      /\ \A m \in needs'[n] : cache'[m] # 0
    OBVIOUS
  <2>0. needs[n] \subseteq Ids
    BY <1>0 DEF TypeOK
  <2>1. CASE n = t
    <3>1. \A m \in needs[t] : cache'[m] # 0
      BY <1>2, <1>7, <1>9
    <3>2. (Longest(cache[n], 1, needs[n]))'
      BY <1>9, <1>10, <2>1
    <3> QED BY <1>1, <1>3, <2>1, <3>1, <3>2
  <2>2. CASE n # t
    <3>1. cache'[n] = cache[n] /\ cache[n] # 0
      BY <1>9, <2>2
    <3>2. /\ n \notin OnPath /\ Longest(cache[n], 1, needs[n])
          /\ \A m \in needs[n] : cache[m] # 0
      BY <1>5, <3>1
    <3>3. \A m \in needs[n] : cache'[m] = cache[m]
      BY <1>5, <1>9, <2>0, <3>2
    <3> QED BY <1>1, <1>3, <3>1, <3>2, <3>3 DEF Longest
  <2> QED BY <2>1, <2>2
<1>12. PathHolds' /\ best' \in [Ids -> Nat] /\ (pc' = "depth" => DepthHolds')
         /\ pc' \in {"depth", "refused", "accepted"} /\ VerdictIsRight'
  <2>1. CASE k = 1
    <3>1. t = ticket /\ path' = <<>>
      <4>1. Len(path') = 0
        BY <1>3, <2>1
      <4> QED BY <1>0, <1>2, <1>3, <2>1, <4>1 DEF PathHolds
    <3>2. pc' = (IF best[t] > 3 THEN "refused" ELSE "accepted") /\ best' = best
      BY <1>2, <2>1 DEF Measured
    <3>3. PathHolds'
      BY <3>1, <3>2 DEF PathHolds
    <3>4. TooDeep(needs, ticket) <=> best[t] > 3
      <4>1. Longest(best[t], 1, needs[ticket]) /\ \A m \in needs[ticket] : cache[m] # 0
        BY <1>7, <2>1, <3>1
      <4>2. /\ needs \in Graph /\ ticket \in Ids /\ cache \in [Ids -> Nat]
            /\ best[t] \in Nat
        BY <1>0, <1>2, <1>8 DEF TypeOK, Graph
      <4> QED BY <1>5, <4>1, <4>2, DepthTells
    <3>5. VerdictIsRight'
      BY <1>1, <1>5, <3>2, <3>4 DEF VerdictIsRight, Accepts
    <3> QED BY <1>0, <3>2, <3>3, <3>5 DEF TypeOK
  <2>2. CASE k # 1
    <3>0. PICK j \in Nat \ {0} : j = k - 1 /\ j + 1 = k /\ j \in 1..k /\ j < k
      BY <1>2, <2>2
    <3>1. PICK caller \in Ids : caller = path[j] /\ caller # t
      BY <1>4, <3>0
    <3>2. /\ pc' = pc /\ best' = [best EXCEPT ![caller] = Deeper(@, best[t])]
      BY <1>2, <2>2, <3>0, <3>1 DEF Measured
    <3>3. PathHolds'
      BY <1>0, <1>2, <2>2, <3>2, PopKeeps DEF Kept
    <3>4. /\ best' \in [Ids -> Nat] /\ best'[caller] = Deeper(best[caller], best[t])
          /\ \A n \in Ids \ {caller} : best'[n] = best[n]
      <4>1. Deeper(best[caller], best[t]) \in Nat
        BY <1>0, <1>8, <3>1 DEF Deeper, TypeOK
      <4> QED BY <1>0, <3>1, <3>2, <4>1 DEF TypeOK
    <3>5. ASSUME NEW i \in 1..j
          PROVE  /\ (Longest(best[path[i]], i,
                             {m \in needs[path[i]] \ todo[path[i]] : cache[m] # 0}))'
                 /\ \A m \in needs'[path'[i]] \ todo'[path'[i]] :
                      cache'[m] # 0 \/ (i < Len(path') /\ m = path'[i + 1])
      <4>0. PICK p \in Ids : p = path[i] /\ p = path'[i] /\ p # t /\ i \in 1..k
        BY <1>3, <1>4, <3>0
      <4> DEFINE seen == needs[p] \ todo[p]
      <4>1. PICK S \in SUBSET Ids : S = {m \in seen : cache[m] # 0}
        BY <1>0, <4>0 DEF TypeOK
      <4>2. /\ Longest(best[p], i, S)
            /\ \A m \in seen : cache[m] # 0 \/ m = path[i + 1]
        BY <1>6, <4>0, <4>1
      <4>3. /\ seen \subseteq Ids
            /\ \A m \in S : m # t /\ cache'[m] = cache[m] /\ cache[m] \in Nat
        BY <1>0, <1>5, <1>9, <4>0, <4>1 DEF TypeOK
      <4>4. \A m \in seen : m # t => (cache'[m] # 0 <=> m \in S)
        BY <1>9, <4>1, <4>3
      <4>5. /\ \A m \in S : best[p] >= i + cache'[m]
            /\ best[p] = i \/ \E m \in S : best[p] = i + cache'[m]
            /\ best[p] >= i /\ best[p] \in Nat
        BY <1>0, <4>0, <4>2, <4>3 DEF Longest, TypeOK
      <4>6. \A m \in seen : cache'[m] # 0 \/ (i < Len(path') /\ m = path'[i + 1])
        <5> SUFFICES ASSUME NEW m \in seen, cache'[m] = 0
                     PROVE  i < Len(path') /\ m = path'[i + 1]
          OBVIOUS
        <5>1. m # t /\ cache[m] = 0
          BY <1>8, <1>9, <4>3
        <5>2. m = path[i + 1] /\ i + 1 # k
          BY <1>2, <4>2, <5>1
        <5>3. i + 1 \in 1..(k - 1) /\ i < Len(path')
          BY <1>3, <3>0, <5>2
        <5> QED BY <1>3, <5>2, <5>3
      <4>7. CASE i = j
        <5>1. p = caller /\ t \in seen
          <6>1. path[j + 1] \in Edges(path[j]) \ todo[path[j]]
            BY <1>0, <1>2, <3>0 DEF PathHolds
          <6> QED BY <1>0, <1>2, <3>0, <3>1, <4>0, <4>7, <6>1 DEF Edges
        <5>2. {m \in seen : cache'[m] # 0} = S \cup {t}
          BY <1>8, <1>9, <4>1, <4>4, <5>1
        <5>3. best'[p] = Deeper(best[p], i + cache'[t]) /\ cache'[t] \in Nat
          <6>1. best[t] = i + cache'[t]
            <7>1. i = k - 1 /\ cache'[t] = v /\ v \in Nat /\ i \in Nat
              BY <1>9, <3>0, <4>7
            <7>2. best[t] = v + i
              BY <1>8, <7>1
            <7> QED BY <7>1, <7>2
          <6> QED BY <1>8, <1>9, <3>4, <5>1, <6>1
        <5>4. (Longest(best[p], i, S \cup {t}))'
          <6>1. CASE i + cache'[t] > best[p]
            <7>1. best'[p] = i + cache'[t]
              BY <5>3, <6>1 DEF Deeper
            <7>2. \A m \in S \cup {t} : best'[p] >= i + cache'[m]
              BY <4>3, <4>5, <5>3, <6>1, <7>1
            <7> QED BY <5>3, <7>1, <7>2 DEF Longest
          <6>2. CASE ~(i + cache'[t] > best[p])
            <7>1. best'[p] = best[p]
              BY <5>3, <6>2 DEF Deeper
            <7>2. \A m \in S \cup {t} : best'[p] >= i + cache'[m]
              BY <4>3, <4>5, <5>3, <6>2, <7>1
            <7> QED BY <4>5, <7>1, <7>2 DEF Longest
          <6> QED BY <6>1, <6>2
        <5> QED BY <1>1, <4>0, <4>6, <5>2, <5>4
      <4>8. CASE i # j
        <5>1. p # caller
          <6>1. \A n, m \in 1..Len(path) : path[n] = path[m] => n = m
            BY <1>0 DEF TypeOK
          <6> QED BY <1>2, <3>0, <3>1, <4>0, <4>8, <6>1
        <5>2. t \notin seen
          <6>1. i + 1 \in 1..k /\ i + 1 # k
            BY <3>0, <4>8
          <6> QED BY <1>4, <1>5, <4>2, <6>1
        <5>3. {m \in seen : cache'[m] # 0} = S
          BY <4>1, <4>4, <5>2
        <5>4. best'[p] = best[p]
          BY <3>4, <4>0, <5>1
        <5>5. (Longest(best[p], i, S))'
          BY <4>5, <5>4 DEF Longest
        <5> QED BY <1>1, <4>0, <4>6, <5>3, <5>5
      <4> QED BY <4>7, <4>8
    <3>6. DepthHolds'
      <4>1. (needs[ticket] \subseteq cards /\ Acyclic(needs, Reach(needs, ticket))
             /\ OnPath \subseteq Reach(needs, ticket))'
        BY <1>1, <1>3, <1>5
      <4>2. \A i \in 1..Len(path') : i \in 1..j
        BY <1>3, <3>0
      <4>3. (\A i \in 1..Len(path) :
             LET seen == needs[path[i]] \ todo[path[i]] IN
             /\ Longest(best[path[i]], i, {m \in seen : cache[m] # 0})
             /\ \A m \in seen : cache[m] # 0 \/ (i < Len(path) /\ m = path[i + 1]))'
        BY <3>5, <4>2
      <4> QED BY <1>11, <4>1, <4>3 DEF DepthHolds
    <3>7. VerdictIsRight'
      BY <1>0, <3>2 DEF VerdictIsRight
    <3> QED BY <1>0, <3>2, <3>3, <3>4, <3>6, <3>7
  <2> QED BY <2>1, <2>2
<1>13. TypeOK'
  BY <1>0, <1>1, <1>3, <1>9, <1>12 DEF TypeOK
<1>14. CycleHolds' /\ CollectHolds' /\ CacheEmpty' /\ DepthHolds'
  BY <1>12 DEF CycleHolds, CollectHolds, CacheEmpty, DepthHolds
<1> QED BY <1>12, <1>13, <1>14 DEF SearchInv

-----------------------------------------------------------------------------
(* The invariant, and what follows from it. *)

LEMMA SearchStarts ==
  ASSUME Init
  PROVE  SearchInv
<1>1. needs \in [Ids -> SUBSET Ids] /\ ticket \in Ids /\ path = <<>> /\ Len(path) = 0
  BY SearchAssumption DEF Init
<1>2. TypeOK
  BY <1>1 DEF Init, TypeOK
<1>3. PathHolds
  BY <1>1 DEF Init, PathHolds
<1>4. CollectHolds
  BY <1>1 DEF Init, CollectHolds, OnPath
<1>5. CycleHolds /\ DepthHolds /\ CacheEmpty /\ VerdictIsRight
  BY DEF Init, CycleHolds, DepthHolds, CacheEmpty, VerdictIsRight
<1> QED BY <1>2, <1>3, <1>4, <1>5 DEF SearchInv

LEMMA SearchStutters ==
  ASSUME SearchInv, UNCHANGED vars
  PROVE  SearchInv'
<1>1. /\ cards' = cards /\ needs' = needs /\ ticket' = ticket /\ pc' = pc
      /\ path' = path /\ todo' = todo /\ visited' = visited
      /\ best' = best /\ cache' = cache
  BY DEF vars, graph
<1>2. OnPath' = OnPath
  BY <1>1 DEF OnPath
<1>3. TypeOK' /\ CacheEmpty' /\ VerdictIsRight'
  BY <1>1 DEF SearchInv, TypeOK, CacheEmpty, VerdictIsRight
<1>4. PathHolds'
  BY <1>1 DEF SearchInv, PathHolds, Edges, Dependents
<1>5. CycleHolds' /\ CollectHolds'
  BY <1>1, <1>2 DEF SearchInv, CycleHolds, CollectHolds
<1>6. DepthHolds'
  BY <1>1, <1>2 DEF SearchInv, DepthHolds, Longest
<1> QED BY <1>3, <1>4, <1>5, <1>6 DEF SearchInv

LEMMA SearchKept ==
  ASSUME SearchInv, [Next]_vars
  PROVE  SearchInv'
<1>1. CASE LookUp
  BY <1>1, LookUpKeeps
<1>2. CASE Circle
  BY <1>2, CircleKeeps
<1>3. CASE NoCircle
  BY <1>3, NoCircleKeeps
<1>4. CASE Collect
  BY <1>4, CollectKeeps
<1>5. CASE Collected
  BY <1>5, CollectedKeeps
<1>6. CASE Skip
  BY <1>6, SkipKeeps
<1>7. CASE Descend
  BY <1>7, DescendKeeps
<1>8. CASE Return
  BY <1>8, ReturnKeeps
<1>9. CASE Measure
  BY <1>9, MeasureKeeps
<1>10. CASE MeasureBelow
  BY <1>10, MeasureBelowKeeps
<1>11. CASE Measured
  BY <1>11, MeasuredKeeps
<1>12. CASE Answered \/ UNCHANGED vars
  BY <1>12, SearchStutters DEF Answered
<1> QED BY <1>1, <1>2, <1>3, <1>4, <1>5, <1>6, <1>7, <1>8, <1>9, <1>10, <1>11, <1>12
        DEF Next

LEMMA SearchInvHolds == Spec => []SearchInv
BY SearchStarts, SearchKept, PTL DEF Spec

\* The searches keep their types, and a call is never made for a ticket whose
\* call has not returned: maxDependencyDepth and detectCycle end on any graph.
THEOREM SearchTypeOK == Spec => []TypeOK
<1>1. SearchInv => TypeOK
  BY DEF SearchInv
<1> QED BY <1>1, SearchInvHolds, PTL

\* validateDependencyGraph gives the right answer on every graph: the names
\* exist, there is no circle, and no chain is longer than three, just when it
\* lets a ticket pass.
THEOREM SearchVerdict == Spec => []VerdictIsRight
<1>1. SearchInv => VerdictIsRight
  BY DEF SearchInv
<1> QED BY <1>1, SearchInvHolds, PTL

\* Whoever does not lead to a ticket that was collected was not collected, and
\* is not needed by one that was.
LEMMA CollectedIsBranch ==
  ASSUME TypeOK, CollectHolds
  PROVE  CascadeIsBranch
<1> SUFFICES ASSUME pc = "collected"
             PROVE  Branch(cards, needs, ticket) \subseteq visited
  BY DEF CascadeIsBranch, CollectHolds
<1>1. /\ ticket \in visited /\ OnPath = {}
      /\ \A n \in visited : \A m \in Dependents(cards, needs, n) : m \in visited
  BY DEF CollectHolds, OnPath
<1> SUFFICES ASSUME NEW n \in Branch(cards, needs, ticket), n \notin visited
             PROVE  FALSE
  OBVIOUS
<1>2. n \in Ids /\ ticket \in Reach(needs, n) /\ needs \in Graph
  BY DEF TypeOK, Branch, Graph
<1>3. Closed(needs, Ids \ visited)
  BY <1>1 DEF Closed, Dependents, TypeOK
<1>4. Reach(needs, n) \subseteq Ids \ visited
  BY <1>2, <1>3, ReachWithin
<1> QED BY <1>1, <1>2, <1>4

\* A cascade collects the tickets that lead to the one removed, whatever
\* circles there are: all of them and no others.
THEOREM SearchCascade == Spec => []CascadeIsBranch
<1>1. SearchInv => CascadeIsBranch
  BY CollectedIsBranch DEF SearchInv
<1> QED BY <1>1, SearchInvHolds, PTL
=============================================================================
