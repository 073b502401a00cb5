----------------------------- MODULE TreeProofs -----------------------------
(***************************************************************************)
(* Proofs about Tree and TreeOverlap, for any ids, lists and bounds.  The  *)
(* types, and what TreeOverlap says of files replaced and workers left     *)
(* alone, hold for any number of commands that overlap.  What becomes of   *)
(* the graph holds as long as one command runs at a time (Solo), and no    *)
(* lock sees to that.  Circles are treated without paths: a circle is a    *)
(* set of tickets each of which needs another one of it.                   *)
(***************************************************************************)
EXTENDS TreeOverlap, TLAPS

Solo == \A p, q \in Procs : p = q

Graph == [Ids -> SUBSET Ids]

\* Every ticket of T needs a ticket of T.
Circular(E, T) == \A n \in T : E[n] \cap T # {}

-----------------------------------------------------------------------------
(* What Reach gives. *)

LEMMA ReachStarts ==
  ASSUME NEW E \in Graph, NEW x \in Ids
  PROVE  x \in Reach(E, x) /\ Reach(E, x) \subseteq Ids
BY DEF Reach, Graph

LEMMA ReachGoesOn ==
  ASSUME NEW E \in Graph, NEW x \in Ids, NEW n \in Reach(E, x), NEW m \in E[n]
  PROVE  m \in Reach(E, x)
<1>1. n \in Ids /\ m \in Ids
  BY DEF Reach, Graph
<1>2. SUFFICES ASSUME NEW S \in SUBSET Ids, x \in S, Closed(E, S)
               PROVE  m \in S
  BY <1>1 DEF Reach, Graph
<1>3. n \in S
  BY <1>2 DEF Reach, Graph
<1> QED BY <1>2, <1>3 DEF Closed

\* What is reached from something reached is reached.
LEMMA ReachBelow ==
  ASSUME NEW E \in Graph, NEW x \in Ids, NEW n \in E[x], NEW t \in Reach(E, n)
  PROVE  t \in Reach(E, x)
<1>1. t \in Ids
  BY DEF Reach, Graph
<1>2. SUFFICES ASSUME NEW S \in SUBSET Ids, x \in S, Closed(E, S)
               PROVE  t \in S
  BY <1>1 DEF Reach, Graph
<1>3. n \in S
  BY <1>2 DEF Closed
<1> QED BY <1>2, <1>3 DEF Reach, Graph

\* Nothing circular goes through a ticket below which nothing is circular.
LEMMA NoCircleThrough ==
  ASSUME NEW E \in Graph, NEW x \in Ids, Acyclic(E, Reach(E, x)),
         NEW T \in SUBSET Ids, x \in T, Circular(E, T)
  PROVE  FALSE
<1> DEFINE R == T \cap Reach(E, x)
<1>1. R # {} /\ R \in SUBSET Reach(E, x)
  BY ReachStarts
<1>2. PICK n \in R : E[n] \cap R = {}
  BY <1>1 DEF Acyclic
<1>3. PICK m \in E[n] : m \in T
  BY <1>2 DEF Circular
<1>4. m \in Reach(E, x)
  BY <1>2, <1>3, ReachGoesOn
<1> QED BY <1>2, <1>3, <1>4

\* A set is free of circles when none of its parts is circular.
LEMMA AcyclicAsCircular ==
  ASSUME NEW E \in Graph, NEW S \in SUBSET Ids
  PROVE  Acyclic(E, S) <=> \A T \in SUBSET S : Circular(E, T) => T = {}
BY DEF Acyclic, Circular

-----------------------------------------------------------------------------
(* Types. *)

LEMMA CommandTyped ==
  ASSUME NEW pc \in {"idle", "stat", "put", "judge", "update", "remove"},
         NEW id \in Ids \cup {NoId}, NEW exact \in BOOLEAN, NEW new \in Ids \cup {NoId},
         NEW docs \in Graph, NEW todo \in SUBSET Ids
  PROVE  /\ Command(pc, id, exact, new, docs, todo) \in CommandSet
         /\ Command(pc, id, exact, new, docs, todo).pc = pc
         /\ Command(pc, id, exact, new, docs, todo).id = id
         /\ Command(pc, id, exact, new, docs, todo).exact = exact
         /\ Command(pc, id, exact, new, docs, todo).new = new
         /\ Command(pc, id, exact, new, docs, todo).docs = docs
         /\ Command(pc, id, exact, new, docs, todo).todo = todo
BY DEF Command, CommandSet, Graph

LEMMA IdleTyped ==
  /\ Idle \in CommandSet /\ Idle.pc = "idle"
  /\ CommandHolds(Idle)
<1>2. Idle \in CommandSet /\ Idle.pc = "idle"
  BY DEF Idle, Command, CommandSet, NoDocs
<1> QED BY <1>2 DEF CommandHolds

\* A process gets a command: it is the one that runs, and the type is kept.
LEMMA RunsTyped ==
  ASSUME TypeOK, NEW p \in Procs, NEW c \in CommandSet, Runs(p, c)
  PROVE  procs' \in [Procs -> CommandSet] /\ procs'[p] = c
BY DEF TypeOK, Runs

LEMMA WriteTyped ==
  ASSUME TypeOK, NEW n \in Ids, NEW list \in SUBSET Ids, Write(n, list)
  PROVE  /\ cards' \subseteq Ids /\ running' \subseteq cards'
         /\ needs' \in Graph /\ \A m \in Ids \ cards' : needs'[m] = {}
BY DEF TypeOK, Write, Graph

LEMMA UnlinkTyped ==
  ASSUME TypeOK, NEW n \in Ids, Unlink(n)
  PROVE  /\ cards' \subseteq Ids /\ running' \subseteq cards'
         /\ needs' \in Graph /\ \A m \in Ids \ cards' : needs'[m] = {}
BY DEF TypeOK, Unlink, Graph

\* What create and migrate will write are lists of ids.
LEMMA FinalTyped ==
  ASSUME TypeOK, NEW t \in Ids, NEW new \in Ids, NEW exact \in BOOLEAN,
         NEW R \in SUBSET Ids
  PROVE  Migrated(t, exact, new, R) \in Graph
<1>1. \A n \in Ids : Renamed(needs[n], t, new) \in SUBSET Ids
  BY DEF TypeOK, Renamed
<1> QED BY <1>1 DEF Migrated, TypeOK, Graph

\* The ids a command works with are there when it needs them.
Names(c) ==
  /\ c.pc \in {"stat", "put", "update"} => c.new \in Ids
  /\ c.pc \in {"judge", "update", "remove"} => c.id \in Ids

LEMMA HoldsNames == ASSUME NEW c, CommandHolds(c) PROVE Names(c)
BY DEF CommandHolds, Names

LEMMA TypeKept ==
  ASSUME TypeOK, NEW p \in Procs, Names(procs[p]), Does(p)
  PROVE  TypeOK'
<1> USE ListsAssumption
<1> DEFINE c == procs[p]
<1>c. /\ c \in CommandSet /\ Names(c)
      /\ c.pc \in {"idle", "stat", "put", "judge", "update", "remove"}
      /\ c.id \in Ids \cup {NoId} /\ c.exact \in BOOLEAN /\ c.new \in Ids \cup {NoId}
      /\ c.docs \in Graph /\ c.todo \in SUBSET Ids
  BY DEF TypeOK, CommandSet, Graph
<1>t. /\ cards \subseteq Ids /\ running \subseteq cards /\ needs \in Graph
      /\ \A n \in Ids \ cards : needs[n] = {}
      /\ refused \subseteq edited /\ edited \subseteq cards /\ lost \subseteq Ids
  BY DEF TypeOK, Graph
<1>o. Orphaned(c) \subseteq Ids
  BY <1>c, <1>t DEF Orphaned, Graph
<1>1. ASSUME NEW new \in Ids, NEW list \in Lists, CreatePlan(p, new, list)
      PROVE  TypeOK'
  <2>1. [NoDocs EXCEPT ![new] = list] \in Graph
    BY DEF NoDocs, Graph
  <2>2. Command("stat", NoId, TRUE, new, [NoDocs EXCEPT ![new] = list], {}) \in CommandSet
    BY <2>1 DEF Command, CommandSet, Graph
  <2> QED BY <1>1, <2>2, <1>t, RunsTyped DEF CreatePlan, Untouched, history, TypeOK
<1>2. ASSUME NEW t \in Ids, NEW list \in Lists, EditorSaves(p, t, list)
      PROVE  TypeOK'
  <2>1. Command("judge", t, TRUE, NoId, NoDocs, {}) \in CommandSet
    BY DEF Command, CommandSet, NoDocs
  <2> QED BY <1>2, <2>1, <1>t, RunsTyped DEF EditorSaves, TypeOK, Graph
<1>3. ASSUME NEW t \in Ids, NEW exact \in BOOLEAN, NEW cascade \in BOOLEAN,
             DeletePlan(p, t, exact, cascade)
      PROVE  TypeOK'
  <2> DEFINE targets == IF cascade /\ exact THEN Branch(cards, needs, t) ELSE {t}
  <2>1. targets \in SUBSET Ids
    BY <1>t DEF Branch
  <2>2. Command("remove", t, exact, NoId, NoDocs, targets) \in CommandSet
    BY <2>1 DEF Command, CommandSet, NoDocs
  <2>3. Runs(p, Command("remove", t, exact, NoId, NoDocs, targets))
    BY <1>3 DEF DeletePlan
  <2> QED BY <1>3, <2>2, <2>3, <1>t, RunsTyped DEF DeletePlan, Untouched, history, TypeOK
<1>4. ASSUME NEW t \in Ids, NEW new \in Ids, NEW exact \in BOOLEAN,
             MigratePlan(p, t, exact, new)
      PROVE  TypeOK'
  <2> DEFINE rewritten == Named(t, exact) \ {t}
             graph == Migrated(t, exact, new, rewritten)
             docs == [n \in Ids |-> IF n \in rewritten \cup {new} THEN graph[n] ELSE {}]
  <2>1. rewritten \in SUBSET Ids
    BY <1>t DEF Named, Dependents
  <2>2. graph \in Graph
    BY <2>1, FinalTyped
  <2>3. docs \in Graph
    BY <2>2 DEF Graph
  <2>4. Command("put", t, exact, new, docs, rewritten) \in CommandSet
    BY <2>1, <2>3, CommandTyped
  <2>5. Runs(p, Command("put", t, exact, new, docs, rewritten))
    BY <1>4 DEF MigratePlan
  <2> QED BY <1>4, <2>4, <2>5, <1>t, RunsTyped DEF MigratePlan, Untouched, history, TypeOK
<1>5. CASE Stat(p)
  <2>1. [c EXCEPT !.pc = "put"] \in CommandSet
    BY <1>c DEF CommandSet
  <2>2. (IF c.new \in cards THEN Idle ELSE [c EXCEPT !.pc = "put"]) \in CommandSet
    BY <2>1, IdleTyped
  <2> QED BY <1>5, <2>2, <1>t, RunsTyped DEF Stat, Untouched, history, TypeOK
<1>6. CASE Judge(p)
  BY <1>6, <1>t, IdleTyped, RunsTyped DEF Judge, Untouched, TypeOK
<1>7. CASE Put(p)
  <2> DEFINE old == {n \in {c.id} : n # NoId}
             d == IF old = {} THEN Idle
                  ELSE IF c.todo = {} THEN [c EXCEPT !.pc = "remove", !.todo = old]
                  ELSE [c EXCEPT !.pc = "update"]
  <2>1. old \in SUBSET Ids /\ c.new \in Ids /\ c.docs[c.new] \in SUBSET Ids
    BY <1>c, <1>7 DEF Put, At, Names, Graph
  <2>2. [c EXCEPT !.pc = "remove", !.todo = old] \in CommandSet
    BY <1>c, <2>1 DEF CommandSet
  <2>3. [c EXCEPT !.pc = "update"] \in CommandSet
    BY <1>c DEF CommandSet
  <2>4. d \in CommandSet /\ Runs(p, d)
    BY <1>7, <2>2, <2>3, IdleTyped DEF Put
  <2>5. procs' \in [Procs -> CommandSet]
    BY <2>4, RunsTyped
  <2>6. /\ cards' \subseteq Ids /\ running' \subseteq cards' /\ cards \cup {c.new} = cards'
        /\ needs' \in Graph /\ \A m \in Ids \ cards' : needs'[m] = {}
    <3>1. Write(c.new, c.docs[c.new])
      BY <1>7 DEF Put
    <3>2. cards \cup {c.new} = cards'
      BY <3>1 DEF Write
    <3> QED BY <3>1, <3>2, <2>1, WriteTyped
  <2>7. /\ edited' \in {edited, edited \cup {c.new}}
        /\ lost' \in {lost, lost \cup {c.new}} /\ refused' = refused
    BY <1>7 DEF Put
  <2> QED BY <2>1, <2>5, <2>6, <2>7, <1>t DEF TypeOK, Graph
<1>8. CASE Dies(p)
  BY <1>8, <1>o, <1>t, IdleTyped, RunsTyped DEF Dies, Untouched, TypeOK
<1>9. ASSUME NEW n \in Ids, Update(p, n)
      PROVE  TypeOK'
  <2> DEFINE d == IF c.todo = {n} THEN [c EXCEPT !.pc = "remove", !.todo = {c.id}]
                  ELSE [c EXCEPT !.todo = @ \ {n}]
  <2>1. c.id \in Ids /\ c.docs[n] \in SUBSET Ids
    BY <1>c, <1>9 DEF Update, At, Names, Graph
  <2>2. [c EXCEPT !.pc = "remove", !.todo = {c.id}] \in CommandSet
    BY <1>c, <2>1 DEF CommandSet
  <2>3. [c EXCEPT !.todo = @ \ {n}] \in CommandSet
    BY <1>c DEF CommandSet
  <2>4. d \in CommandSet /\ Runs(p, d)
    BY <1>9, <2>2, <2>3 DEF Update
  <2>5. procs' \in [Procs -> CommandSet]
    BY <2>4, RunsTyped
  <2>6. /\ cards' \subseteq Ids /\ running' \subseteq cards' /\ cards \cup {n} = cards'
        /\ needs' \in Graph /\ \A m \in Ids \ cards' : needs'[m] = {}
    <3>1. Write(n, c.docs[n])
      BY <1>9 DEF Update
    <3>2. cards \cup {n} = cards'
      BY <3>1 DEF Write
    <3> QED BY <3>1, <3>2, <2>1, WriteTyped
  <2> QED BY <1>9, <2>5, <2>6, <1>t DEF Update, history, TypeOK, Graph
<1>10. ASSUME NEW n \in Ids, RemoveFile(p, n)
       PROVE  TypeOK'
  <2> DEFINE done == c.todo = {n} \/ n \notin cards
             d == IF done THEN Idle ELSE [c EXCEPT !.todo = @ \ {n}]
  <2>1. [c EXCEPT !.todo = @ \ {n}] \in CommandSet
    BY <1>c DEF CommandSet
  <2>2. d \in CommandSet /\ Runs(p, d)
    BY <1>10, <2>1, IdleTyped DEF RemoveFile
  <2>3. procs' \in [Procs -> CommandSet]
    BY <2>2, RunsTyped
  <2>4. /\ cards' \subseteq Ids /\ running' \subseteq cards' /\ cards' = cards \ {n}
        /\ needs' \in Graph /\ \A m \in Ids \ cards' : needs'[m] = {}
    <3>1. CASE n \in cards
      <4>1. Unlink(n)
        BY <1>10, <3>1 DEF RemoveFile
      <4>2. cards' = cards \ {n}
        BY <4>1 DEF Unlink
      <4> QED BY <4>1, <4>2, UnlinkTyped
    <3>2. CASE n \notin cards
      BY <1>10, <3>2, <1>t DEF RemoveFile, Untouched
    <3> QED BY <3>1, <3>2
  <2>5. /\ refused' = refused \ {n} /\ edited' = edited \ {n}
        /\ lost' \in {lost \cup Orphaned(c), lost \cup {}, lost \cup {n}}
    BY <1>10 DEF RemoveFile
  <2> QED BY <2>3, <2>4, <2>5, <1>o, <1>t DEF TypeOK, Graph
<1> QED BY <1>1, <1>2, <1>3, <1>4, <1>5, <1>6, <1>7, <1>8, <1>9, <1>10 DEF Does

\* A worker comes or goes: no file changes, nor what any command is at.
LEMMA WorkersTyped ==
  ASSUME TypeOK, NEW t \in Ids, Dispatch(t) \/ Returns(t)
  PROVE  TypeOK' /\ UNCHANGED <<cards, needs, procs, refused, edited, lost>>
BY DEF Dispatch, Returns, history, TypeOK

LEMMA TreeTypeKept ==
  ASSUME TreeInv, NEW p \in Procs, Does(p)
  PROVE  TypeOK'
BY TypeKept, HoldsNames DEF TreeInv

-----------------------------------------------------------------------------
(* No circle is closed. *)

\* A migrated ticket under its new name.
Now(x, old, new) == IF x = old THEN new ELSE x

\* Whatever is circular in G would, under the new name, be circular in F too.
LEMMA CircleMoves ==
  ASSUME NEW F \in Graph, NEW G \in Graph, NEW old \in Ids, NEW new \in Ids,
         NEW D \in SUBSET Ids, old \notin D,
         \A n \in D \cup {new} : Acyclic(F, Reach(F, n)),
         NEW T \in SUBSET Ids, Circular(G, T),
         \A s \in T : \A x \in G[s] : Now(x, old, new) \in F[Now(s, old, new)]
  PROVE  T \cap (D \cup {old, new}) = {}
<1> DEFINE U == {Now(x, old, new) : x \in T}
<1>1. SUFFICES ASSUME NEW s \in T, s \in D \cup {old, new}
               PROVE  FALSE
  OBVIOUS
<1>2. U \in SUBSET Ids
  BY DEF Now
<1>3. Circular(F, U)
  <2>1. SUFFICES ASSUME NEW r \in T
                 PROVE  F[Now(r, old, new)] \cap U # {}
    BY DEF Circular
  <2>2. PICK x \in G[r] : x \in T
    BY DEF Circular
  <2> QED BY <2>2
<1>4. Now(s, old, new) \in U /\ Now(s, old, new) \in D \cup {new}
  BY <1>1 DEF Now
<1> QED BY <1>2, <1>3, <1>4, NoCircleThrough

LEMMA FinalIsGraph ==
  ASSUME TypeOK, NEW c \in CommandSet, NEW D \in SUBSET Ids
  PROVE  Final(c, D) \in Graph
BY DEF Final, Graph, TypeOK, CommandSet

LEMMA NoIdIsNone == NoId \notin Ids
BY IdsAssumption DEF NoId

\* A tree on its way to Final has, with the old id read as the new one, only
\* edges that Final has.
LEMMA EdgeMoves ==
  ASSUME TypeOK, NEW c \in CommandSet, c.new \in Ids, c.id \in Ids, c.exact,
         NEW D \in SUBSET Ids, PlanHolds(c, D),
         NEW G \in Graph, G[c.new] = c.docs[c.new],
         \A n \in D : G[n] \in {c.docs[n], needs[n]},
         \A n \in Ids \ (D \cup {c.new}) : G[n] = needs[n],
         NEW s \in Ids, NEW x \in G[s]
  PROVE  Now(x, c.id, c.new) \in Final(c, D)[Now(s, c.id, c.new)]
<1> DEFINE F == Final(c, D)
<1>0. x \in Ids
  BY DEF Graph
<1>1. CASE s = c.id
  BY <1>0, <1>1 DEF PlanHolds, Final, Now
<1>2. CASE s = c.new
  BY <1>0, <1>2 DEF PlanHolds, Final, Now
<1>3. CASE s \in D
  <2>1. F[Now(s, c.id, c.new)] = c.docs[s] /\ c.id \notin c.docs[s]
    BY <1>3 DEF PlanHolds, Final, Now
  <2>2. G[s] = c.docs[s] \/ c.docs[s] = Renamed(G[s], c.id, c.new)
    BY <1>3 DEF PlanHolds
  <2> QED BY <2>1, <2>2 DEF Now, Renamed
<1>4. CASE s \notin D \cup {c.id, c.new}
  BY <1>0, <1>4 DEF PlanHolds, Final, Now
<1> QED BY <1>1, <1>2, <1>3, <1>4

\* A tree on its way to Final has no circle that was not there before.
LEMMA PlanClosesNoCircle ==
  ASSUME TypeOK, NEW c \in CommandSet, c.new \in Ids,
         NEW D \in SUBSET Ids, PlanHolds(c, D),
         NEW G \in Graph, G[c.new] = c.docs[c.new],
         \A n \in D : G[n] \in {c.docs[n], needs[n]},
         \A n \in Ids \ (D \cup {c.new}) : G[n] = needs[n],
         NEW T \in SUBSET Ids, Circular(G, T)
  PROVE  T \cap (D \cup {c.new}) = {} /\ Circular(needs, T)
<1> DEFINE F == Final(c, D)
<1>1. F \in Graph
  BY FinalIsGraph
<1>2. \A n \in D \cup {c.new} : Acyclic(F, Reach(F, n))
  BY DEF PlanHolds
<1>3. T \cap (D \cup {c.new}) = {}
  <2>1. CASE c.id \in Ids /\ c.exact
    <3>1. c.id \notin D
      BY <2>1 DEF PlanHolds
    <3>2. \A s \in T : \A x \in G[s] : Now(x, c.id, c.new) \in F[Now(s, c.id, c.new)]
      BY <2>1, EdgeMoves
    <3> HIDE DEF F
    <3>3. T \cap (D \cup {c.id, c.new}) = {}
      BY <1>1, <1>2, <2>1, <3>1, <3>2, CircleMoves
    <3> QED BY <3>3
  <2>2. CASE ~(c.id \in Ids /\ c.exact)
    <3>1. D = {}
      BY <2>2 DEF PlanHolds
    <3>2. G = F
      BY <2>2, <3>1 DEF Final, Graph
    <3> HIDE DEF F
    <3>3. Acyclic(F, Reach(F, c.new)) /\ Circular(F, T)
      BY <1>2, <3>2
    <3>4. c.new \notin T
      BY <1>1, <3>3, NoCircleThrough
    <3> QED BY <3>1, <3>4
  <2> QED BY <2>1, <2>2
<1> QED BY <1>3 DEF Circular

LEMMA CirclesKept ==
  ASSUME TreeInv, NEW p \in Procs, Does(p)
  PROVE  CirclesAreRefused'
<1> DEFINE c == procs[p]
<1>t. /\ TypeOK /\ cards \subseteq Ids /\ refused \subseteq cards /\ needs \in Graph
      /\ c \in CommandSet /\ CommandHolds(c)
  BY DEF TreeInv, TypeOK, Graph
<1>n. TypeOK' /\ needs' \in Graph /\ cards' \subseteq Ids
  <2>1. TypeOK'
    BY TreeTypeKept
  <2> QED BY <2>1 DEF TypeOK, Graph
<1>c. \A T \in SUBSET (cards \ refused) : Circular(needs, T) => T = {}
  BY <1>t, AcyclicAsCircular DEF TreeInv, CirclesAreRefused
<1>s. SUFFICES ASSUME NEW T \in SUBSET (cards' \ refused'), Circular(needs', T)
               PROVE  T = {}
  <2>1. cards' \ refused' \in SUBSET Ids
    BY <1>n
  <2> QED BY <1>n, <2>1, <1>s, AcyclicAsCircular DEF CirclesAreRefused
<1>1. CASE UNCHANGED <<cards, needs, refused>>
  BY <1>1, <1>c, <1>s
<1>2. ASSUME NEW t \in Ids, NEW list \in Lists, EditorSaves(p, t, list)
      PROVE  T = {}
  <2>1. T \in SUBSET (cards \ refused) /\ t \notin T
    BY <1>2 DEF EditorSaves
  <2>2. Circular(needs, T)
    BY <1>2, <1>s, <1>t, <2>1 DEF EditorSaves, Circular, Graph
  <2> QED BY <2>1, <2>2, <1>c
<1>3. CASE Judge(p)
  <2>1. c.id \in Ids /\ cards' = cards /\ needs' = needs
    BY <1>3, <1>t DEF Judge, At, CommandHolds, Untouched
  <2>2. CASE Accepts(cards, needs, c.id)
    <3>1. T \in SUBSET Ids /\ Circular(needs, T)
      BY <1>s, <1>n, <2>1
    <3>2. c.id \notin T
      BY <2>1, <2>2, <3>1, <1>t, NoCircleThrough DEF Accepts
    <3>3. refused' = refused \ {c.id}
      BY <1>3, <2>2 DEF Judge
    <3>4. T \in SUBSET (cards \ refused)
      BY <2>1, <3>2, <3>3
    <3> QED BY <3>1, <3>4, <1>c
  <2>3. CASE ~Accepts(cards, needs, c.id)
    BY <1>3, <2>1, <2>3, <1>1 DEF Judge
  <2> QED BY <2>2, <2>3
<1>4. CASE Put(p)
  <2>1. c.new \in Ids /\ \E D \in SUBSET Ids : PlanHolds(c, D)
    BY <1>4, <1>t DEF Put, At, CommandHolds
  <2>2. PICK D \in SUBSET Ids : PlanHolds(c, D)
    BY <2>1
  <2>3. /\ cards' = cards \cup {c.new} /\ refused' = refused
        /\ needs' = [needs EXCEPT ![c.new] = c.docs[c.new]]
    BY <1>4 DEF Put, Write
  <2>4. /\ needs'[c.new] = c.docs[c.new]
        /\ \A n \in Ids \ {c.new} : needs'[n] = needs[n]
    BY <2>1, <2>3, <1>t DEF Graph
  <2>5. \A n \in D : needs'[n] \in {c.docs[n], needs[n]}
    BY <2>4
  <2>6. T \in SUBSET Ids
    BY <1>n
  <2>7. c.new \notin T /\ Circular(needs, T)
    BY <2>1, <2>2, <2>4, <2>5, <2>6, <1>t, <1>n, <1>s, PlanClosesNoCircle
  <2> QED BY <2>3, <2>7, <1>c
<1>5. ASSUME NEW n \in Ids, Update(p, n)
      PROVE  T = {}
  <2>1. /\ c.new \in Ids /\ needs[c.new] = c.docs[c.new] /\ n \in c.todo
        /\ \E D \in SUBSET Ids : PlanHolds(c, D)
    BY <1>5, <1>t DEF Update, At, CommandHolds, IsFirst
  <2>2. PICK D \in SUBSET Ids : PlanHolds(c, D)
    BY <2>1
  <2>3. /\ cards' = cards \cup {n} /\ refused' = refused
        /\ needs' = [needs EXCEPT ![n] = c.docs[n]]
    BY <1>5 DEF Update, Write, history
  <2>4. n \in D
    BY <2>1, <2>2 DEF PlanHolds
  <2>5. /\ needs'[n] = c.docs[n]
        /\ \A m \in Ids \ {n} : needs'[m] = needs[m]
    BY <2>3, <1>t DEF Graph
  <2>6. /\ needs'[c.new] = c.docs[c.new]
        /\ \A m \in D : needs'[m] \in {c.docs[m], needs[m]}
        /\ \A m \in Ids \ (D \cup {c.new}) : needs'[m] = needs[m]
    BY <2>1, <2>4, <2>5
  <2>7. T \in SUBSET Ids
    BY <1>n
  <2>8. n \notin T /\ Circular(needs, T)
    BY <2>1, <2>2, <2>4, <2>6, <2>7, <1>t, <1>n, <1>s, PlanClosesNoCircle
  <2> QED BY <2>3, <2>8, <1>c
<1>6. ASSUME NEW n \in Ids, RemoveFile(p, n)
      PROVE  T = {}
  <2>1. CASE n \in cards
    <3>1. /\ cards' = cards \ {n} /\ refused' = refused \ {n}
          /\ needs' = [needs EXCEPT ![n] = {}]
      BY <1>6, <2>1 DEF RemoveFile, Unlink
    <3>2. T \in SUBSET (cards \ refused) /\ n \notin T
      BY <3>1
    <3>3. Circular(needs, T)
      BY <1>s, <1>t, <3>1, <3>2 DEF Circular, Graph
    <3> QED BY <3>2, <3>3, <1>c
  <2>2. CASE n \notin cards
    <3>1. cards' = cards /\ needs' = needs /\ refused' = refused
      BY <1>6, <2>2, <1>t DEF RemoveFile, Untouched
    <3> QED BY <3>1, <1>1
  <2> QED BY <2>1, <2>2
<1>7. ASSUME \/ \E new \in Ids, list \in Lists : CreatePlan(p, new, list)
             \/ \E t \in Ids, exact, cascade \in BOOLEAN : DeletePlan(p, t, exact, cascade)
             \/ \E t, new \in Ids, exact \in BOOLEAN : MigratePlan(p, t, exact, new)
             \/ Stat(p) \/ Dies(p)
      PROVE  T = {}
  <2>1. UNCHANGED <<cards, needs, refused>>
    BY <1>7 DEF CreatePlan, DeletePlan, MigratePlan, Stat, Dies, Untouched, history
  <2> QED BY <2>1, <1>1
<1> QED BY <1>2, <1>3, <1>4, <1>5, <1>6, <1>7 DEF Does

-----------------------------------------------------------------------------
(* Where a command stands; from here on one command runs at a time. *)

\* Nothing but the command of p can fail its own part of the invariant.
LEMMA SoloCommand ==
  ASSUME Solo, NEW p \in Procs, CommandHolds(procs[p])'
  PROVE  (\A q \in Procs : CommandHolds(procs[q]))'
BY DEF Solo

LEMMA CreateHolds ==
  ASSUME TreeInv, NEW p \in Procs, NEW new \in Ids, NEW list \in Lists,
         CreatePlan(p, new, list)
  PROVE  CommandHolds(procs[p])'
<1> DEFINE docs == [NoDocs EXCEPT ![new] = list]
           d == Command("stat", NoId, TRUE, new, docs, {})
           graph == [needs EXCEPT ![new] = list]
<1>t. TypeOK /\ needs \in Graph /\ list \in SUBSET Ids
  BY ListsAssumption DEF TreeInv, TypeOK, Graph
<1>1. /\ d \in CommandSet /\ d.pc = "stat" /\ d.id = NoId /\ d.exact = TRUE
      /\ d.new = new /\ d.docs = docs /\ d.todo = {}
  BY <1>t DEF Command, CommandSet, NoDocs
<1>2. procs'[p] = d /\ cards' = cards /\ needs' = needs
  BY <1>1, <1>t, RunsTyped DEF CreatePlan, Untouched
<1>3. docs[new] = list
  BY DEF NoDocs
<1>4. Final(d, {}) = graph
  <2> HIDE DEF d, docs
  <2>1. Final(d, {}) = [n \in Ids |-> IF n = new THEN list ELSE needs[n]]
    BY <1>1, <1>3, NoIdIsNone DEF Final
  <2> QED BY <2>1, <1>t DEF Graph
<1>5. /\ list \subseteq cards \cup {new}
      /\ Acyclic(graph, Reach(graph, new)) /\ ~TooDeep(graph, new)
  <2>1. graph[new] = list
    BY <1>t DEF Graph
  <2> QED BY <2>1 DEF CreatePlan, Accepts
<1> HIDE DEF d, docs, graph
<1>6. PlanHolds(d, {})
  BY <1>1, <1>3, <1>4, <1>5, NoIdIsNone DEF PlanHolds
<1>7. PlanHolds(d, {})'
  BY <1>2, <1>6 DEF PlanHolds, Final
<1>8. CommandHolds(d)'
  <2>1. d' = d
    BY DEF d, docs, Command, NoDocs, NoId
  <2> QED BY <1>1, <1>7, <2>1 DEF CommandHolds
<1> QED BY <1>2, <1>8

LEMMA DeleteHolds ==
  ASSUME TreeInv, NEW p \in Procs, NEW t \in Ids, NEW exact \in BOOLEAN,
         NEW cascade \in BOOLEAN, DeletePlan(p, t, exact, cascade)
  PROVE  CommandHolds(procs[p])'
<1> DEFINE targets == IF cascade /\ exact THEN Branch(cards, needs, t) ELSE {t}
           d == Command("remove", t, exact, NoId, NoDocs, targets)
<1>t. TypeOK /\ needs \in Graph /\ cards \subseteq Ids
  BY DEF TreeInv, TypeOK, Graph
<1>1. targets \in SUBSET Ids
  BY <1>t DEF Branch
<1>2. /\ d \in CommandSet /\ d.pc = "remove" /\ d.id = t /\ d.exact = exact
      /\ d.todo = targets
  BY <1>1 DEF Command, CommandSet, NoDocs
<1>3. procs'[p] = d /\ cards' = cards /\ needs' = needs
  <2>1. Runs(p, d) /\ Untouched
    BY DEF DeletePlan
  <2> HIDE DEF d
  <2> QED BY <2>1, <1>2, <1>t, RunsTyped DEF Untouched
<1>5. exact => \A n \in cards \ targets : needs[n] \cap targets = {}
  <2>1. CASE cascade
    <3>1. SUFFICES ASSUME exact, NEW n \in cards, NEW x \in needs[n], x \in targets
                   PROVE  n \in targets
      OBVIOUS
    <3>2. t \in Reach(needs, x)
      BY <2>1, <3>1 DEF Branch
    <3>3. t \in Reach(needs, n)
      BY <1>t, <3>1, <3>2, ReachBelow
    <3> QED BY <2>1, <3>1, <3>3 DEF Branch
  <2>2. CASE ~cascade
    BY <2>2 DEF DeletePlan, Named, Dependents
  <2> QED BY <2>1, <2>2
<1>6. ~exact => targets = {t}
  OBVIOUS
<1> HIDE DEF d, targets
<1> QED BY <1>2, <1>3, <1>5, <1>6 DEF CommandHolds

LEMMA MigrateHolds ==
  ASSUME TreeInv, NEW p \in Procs, NEW t \in Ids, NEW new \in Ids,
         NEW exact \in BOOLEAN, MigratePlan(p, t, exact, new)
  PROVE  CommandHolds(procs[p])'
<1> DEFINE D == Named(t, exact) \ {t}
           graph == Migrated(t, exact, new, D)
           docs == [n \in Ids |-> IF n \in D \cup {new} THEN graph[n] ELSE {}]
           d == Command("put", t, exact, new, docs, D)
<1>t. TypeOK /\ needs \in Graph /\ cards \subseteq Ids
  BY DEF TreeInv, TypeOK, Graph
<1>g. /\ t \in cards /\ IsNext(new)
      /\ \A n \in D \cup {new} : Accepts(MigratedNodes(t, exact, new), graph, n)
      /\ Runs(p, d) /\ Untouched
  BY DEF MigratePlan
<1>n. new \notin cards
  BY <1>g, IdsAssumption DEF IsNext
<1>1. D \in SUBSET Ids /\ D \subseteq cards /\ t \notin D /\ new \notin D /\ new # t
  BY <1>t, <1>g, <1>n DEF Named, Dependents
<1>2. graph \in Graph
  <2> HIDE DEF D
  <2> QED BY <1>1, <1>t, FinalTyped
<1>3. docs \in Graph /\ \A n \in D \cup {new} : docs[n] = graph[n]
  <2> HIDE DEF graph, D
  <2> QED BY <1>1, <1>2 DEF Graph
<1>4. /\ d \in CommandSet /\ d.pc = "put" /\ d.id = t /\ d.exact = exact
      /\ d.new = new /\ d.docs = docs /\ d.todo = D
  <2> HIDE DEF docs, D
  <2> QED BY <1>1, <1>3 DEF Command, CommandSet, Graph
<1>5. procs'[p] = d /\ cards' = cards /\ needs' = needs
  <2> HIDE DEF d
  <2> QED BY <1>g, <1>4, <1>t, RunsTyped DEF Untouched
<1>6. /\ graph[new] = needs[t]
      /\ \A n \in D : graph[n] = Renamed(needs[n], t, new)
      /\ \A n \in Ids \ (D \cup {new}) : graph[n] = IF n = t /\ exact THEN {} ELSE needs[n]
  <2> HIDE DEF D
  <2> QED BY <1>1 DEF Migrated
<1>7. \A n \in D \cup {new} :
        /\ graph[n] \subseteq MigratedNodes(t, exact, new)
        /\ Acyclic(graph, Reach(graph, n)) /\ ~TooDeep(graph, n)
  BY <1>g DEF Accepts
<1>8. Final(d, D) = graph
  <2> HIDE DEF graph, docs, D, d
  <2>1. Final(d, D) = [n \in Ids |-> graph[n]]
    BY <1>3, <1>4, <1>6 DEF Final
  <2> QED BY <2>1, <1>2 DEF Graph
<1>9. exact => \A n \in Ids \ (D \cup {t, new}) : t \notin needs[n]
  BY <1>t DEF Named, Dependents, TypeOK
<1>10. ~exact => D = {}
  BY DEF Named
<1>11. exact => \A n \in D \cup {new} : t \notin graph[n]
  BY <1>7, <1>1 DEF MigratedNodes
<1>12. \A n \in D \cup {new} : docs[n] \subseteq cards \cup {new}
  BY <1>3, <1>7, <1>g DEF MigratedNodes
<1> HIDE DEF graph, docs, D, d
<1>13. PlanHolds(d, D)
  <2>1. \A n \in D \cup {new} : /\ Acyclic(Final(d, D), Reach(Final(d, D), n))
                               /\ ~TooDeep(Final(d, D), n)
    BY <1>7, <1>8
  <2> QED BY <2>1, <1>1, <1>3, <1>4, <1>6, <1>9, <1>10, <1>11, <1>12 DEF PlanHolds
<1>14. PICK e \in CommandSet, R \in SUBSET Ids : e = d /\ R = D     \* the values they have now
  BY <1>1, <1>4
<1>15. PlanHolds(e, R)'
  BY <1>5, <1>13, <1>14 DEF PlanHolds, Final
<1>16. CommandHolds(e)'
  BY <1>1, <1>4, <1>5, <1>14, <1>15, <1>g, <1>n DEF CommandHolds
<1> QED BY <1>5, <1>14, <1>16

LEMMA RemoveHolds ==
  ASSUME TreeInv, NEW p \in Procs, NEW n \in Ids, RemoveFile(p, n)
  PROVE  CommandHolds(procs[p])'
<1> DEFINE c == procs[p]
           done == c.todo = {n} \/ n \notin cards
           d == IF done THEN Idle ELSE [c EXCEPT !.todo = @ \ {n}]
<1>t. /\ TypeOK /\ needs \in Graph /\ c \in CommandSet /\ CommandHolds(c)
      /\ c.pc = "remove" /\ n \in c.todo
  BY DEF TreeInv, TypeOK, Graph, RemoveFile, At, IsFirst
<1>1. [c EXCEPT !.todo = @ \ {n}] \in CommandSet
  BY <1>t DEF CommandSet
<1>2. procs'[p] = d
  <2>1. Runs(p, d) /\ d \in CommandSet
    BY <1>1, IdleTyped DEF RemoveFile
  <2> QED BY <2>1, <1>t, RunsTyped
<1>3. CASE done
  BY <1>2, <1>3, IdleTyped DEF CommandHolds
<1>4. CASE ~done
  <2>1. /\ d.pc = "remove" /\ d.id = c.id /\ d.exact = c.exact
        /\ d.todo = c.todo \ {n}
    BY <1>4, <1>t DEF CommandSet
  <2>2. /\ cards' = cards \ {n}
        /\ needs' = [needs EXCEPT ![n] = {}]
    BY <1>4 DEF RemoveFile, Unlink
  <2>3. c.exact
    BY <1>4, <1>t DEF CommandHolds
  <2>4. \A m \in cards' \ d.todo : needs'[m] \cap d.todo = {}
    BY <2>1, <2>2, <2>3, <1>t DEF CommandHolds, Graph
  <2>5. c.id \in Ids
    BY <1>t DEF CommandHolds
  <2> HIDE DEF d
  <2> QED BY <1>2, <2>1, <2>3, <2>4, <2>5 DEF CommandHolds
<1> QED BY <1>3, <1>4

\* A write of what was planned leads nearer to the same final tree.
LEMMA PlanGoesOn ==
  ASSUME TypeOK, NEW c \in CommandSet, NEW D \in SUBSET Ids, PlanHolds(c, D),
         c.new \in Ids, NEW n \in D \cup {c.new},
         NEW e \in CommandSet, e.id = c.id, e.exact = c.exact, e.new = c.new,
         e.docs = c.docs, e.todo = c.todo \ {n},
         n # c.new => n \in c.todo,
         cards' = cards \cup {n}, needs' = [needs EXCEPT ![n] = c.docs[n]]
  PROVE  PlanHolds(e, D)'
<1>t. needs \in Graph
  BY DEF TypeOK, Graph
<1>1. /\ needs'[n] = c.docs[n]
      /\ \A m \in Ids \ {n} : needs'[m] = needs[m]
  BY <1>t DEF Graph
<1>2. [m \in Ids |-> IF m \in D \cup {e.new} THEN e.docs[m]
                    ELSE IF m = e.id /\ e.exact THEN {} ELSE needs'[m]] = Final(c, D)
  BY <1>1 DEF Final
<1>3. Final(e, D)' = Final(c, D)
  BY <1>2 DEF Final
<1>4. \A m \in D \cup {e.new} :
        (Acyclic(Final(e, D), Reach(Final(e, D), m)) /\ ~TooDeep(Final(e, D), m))'
  <2>1. PICK F \in Graph : F = Final(c, D)
    BY FinalIsGraph
  <2>2. \A m \in D \cup {e.new} : Acyclic(F, Reach(F, m)) /\ ~TooDeep(F, m)
    BY <2>1 DEF PlanHolds
  <2>3. Final(e, D)' = F
    BY <1>3, <2>1
  <2>4. ASSUME NEW m \in D \cup {e.new}
        PROVE  (Acyclic(Final(e, D), Reach(Final(e, D), m)) /\ ~TooDeep(Final(e, D), m))'
    <3>1. Reach(Final(e, D), m)' = Reach(F, m)
      BY <2>3 DEF Reach, Closed
    <3> QED BY <2>2, <2>3, <3>1 DEF Acyclic, TooDeep
  <2> QED BY <2>4
<1>5. \A m \in D \cup {e.new} : e.docs[m] \subseteq cards' \cup {e.new}
  BY DEF PlanHolds
<1>6. e.todo \subseteq D
  BY DEF PlanHolds
<1>7. CASE c.id \in Ids /\ c.exact
  <2>1. /\ c.new # c.id /\ c.new \notin D /\ c.id \notin D /\ n # c.id
        /\ c.docs[c.new] = needs[c.id]
        /\ \A m \in D \cup {c.new} : c.id \notin c.docs[m]
        /\ \A m \in D : c.docs[m] = IF m \in c.todo THEN Renamed(needs[m], c.id, c.new)
                                    ELSE needs[m]
        /\ \A m \in Ids \ (D \cup {c.id, c.new}) : c.id \notin needs[m]
    BY <1>7 DEF PlanHolds
  <2>2. needs'[c.id] = needs[c.id]
    BY <1>1, <1>7, <2>1
  <2>3. \A m \in D : e.docs[m] = IF m \in e.todo THEN Renamed(needs'[m], e.id, e.new)
                                ELSE needs'[m]
    BY <1>1, <2>1
  <2>4. \A m \in Ids \ (D \cup {c.id, c.new}) : c.id \notin needs'[m]
    BY <1>1, <2>1
  <2> QED BY <1>4, <1>5, <1>6, <1>7, <2>1, <2>2, <2>3, <2>4 DEF PlanHolds, Renamed
<1>8. CASE ~(c.id \in Ids /\ c.exact)
  <2>1. D = {}
    BY <1>8 DEF PlanHolds
  <2> QED BY <1>4, <1>5, <1>6, <1>8, <2>1 DEF PlanHolds
<1> QED BY <1>7, <1>8

\* When all that was planned is written, nobody names the old id.
LEMMA NobodyNamesOld ==
  ASSUME NEW c \in CommandSet, NEW D \in SUBSET Ids, PlanHolds(c, D),
         c.new \in Ids, c.id \in Ids, c.exact,
         NEW N \in Graph, N[c.new] = c.docs[c.new], \A m \in D : N[m] = c.docs[m],
         \A m \in Ids \ (D \cup {c.new}) : N[m] = needs[m]
  PROVE  \A m \in Ids : c.id \notin N[m]
<1>1. /\ \A m \in D \cup {c.new} : c.id \notin c.docs[m]
      /\ \A m \in Ids \ (D \cup {c.id, c.new}) : c.id \notin needs[m]
      /\ c.docs[c.new] = needs[c.id]
  BY DEF PlanHolds
<1> QED BY <1>1

LEMMA PutHolds ==
  ASSUME TreeInv, NEW p \in Procs, Put(p)
  PROVE  CommandHolds(procs[p])'
<1> DEFINE old == {n \in {procs[p].id} : n # NoId}
<1>0. PICK c \in CommandSet : c = procs[p]
  BY DEF TreeInv, TypeOK
<1>t. /\ TypeOK /\ needs \in Graph /\ cards \subseteq Ids /\ CommandHolds(c)
      /\ c.pc = "put" /\ c.new \in Ids /\ c.id \in Ids \cup {NoId}
  BY <1>0 DEF TreeInv, TypeOK, Graph, Put, At, CommandHolds, CommandSet
<1>1. PICK D \in SUBSET Ids : PlanHolds(c, D)
  BY <1>t DEF CommandHolds
<1>2. /\ cards' = cards \cup {c.new} /\ needs' = [needs EXCEPT ![c.new] = c.docs[c.new]]
  BY <1>0 DEF Put, Write
<1>3. /\ needs' \in Graph /\ cards' \subseteq Ids /\ needs'[c.new] = c.docs[c.new]
      /\ \A m \in Ids \ {c.new} : needs'[m] = needs[m]
  BY <1>2, <1>t DEF Graph, CommandSet
<1>5. CASE c.id = NoId
  <2>1. procs'[p] = Idle
    BY <1>0, <1>5, <1>t, IdleTyped, RunsTyped DEF Put
  <2> QED BY <2>1, IdleTyped DEF CommandHolds
<1>6. CASE c.id # NoId /\ c.todo = {}
  <2> DEFINE e == [c EXCEPT !.pc = "remove", !.todo = {c.id}]
  <2>1. e \in CommandSet /\ e.pc = "remove" /\ e.todo = {c.id} /\ e.id = c.id /\ e.exact = c.exact
    BY <1>6, <1>t DEF CommandSet
  <2>2. procs'[p] = e
    <3>1. old = {c.id}
      BY <1>0, <1>6
    <3>2. Runs(p, e)
      BY <1>0, <1>6, <3>1 DEF Put
    <3> QED BY <2>1, <3>2, <1>t, RunsTyped
  <2>3. c.exact => \A m \in D : needs'[m] = c.docs[m]
    BY <1>1, <1>3, <1>6, <1>t DEF PlanHolds
  <2>4. c.exact => \A m \in Ids : c.id \notin needs'[m]
    BY <1>1, <1>3, <1>6, <1>t, <2>3, NobodyNamesOld
  <2>5. c.id \in Ids
    BY <1>6, <1>t
  <2> HIDE DEF e
  <2> QED BY <1>3, <2>1, <2>2, <2>4, <2>5 DEF CommandHolds
<1>7. CASE c.id # NoId /\ c.todo # {}
  <2> DEFINE e == [c EXCEPT !.pc = "update"]
  <2>1. /\ e \in CommandSet /\ e.pc = "update" /\ e.id = c.id /\ e.exact = c.exact
        /\ e.new = c.new /\ e.docs = c.docs /\ e.todo = c.todo
    BY DEF CommandSet
  <2>2. procs'[p] = e
    <3>1. old # {}
      BY <1>0, <1>7
    <3>2. Runs(p, e)
      BY <1>0, <1>7, <3>1 DEF Put
    <3> QED BY <2>1, <3>2, <1>t, RunsTyped
  <2>3. c.new \notin c.todo
    BY <1>1, <1>7, <1>t DEF PlanHolds
  <2> HIDE DEF e
  <2>4. PlanHolds(e, D)'
    BY <1>1, <1>2, <1>t, <2>1, <2>3, PlanGoesOn
  <2>5. c.id \in Ids
    BY <1>7, <1>t
  <2> QED BY <1>2, <1>3, <1>7, <1>t, <2>1, <2>2, <2>4, <2>5 DEF CommandHolds
<1> QED BY <1>5, <1>6, <1>7

LEMMA UpdateHolds ==
  ASSUME TreeInv, NEW p \in Procs, NEW n \in Ids, Update(p, n)
  PROVE  CommandHolds(procs[p])'
<1>0. PICK c \in CommandSet : c = procs[p]
  BY DEF TreeInv, TypeOK
<1>t. /\ TypeOK /\ needs \in Graph /\ cards \subseteq Ids /\ CommandHolds(c)
      /\ c.pc = "update" /\ c.new \in Ids /\ c.id \in Ids /\ n \in c.todo
      /\ needs[c.new] = c.docs[c.new]
  BY <1>0 DEF TreeInv, TypeOK, Graph, Update, At, CommandHolds, CommandSet, IsFirst
<1>1. PICK D \in SUBSET Ids : PlanHolds(c, D)
  BY <1>t DEF CommandHolds
<1>2. /\ cards' = cards \cup {n} /\ needs' = [needs EXCEPT ![n] = c.docs[n]]
  BY <1>0 DEF Update, Write
<1>3. /\ needs' \in Graph /\ cards' \subseteq Ids /\ needs'[n] = c.docs[n]
      /\ \A m \in Ids \ {n} : needs'[m] = needs[m]
  BY <1>2, <1>t DEF Graph, CommandSet
<1>5. c.exact /\ n \in D /\ n # c.new
  BY <1>1, <1>t DEF PlanHolds
<1>6. needs'[c.new] = c.docs[c.new]
  BY <1>3, <1>5, <1>t
<1>7. CASE c.todo = {n}
  <2> DEFINE e == [c EXCEPT !.pc = "remove", !.todo = {c.id}]
  <2>1. e \in CommandSet /\ e.pc = "remove" /\ e.todo = {c.id} /\ e.id = c.id /\ e.exact = c.exact
    BY <1>t DEF CommandSet
  <2>2. procs'[p] = e
    <3>1. Runs(p, e)
      BY <1>0, <1>7 DEF Update
    <3> QED BY <2>1, <3>1, <1>t, RunsTyped
  <2>3. \A m \in D : needs'[m] = c.docs[m]
    BY <1>1, <1>3, <1>5, <1>7, <1>t DEF PlanHolds
  <2>4. \A m \in Ids \ (D \cup {c.new}) : needs'[m] = needs[m]
    BY <1>3, <1>5
  <2>5. \A m \in Ids : c.id \notin needs'[m]
    BY <1>1, <1>3, <1>5, <1>6, <1>t, <2>3, <2>4, NobodyNamesOld
  <2> HIDE DEF e
  <2> QED BY <1>3, <1>t, <2>1, <2>2, <2>5 DEF CommandHolds
<1>8. CASE c.todo # {n}
  <2> DEFINE e == [c EXCEPT !.todo = @ \ {n}]
  <2>1. /\ e \in CommandSet /\ e.pc = "update" /\ e.id = c.id /\ e.exact = c.exact
        /\ e.new = c.new /\ e.docs = c.docs /\ e.todo = c.todo \ {n}
    BY <1>t DEF CommandSet
  <2>2. procs'[p] = e
    <3>1. Runs(p, e)
      BY <1>0, <1>8 DEF Update
    <3> QED BY <2>1, <3>1, <1>t, RunsTyped
  <2> HIDE DEF e
  <2>3. PlanHolds(e, D)'
    BY <1>1, <1>2, <1>5, <1>t, <2>1, PlanGoesOn
  <2>4. e.todo # {}
    BY <1>8, <1>t, <2>1
  <2>5. c.new \in cards'
    BY <1>2, <1>t DEF CommandHolds
  <2> QED BY <1>6, <1>t, <2>1, <2>2, <2>3, <2>4, <2>5 DEF CommandHolds
<1> QED BY <1>7, <1>8

LEMMA CommandKept ==
  ASSUME TreeInv, Solo, NEW p \in Procs, Does(p)
  PROVE  (\A q \in Procs : CommandHolds(procs[q]))'
<1>t. TypeOK /\ CommandHolds(procs[p]) /\ procs[p] \in CommandSet
  BY DEF TreeInv, TypeOK
<1> SUFFICES CommandHolds(procs[p])'
  BY SoloCommand
<1>1. ASSUME NEW new \in Ids, NEW list \in Lists, CreatePlan(p, new, list)
      PROVE  CommandHolds(procs[p])'
  BY <1>1, CreateHolds
<1>2. ASSUME NEW t \in Ids, NEW list \in Lists, EditorSaves(p, t, list)
      PROVE  CommandHolds(procs[p])'
  <2>1. LET d == Command("judge", t, TRUE, NoId, NoDocs, {}) IN
          d \in CommandSet /\ d.pc = "judge" /\ d.id = t
    BY DEF Command, CommandSet, NoDocs
  <2>2. procs'[p].pc = "judge" /\ procs'[p].id = t
    BY <1>2, <2>1, <1>t, RunsTyped DEF EditorSaves
  <2> QED BY <2>2 DEF CommandHolds
<1>3. ASSUME NEW t \in Ids, NEW exact \in BOOLEAN, NEW cascade \in BOOLEAN,
             DeletePlan(p, t, exact, cascade)
      PROVE  CommandHolds(procs[p])'
  BY <1>3, DeleteHolds
<1>4. ASSUME NEW t \in Ids, NEW new \in Ids, NEW exact \in BOOLEAN,
             MigratePlan(p, t, exact, new)
      PROVE  CommandHolds(procs[p])'
  BY <1>4, MigrateHolds
<1>5. CASE Judge(p) \/ Dies(p)
  <2>1. procs'[p] = Idle
    BY <1>5, <1>t, IdleTyped, RunsTyped DEF Judge, Dies
  <2> QED BY <2>1, IdleTyped DEF CommandHolds
<1>6. CASE Stat(p)
  <2>0. PICK c \in CommandSet : c = procs[p]
    BY <1>t
  <2>1. UNCHANGED <<cards, needs>> /\ c.pc = "stat"
    BY <1>6, <2>0 DEF Stat, Untouched, At
  <2>2. CASE c.new \in cards
    <3>1. procs'[p] = Idle
      BY <1>6, <2>0, <2>2, <1>t, IdleTyped, RunsTyped DEF Stat
    <3> QED BY <3>1, IdleTyped DEF CommandHolds
  <2>3. CASE c.new \notin cards
    <3> DEFINE e == [c EXCEPT !.pc = "put"]
    <3>1. /\ e \in CommandSet /\ e.pc = "put" /\ e.id = c.id /\ e.exact = c.exact
          /\ e.new = c.new /\ e.docs = c.docs /\ e.todo = c.todo
      BY DEF CommandSet
    <3>2. procs'[p] = e
      <4>1. Runs(p, e)
        BY <1>6, <2>0, <2>3 DEF Stat
      <4> QED BY <3>1, <4>1, <1>t, RunsTyped
    <3>3. PICK D \in SUBSET Ids : PlanHolds(c, D)
      BY <2>0, <2>1, <1>t DEF CommandHolds
    <3>4. c.new \in Ids /\ c.id = NoId /\ c.todo = {}
      BY <2>0, <2>1, <3>3, <1>t, NoIdIsNone DEF CommandHolds, PlanHolds
    <3> HIDE DEF e
    <3>6. PlanHolds(e, D)'
      BY <2>1, <3>1, <3>3 DEF PlanHolds, Final
    <3> QED BY <2>1, <2>3, <3>1, <3>2, <3>4, <3>6 DEF CommandHolds
  <2> QED BY <2>2, <2>3
<1>7. CASE Put(p)
  BY <1>7, PutHolds
<1>8. ASSUME NEW n \in Ids, Update(p, n) \/ RemoveFile(p, n)
      PROVE  CommandHolds(procs[p])'
  BY <1>8, UpdateHolds, RemoveHolds
<1> QED BY <1>1, <1>2, <1>3, <1>4, <1>5, <1>6, <1>7, <1>8 DEF Does

-----------------------------------------------------------------------------
(* Names without a card. *)

LEMMA DanglingKept ==
  ASSUME TreeInv, Solo, NEW p \in Procs, Does(p)
  PROVE  DanglingGoes'
<1> DEFINE c == procs[p]
<1>t. /\ TypeOK /\ needs \in Graph /\ cards \subseteq Ids /\ c \in CommandSet
      /\ CommandHolds(c) /\ refused \subseteq cards
  BY DEF TreeInv, TypeOK, Graph
<1>n. TypeOK' /\ cards' \subseteq Ids
  <2>1. TypeOK'
    BY TreeTypeKept
  <2> QED BY <2>1 DEF TypeOK
<1>d. \A m \in cards \ refused :
        needs[m] \subseteq cards \cup lost \/ (c.pc = "remove" /\ c.exact /\ m \in c.todo)
  BY DEF TreeInv, DanglingGoes, At, Solo
<1>s. SUFFICES ASSUME NEW m \in cards' \ refused',
                      ~(procs'[p].pc = "remove" /\ procs'[p].exact /\ m \in procs'[p].todo)
               PROVE  needs'[m] \subseteq cards' \cup lost'
  BY DEF DanglingGoes, At
<1>1. CASE /\ cards \subseteq cards' /\ lost \subseteq lost' /\ c.pc # "remove"
           /\ m \in cards \ refused /\ needs'[m] = needs[m]
  BY <1>1, <1>d
<1>2. ASSUME NEW t \in Ids, NEW list \in Lists, EditorSaves(p, t, list)
      PROVE  needs'[m] \subseteq cards' \cup lost'
  BY <1>2, <1>s, <1>t, <1>1 DEF EditorSaves, At, Graph
<1>3. CASE Judge(p)
  <2>1. c.pc = "judge" /\ cards' = cards /\ needs' = needs /\ lost' = lost
    BY <1>3 DEF Judge, At, Untouched
  <2>2. CASE m \in refused
    <3>1. m = c.id /\ Accepts(cards, needs, c.id)
      BY <1>3, <1>s, <2>2 DEF Judge
    <3> QED BY <2>1, <3>1 DEF Accepts
  <2>3. CASE m \notin refused
    BY <2>1, <2>3, <1>s, <1>1
  <2> QED BY <2>2, <2>3
<1>4. CASE Put(p)
  <2>1. /\ c.pc = "put" /\ c.new \in Ids /\ refused' = refused
        /\ cards' = cards \cup {c.new} /\ lost \subseteq lost'
        /\ needs' = [needs EXCEPT ![c.new] = c.docs[c.new]]
    BY <1>4, <1>t DEF Put, At, Write, CommandHolds
  <2>2. c.docs[c.new] \subseteq cards \cup {c.new}
    BY <1>t, <2>1 DEF CommandHolds, PlanHolds
  <2>3. CASE m = c.new
    BY <2>1, <2>2, <2>3, <1>t DEF Graph
  <2>4. CASE m # c.new
    BY <2>1, <2>4, <1>s, <1>t, <1>1 DEF Graph
  <2> QED BY <2>3, <2>4
<1>5. ASSUME NEW n \in Ids, Update(p, n)
      PROVE  needs'[m] \subseteq cards' \cup lost'
  <2>1. /\ c.pc = "update" /\ c.new \in Ids /\ n \in c.todo /\ refused' = refused
        /\ cards' = cards \cup {n} /\ lost' = lost /\ needs[c.new] = c.docs[c.new]
        /\ needs' = [needs EXCEPT ![n] = c.docs[n]]
    BY <1>5, <1>t DEF Update, At, Write, CommandHolds, IsFirst, history
  <2>2. PICK D \in SUBSET Ids : PlanHolds(c, D)
    BY <1>t, <2>1 DEF CommandHolds
  <2>3. c.docs[n] \subseteq cards \cup {c.new}
    BY <2>1, <2>2 DEF PlanHolds
  <2>4. c.new \in cards
    BY <2>1, <1>t DEF CommandHolds
  <2>5. CASE m = n
    BY <2>1, <2>3, <2>4, <2>5, <1>t DEF Graph
  <2>6. CASE m # n
    BY <2>1, <2>6, <1>s, <1>t, <1>1 DEF Graph
  <2> QED BY <2>5, <2>6
<1>6. ASSUME NEW n \in Ids, RemoveFile(p, n)
      PROVE  needs'[m] \subseteq cards' \cup lost'
  <2>1. c.pc = "remove" /\ n \in c.todo /\ m \in cards \ refused
    BY <1>6, <1>s, <1>t DEF RemoveFile, At, IsFirst, Unlink, Untouched
  <2>2. CASE n \in cards
    <3>1. /\ cards' = cards \ {n} /\ m # n
          /\ needs' = [needs EXCEPT ![n] = {}]
          /\ lost' = lost \cup (IF c.exact THEN {} ELSE {n})
      BY <1>6, <1>s, <2>2 DEF RemoveFile, Unlink
    <3>2. needs'[m] = needs[m]
      BY <3>1, <1>t, <2>1 DEF Graph
    <3>3. CASE c.exact /\ m \in c.todo
      <4>1. c.todo # {n} /\ Runs(p, [c EXCEPT !.todo = @ \ {n}])
        BY <1>6, <2>2, <3>1, <3>3 DEF RemoveFile
      <4>2. procs'[p] = [c EXCEPT !.todo = @ \ {n}]
        BY <4>1, <1>t DEF Runs, TypeOK
      <4>3. procs'[p].pc = "remove" /\ procs'[p].exact /\ m \in procs'[p].todo
        BY <4>2, <2>1, <3>1, <3>3, <1>t DEF CommandSet
      <4> QED BY <4>3, <1>s
    <3>4. CASE c.exact /\ m \notin c.todo
      <4>1. needs[m] \cap c.todo = {}
        BY <1>t, <2>1, <3>4 DEF CommandHolds
      <4>2. needs[m] \subseteq cards \cup lost
        BY <1>d, <2>1, <3>4
      <4>3. n \notin needs[m]
        BY <4>1, <2>1
      <4> QED BY <4>2, <4>3, <3>1, <3>2
    <3>5. CASE ~c.exact
      <4>1. needs[m] \subseteq cards \cup lost
        BY <1>d, <2>1, <3>5
      <4>2. lost' = lost \cup {n}
        BY <3>1, <3>5
      <4> QED BY <4>1, <4>2, <3>1, <3>2
    <3> QED BY <3>3, <3>4, <3>5
  <2>3. CASE n \notin cards
    <3>1. cards' = cards /\ needs' = needs /\ lost' = lost \cup Orphaned(c)
      BY <1>6, <2>3 DEF RemoveFile, Untouched
    <3> QED BY <3>1, <2>1, <1>d DEF Orphaned
  <2> QED BY <2>2, <2>3
<1>7. CASE Dies(p)
  <2>1. /\ cards' = cards /\ needs' = needs /\ refused' = refused
        /\ lost' = lost \cup Orphaned(c)
    BY <1>7 DEF Dies, Untouched
  <2> QED BY <2>1, <1>d, <1>s DEF Orphaned
<1>8. ASSUME \/ \E new \in Ids, list \in Lists : CreatePlan(p, new, list)
             \/ \E t \in Ids, exact, cascade \in BOOLEAN : DeletePlan(p, t, exact, cascade)
             \/ \E t, new \in Ids, exact \in BOOLEAN : MigratePlan(p, t, exact, new)
             \/ Stat(p)
      PROVE  needs'[m] \subseteq cards' \cup lost'
  <2>1. UNCHANGED <<cards, needs, refused, lost>> /\ c.pc # "remove"
    BY <1>8 DEF CreatePlan, DeletePlan, MigratePlan, Stat, At, Untouched, history
  <2> QED BY <2>1, <1>s, <1>1
<1> QED BY <1>2, <1>3, <1>4, <1>5, <1>6, <1>7, <1>8 DEF Does

-----------------------------------------------------------------------------
(* Chains of more than three tickets. *)

\* The tickets a command writes stand at the top of no deep chain: not in the
\* planned tree, and so not on the way there.
LEMMA PlanIsFlat ==
  ASSUME TypeOK, NEW c \in CommandSet, c.new \in Ids,
         NEW D \in SUBSET Ids, PlanHolds(c, D),
         NEW G \in Graph, G[c.new] = c.docs[c.new],
         \A n \in D : G[n] \in {c.docs[n], needs[n]},
         \A n \in Ids \ (D \cup {c.new}) : G[n] = needs[n],
         NEW n \in D \cup {c.new}
  PROVE  ~TooDeep(G, n)
<1>1. PICK F \in Graph : F = Final(c, D)
  BY FinalIsGraph
<1>2. ~TooDeep(F, n)
  BY <1>1 DEF PlanHolds
<1>3. CASE c.id \in Ids /\ c.exact
  <2>1. SUFFICES ASSUME NEW a \in G[n], NEW b \in G[a], NEW x \in G[b]
                 PROVE  FALSE
    BY DEF TooDeep
  <2>2. n \in Ids /\ a \in Ids /\ b \in Ids
    BY DEF Graph
  <2>3. \A s \in Ids : \A y \in G[s] : Now(y, c.id, c.new) \in F[Now(s, c.id, c.new)]
    BY <1>1, <1>3, EdgeMoves
  <2>4. Now(n, c.id, c.new) = n
    BY <1>3 DEF PlanHolds, Now
  <2>5. /\ Now(a, c.id, c.new) \in F[n]
        /\ Now(b, c.id, c.new) \in F[Now(a, c.id, c.new)]
        /\ Now(x, c.id, c.new) \in F[Now(b, c.id, c.new)]
    BY <2>2, <2>3, <2>4
  <2> QED BY <1>2, <2>5 DEF TooDeep
<1>4. CASE ~(c.id \in Ids /\ c.exact)
  <2>1. D = {}
    BY <1>4 DEF PlanHolds
  <2>2. G = F
    BY <1>1, <1>4, <2>1 DEF Final, Graph
  <2> QED BY <1>2, <2>2
<1> QED BY <1>3, <1>4

\* A chain that was there, and whose tickets keep what explained them.
LEMMA OldChain ==
  ASSUME ChainsAreExplained, NEW n \in Ids, NEW a \in Ids, NEW b \in Ids,
         a \in needs[n], b \in needs[a], needs[b] # {},
         Explained \cap {n, a, b} \subseteq Explained'
  PROVE  {n, a, b} \cap Explained' # {}
BY DEF ChainsAreExplained

\* What Put adds hangs below a name that was missing until then.
LEMMA PutChains ==
  ASSUME TreeInv, ChainsAreExplained, Solo, NEW p \in Procs, Put(p),
         NEW n \in Ids, NEW a \in Ids, NEW b \in Ids,
         a \in needs'[n], b \in needs'[a], needs'[b] # {}
  PROVE  {n, a, b} \cap Explained' # {}
<1>0. PICK c \in CommandSet : c = procs[p]
  BY DEF TreeInv, TypeOK
<1>t. /\ TypeOK /\ needs \in Graph /\ c.pc = "put" /\ c.new \in Ids \ cards
      /\ \A m \in Ids \ cards : needs[m] = {}
  BY <1>0 DEF TreeInv, TypeOK, Graph, Put, At, CommandHolds
<1>1. PICK D \in SUBSET Ids : PlanHolds(c, D)
  BY <1>0, <1>t DEF TreeInv, CommandHolds
<1>2. needs' = [needs EXCEPT ![c.new] = c.docs[c.new]]
  BY <1>0 DEF Put, Write
<1>3. PICK G \in Graph : G = needs'
  BY TreeTypeKept DEF TypeOK, Graph, Does
<1>4. G[c.new] = c.docs[c.new] /\ \A m \in Ids \ {c.new} : G[m] = needs[m]
  BY <1>2, <1>3, <1>t DEF Graph
<1>5. Explained \subseteq Explained'
  BY <1>0 DEF Put, Explained
<1>6. n # c.new
  <2>1. ~TooDeep(G, c.new)
    BY <1>1, <1>4, <1>t, PlanIsFlat
  <2> QED BY <1>3, <2>1 DEF TooDeep
<1>7. ASSUME NEW m \in Ids \ {c.new}, c.new \in needs[m]
      PROVE  m \in Explained \/ c.new \in Explained
  <2>1. m \in cards
    BY <1>7, <1>t
  <2>2. DanglingGoes /\ ~At(p, "remove")
    BY <1>0, <1>t DEF TreeInv, At
  <2>3. m \in refused \/ needs[m] \subseteq cards \cup lost
    BY <2>1, <2>2 DEF DanglingGoes, Solo
  <2> QED BY <1>7, <1>t, <2>3 DEF TypeOK, Explained
<1>8. CASE a = c.new
  BY <1>3, <1>4, <1>5, <1>6, <1>7, <1>8
<1>9. CASE a # c.new /\ b = c.new
  BY <1>3, <1>4, <1>5, <1>7, <1>9
<1>10. CASE a # c.new /\ b # c.new
  BY <1>3, <1>4, <1>5, <1>6, <1>10, OldChain
<1> QED BY <1>8, <1>9, <1>10

\* What Update adds to a chain was there before, by way of the old id.
LEMMA UpdateChains ==
  ASSUME TreeInv, ChainsAreExplained, NEW p \in Procs, NEW m \in Ids, Update(p, m),
         NEW n \in Ids, NEW a \in Ids, NEW b \in Ids,
         a \in needs'[n], b \in needs'[a], needs'[b] # {}
  PROVE  {n, a, b} \cap Explained' # {}
<1>0. PICK c \in CommandSet : c = procs[p]
  BY DEF TreeInv, TypeOK
<1>t. /\ TypeOK /\ needs \in Graph /\ c.pc = "update" /\ c.new \in Ids /\ c.id \in Ids
      /\ m \in c.todo /\ needs[c.new] = c.docs[c.new] /\ CommandHolds(c)
  BY <1>0 DEF TreeInv, TypeOK, Graph, Update, At, IsFirst, CommandHolds
<1>1. PICK D \in SUBSET Ids : PlanHolds(c, D)
  BY <1>t DEF CommandHolds
<1>2. needs' = [needs EXCEPT ![m] = c.docs[m]] /\ Explained' = Explained
  BY <1>0 DEF Update, Write, history, Explained
<1>3. PICK G \in Graph : G = needs'
  BY TreeTypeKept DEF TypeOK, Graph, Does
<1>4. /\ m \in D /\ m # c.new /\ m # c.id /\ needs[c.id] = needs[c.new]
      /\ c.docs[m] = Renamed(needs[m], c.id, c.new)
      /\ \A d \in D : d \in c.todo \/ needs[d] = c.docs[d]
  BY <1>1, <1>t DEF PlanHolds
<1>5. G[m] = c.docs[m] /\ \A x \in Ids \ {m} : G[x] = needs[x]
  BY <1>2, <1>3, <1>t DEF Graph, CommandSet
<1>6. n # m
  <2>1. ~TooDeep(G, m)
    BY <1>1, <1>4, <1>5, <1>t, PlanIsFlat
  <2> QED BY <1>3, <2>1 DEF TooDeep
<1>7. c.id \in Explained => c.new \in Explained
  BY <1>0, <1>t DEF ChainsAreExplained, At
<1>8. a \in needs[n] /\ needs[b] # {}
  BY <1>3, <1>4, <1>5, <1>6 DEF Renamed
<1>9. CASE a = m /\ b = c.new
  <2>1. b \in needs[a] \/ c.id \in needs[a]
    BY <1>3, <1>4, <1>5, <1>9 DEF Renamed
  <2>2. CASE b \in needs[a]
    BY <1>2, <1>8, <2>2, OldChain
  <2>3. CASE c.id \in needs[a]
    <3>1. {n, a, c.id} \cap Explained # {}
      BY <1>4, <1>8, <1>9, <1>t, <2>3 DEF ChainsAreExplained
    <3> QED BY <1>2, <1>7, <1>9, <3>1
  <2> QED BY <2>1, <2>2, <2>3
<1>10. CASE a # m \/ b # c.new
  <2>1. b \in needs[a]
    BY <1>3, <1>4, <1>5, <1>10 DEF Renamed
  <2> QED BY <1>2, <1>8, <2>1, OldChain
<1> QED BY <1>9, <1>10

LEMMA ChainsKept ==
  ASSUME TreeInv, ChainsAreExplained, Solo, NEW p \in Procs, Does(p)
  PROVE  ChainsAreExplained'
<1>t. /\ TypeOK /\ needs \in Graph /\ procs[p] \in CommandSet
      /\ \A m \in Ids \ cards : needs[m] = {}
  BY DEF TreeInv, TypeOK, Graph
<1> DEFINE Explain(n, a, b) ==
             a \in needs'[n] /\ b \in needs'[a] /\ needs'[b] # {}
               => {n, a, b} \cap Explained' # {}
<1>1. ASSUME NEW n \in Ids, NEW a \in Ids, NEW b \in Ids
      PROVE  Explain(n, a, b)
  <2>1. CASE UNCHANGED needs /\ Explained \subseteq Explained'
    BY <2>1, OldChain
  <2>2. ASSUME NEW t \in Ids, NEW list \in Lists, EditorSaves(p, t, list)
        PROVE  Explain(n, a, b)
    <3>1. t \in Explained' /\ Explained \subseteq Explained'
      BY <2>2 DEF EditorSaves, Explained
    <3>2. \A m \in Ids \ {t} : needs'[m] = needs[m]
      BY <2>2, <1>t DEF EditorSaves, Graph
    <3> QED BY <3>1, <3>2, OldChain
  <2>3. CASE Put(p)
    BY <2>3, PutChains
  <2>4. ASSUME NEW m \in Ids, Update(p, m)
        PROVE  Explain(n, a, b)
    BY <2>4, UpdateChains
  <2>5. ASSUME NEW m \in Ids, RemoveFile(p, m)
        PROVE  Explain(n, a, b)
    <3>1. needs'[m] = {} /\ \A x \in Ids \ {m} : needs'[x] = needs[x]
      BY <2>5, <1>t DEF RemoveFile, Unlink, Untouched, Graph
    <3>2. Explained \ {m} \subseteq Explained'
      BY <2>5 DEF RemoveFile, Explained
    <3>3. needs[m] # {} => m \in cards
      BY <1>t
    <3> QED BY <3>1, <3>2, OldChain
  <2>6. ASSUME \/ \E new \in Ids, list \in Lists : CreatePlan(p, new, list)
               \/ \E t \in Ids, exact, cascade \in BOOLEAN : DeletePlan(p, t, exact, cascade)
               \/ \E t, new \in Ids, exact \in BOOLEAN : MigratePlan(p, t, exact, new)
               \/ Stat(p) \/ Judge(p) \/ Dies(p)
        PROVE  Explain(n, a, b)
    <3>1. UNCHANGED needs /\ Explained \subseteq Explained'
      BY <2>6 DEF CreatePlan, DeletePlan, MigratePlan, Stat, Judge, Dies, Untouched, history, Explained
    <3> QED BY <3>1, <2>1
  <2> QED BY <2>2, <2>3, <2>4, <2>5, <2>6 DEF Does
<1>2. ASSUME At(p, "update")', procs'[p].id \in Explained'
      PROVE  procs'[p].new \in Explained'
  <2>0. PICK c \in CommandSet : c = procs[p]
    BY <1>t
  <2>1. CASE Put(p)
    <3>1. procs'[p] = [c EXCEPT !.pc = "update"] /\ c.id # NoId
      BY <1>2, <2>0, <2>1, <1>t, IdleTyped DEF Put, Runs, At, TypeOK, CommandSet
    <3>2. procs'[p].id = c.id /\ procs'[p].new = c.new
      BY <3>1 DEF CommandSet
    <3>3. c.id \in Explained \/ c.id = c.new
      BY <1>2, <2>0, <2>1, <3>2 DEF Put, Explained
    <3>4. c.id \in Explained => c.new \in Explained'
      BY <2>0, <2>1, <3>1 DEF Put, Explained
    <3> QED BY <1>2, <3>2, <3>3, <3>4
  <2>2. ASSUME NEW m \in Ids, Update(p, m)
        PROVE  procs'[p].new \in Explained'
    <3>1. c.pc = "update" /\ Explained' = Explained
      BY <2>0, <2>2 DEF Update, At, history, Explained
    <3>2. procs'[p].id = c.id /\ procs'[p].new = c.new
      BY <2>0, <2>2, <1>t, <1>2 DEF Update, Runs, At, TypeOK, CommandSet
    <3> QED BY <1>2, <2>0, <3>1, <3>2 DEF ChainsAreExplained, At
  <2>3. CASE ~Put(p) /\ ~\E m \in Ids : Update(p, m)
    <3> SUFFICES procs'[p].pc # "update"
      BY <1>2 DEF At
    <3>1. ASSUME NEW d, Runs(p, d), d.pc # "update"
          PROVE  procs'[p].pc # "update"
      BY <1>t, <3>1 DEF Runs, TypeOK
    <3>2. CASE \/ \E new \in Ids, list \in Lists : CreatePlan(p, new, list)
               \/ \E t \in Ids, list \in Lists : EditorSaves(p, t, list)
               \/ \E t \in Ids, exact, cascade \in BOOLEAN : DeletePlan(p, t, exact, cascade)
               \/ \E t, new \in Ids, exact \in BOOLEAN : MigratePlan(p, t, exact, new)
      BY <3>1, <3>2 DEF CreatePlan, EditorSaves, DeletePlan, MigratePlan, Command
    <3>3. CASE Stat(p) \/ Judge(p) \/ Dies(p) \/ \E m \in Ids : RemoveFile(p, m)
      <4>1. [c EXCEPT !.pc = "put"].pc # "update"
        BY DEF CommandSet
      <4>2. ASSUME NEW m, c.pc = "remove"
            PROVE  [c EXCEPT !.todo = @ \ {m}].pc # "update"
        BY <4>2 DEF CommandSet
      <4> QED BY <2>0, <3>1, <3>3, <4>1, <4>2, IdleTyped DEF Stat, Judge, Dies, RemoveFile, At
    <3> QED BY <2>3, <3>2, <3>3 DEF Does
  <2> QED BY <2>1, <2>2, <2>3
<1> QED BY <1>1, <1>2 DEF ChainsAreExplained, Solo

-----------------------------------------------------------------------------
(* The invariant, and what follows from it. *)

LEMMA InitHolds == Init => TreeInv
<1> SUFFICES ASSUME Init PROVE TreeInv
  OBVIOUS
<1>1. TypeOK
  BY IdleTyped DEF Init, TypeOK, NoDocs
<1>2. CirclesAreRefused
  BY DEF Init, CirclesAreRefused, Acyclic
<1>3. DanglingGoes
  BY DEF Init, DanglingGoes
<1>4. \A p \in Procs : CommandHolds(procs[p])
  BY IdleTyped DEF Init
<1> QED BY <1>1, <1>2, <1>3, <1>4 DEF TreeInv

\* Nothing of it is about who is dispatched.
LEMMA ShapeHolds ==
  ASSUME TreeInv, TypeOK', UNCHANGED <<cards, needs, procs, refused, edited, lost>>
  PROVE  TreeInv'
<1>u. UNCHANGED <<cards, needs, procs, refused, edited, lost>>
  OBVIOUS
<1>2. CirclesAreRefused'
  BY <1>u DEF TreeInv, CirclesAreRefused, Acyclic
<1>3. DanglingGoes'
  BY <1>u DEF TreeInv, DanglingGoes, At
<1>4. ASSUME NEW p \in Procs
      PROVE  CommandHolds(procs[p])'
  <2>1. PICK c \in CommandSet : c = procs[p]
    BY DEF TreeInv, TypeOK
  <2>2. ASSUME NEW D \in SUBSET Ids, PlanHolds(c, D)
        PROVE  PlanHolds(c, D)'
    BY <1>u, <2>2 DEF PlanHolds, Final
  <2>3. CommandHolds(c)
    BY <2>1 DEF TreeInv
  <2>4. CommandHolds(c)'
    BY <1>u, <2>2, <2>3 DEF CommandHolds
  <2> QED BY <1>u, <2>1, <2>4
<1> QED BY <1>2, <1>3, <1>4 DEF TreeInv

\* The invariant of Tree holds when commands run one at a time.
THEOREM TreeInvariant == ASSUME Solo PROVE Spec => []TreeInv
<1>1. ASSUME TreeInv, [Next]_vars
      PROVE  TreeInv'
  <2>1. ASSUME NEW p \in Procs, Does(p)
        PROVE  TreeInv'
    BY <1>1, <2>1, TreeTypeKept, CirclesKept, DanglingKept, CommandKept DEF TreeInv
  <2>2. ASSUME NEW t \in Ids, Dispatch(t) \/ Returns(t)
        PROVE  TreeInv'
    BY <1>1, <2>2, WorkersTyped, ShapeHolds DEF TreeInv
  <2>3. CASE UNCHANGED vars
    <3>1. TypeOK'
      BY <1>1, <2>3 DEF vars, history, TreeInv, TypeOK
    <3> QED BY <1>1, <2>3, <3>1, ShapeHolds DEF vars, history
  <2> QED BY <1>1, <2>1, <2>2, <2>3 DEF Next
<1> QED BY <1>1, InitHolds, PTL DEF Spec

\* Every circle of tickets goes through an edit that was not accepted, also
\* half-way through a migrate and after any kill, for trees of any size.
THEOREM TreeCircles == ASSUME Solo PROVE Spec => []CirclesAreRefused
<1>1. TreeInv => CirclesAreRefused
  BY DEF TreeInv
<1> QED BY <1>1, TreeInvariant, PTL

\* A name without a card is explained by an edit, a kill or a slip.
THEOREM TreeDangling == ASSUME Solo PROVE Spec => []DanglingIsExplained
<1>1. TreeInv => DanglingIsExplained
  BY DEF TreeInv, DanglingGoes, DanglingIsExplained, At
<1> QED BY <1>1, TreeInvariant, PTL

\* Every deep chain is explained by an edit or a lost name on its way down.
THEOREM TreeDeep == ASSUME Solo PROVE Spec => []DeepIsEdited
<1>1. Init => ChainsAreExplained
  BY DEF Init, NoDocs, Idle, Command, At, ChainsAreExplained
<1>2. ASSUME TreeInv, ChainsAreExplained, [Next]_vars
      PROVE  ChainsAreExplained'
  <2>1. CASE UNCHANGED <<needs, procs, edited, lost>>
    BY <1>2, <2>1 DEF ChainsAreExplained, Explained, At
  <2>2. ASSUME NEW t \in Ids, Dispatch(t) \/ Returns(t)
        PROVE  ChainsAreExplained'
    BY <1>2, <2>1, <2>2, WorkersTyped DEF TreeInv
  <2>3. CASE UNCHANGED vars
    BY <2>1, <2>3 DEF vars, history
  <2> QED BY <1>2, <2>2, <2>3, ChainsKept DEF Next
<1>3. TreeInv /\ ChainsAreExplained => DeepIsEdited
  <2>1. SUFFICES ASSUME TreeInv, ChainsAreExplained, NEW n \in cards,
                        NEW a \in needs[n], NEW b \in needs[a], needs[b] # {}
                 PROVE  Reach(needs, n) \cap (edited \cup lost) # {}
    BY DEF DeepIsEdited, TooDeep
  <2>2. needs \in Graph /\ n \in Ids /\ a \in Ids /\ b \in Ids
    BY <2>1 DEF TreeInv, TypeOK, Graph
  <2>3. n \in Reach(needs, n) /\ a \in Reach(needs, n) /\ b \in Reach(needs, n)
    BY <2>1, <2>2, ReachStarts, ReachGoesOn
  <2> QED BY <2>1, <2>2, <2>3 DEF ChainsAreExplained, Explained
<1> QED BY <1>1, <1>2, <1>3, TreeInvariant, PTL DEF Spec

-----------------------------------------------------------------------------
(* Any number of commands that overlap. *)

LEMMA OthersStay ==
  ASSUME NEW p \in Procs, Does(p), NEW q \in Procs, q # p, TypeOK
  PROVE  procs'[q] = procs[q]
<1>1. ASSUME NEW c, Runs(p, c) PROVE procs'[q] = procs[q]
  BY <1>1 DEF Runs, TypeOK
<1> QED
  BY <1>1 DEF Does, CreatePlan, EditorSaves, DeletePlan, MigratePlan, Stat, Judge, Put,
                    Update, RemoveFile, Dies

\* What a running command may be mistaken about came late.
Known(p) ==
  LET c == procs[p] IN
  /\ c.pc \in {"stat", "put"} => c.new \notin cards \ late[p]
  /\ c.pc \notin {"idle", "judge"} => (c.todo \cup {c.id}) \cap running \subseteq late[p]

OverlapInv ==
  /\ TypeOK
  /\ late \in [Procs -> SUBSET Ids]
  /\ \A p \in Procs : Names(procs[p]) /\ Known(p)

\* A command that goes on, of its own or because another one moves, with no
\* more files than before: what it may be mistaken about only grows.
LEMMA KnownGoesOn ==
  ASSUME OverlapInv, ONext, NEW q \in Procs,
         procs[q].pc \notin {"idle", "judge"},
         procs'[q].todo \cup {procs'[q].id} \subseteq procs[q].todo \cup {procs[q].id},
         procs'[q].pc \in {"stat", "put"} =>
           procs[q].pc \in {"stat", "put"} /\ procs'[q].new = procs[q].new
  PROVE  Known(q)'
<1>1. late'[q] = (late[q] \cup Arrivals) \cap Scope(procs'[q])
  BY DEF ONext
<1>2. /\ \A t \in Scope(procs'[q]) : t \in cards' \ late'[q] => t \in cards \ late[q]
      /\ \A t \in Scope(procs'[q]) : t \in running' \ late'[q] => t \in running \ late[q]
  BY <1>1 DEF Arrivals
<1>3. Known(q)
  BY DEF OverlapInv
<1> QED BY <1>2, <1>3 DEF Known, Scope

\* A command that has just planned is mistaken about nothing.
LEMMA KnownAfterPlan ==
  ASSUME NEW p \in Procs, UNCHANGED <<cards, running>>,
         (procs'[p].todo \cup {procs'[p].id}) \cap running = {},
         procs'[p].pc \in {"stat", "put"} => procs'[p].new \notin cards
  PROVE  Known(p)'
BY DEF Known

LEMMA KnownOfOthers ==
  ASSUME OverlapInv, ONext, NEW q \in Procs, procs'[q] = procs[q]
  PROVE  Names(procs[q])' /\ Known(q)'
<1>1. Names(procs[q])'
  BY DEF OverlapInv, Names
<1>2. Known(q)'
  <2>1. CASE procs[q].pc \notin {"idle", "judge"}
    BY <2>1, KnownGoesOn
  <2>2. CASE procs[q].pc \in {"idle", "judge"}
    BY <2>2 DEF Known
  <2> QED BY <2>1, <2>2
<1> QED BY <1>1, <1>2

\* The next number is nobody's.
LEMMA NextIsFree ==
  ASSUME TypeOK, NEW new \in Ids, IsNext(new)
  PROVE  new \notin cards
<1>1. new[2] \in Nat
  BY IdsAssumption
<1> QED BY <1>1 DEF IsNext

\* What a command is after a step of its own: at its end, planned, saved, or
\* further on with no more files to write or remove.
Plans(p) ==
  \/ \E new \in Ids, list \in Lists : CreatePlan(p, new, list)
  \/ \E t \in Ids, exact, cascade \in BOOLEAN : DeletePlan(p, t, exact, cascade)
  \/ \E t, new \in Ids, exact \in BOOLEAN : MigratePlan(p, t, exact, new)

GoesOn(c, d) ==
  /\ c.pc \notin {"idle", "judge"} /\ Names(d)
  /\ d.todo \cup {d.id} \subseteq c.todo \cup {c.id}
  /\ d.pc \in {"stat", "put"} => c.pc \in {"stat", "put"} /\ d.new = c.new

LEMMA StepOfOwn ==
  ASSUME TypeOK, NEW p \in Procs, Names(procs[p]), Does(p)
  PROVE  \/ procs'[p].pc = "idle" \/ Plans(p)
         \/ procs'[p].pc = "judge" /\ procs'[p].id \in Ids
         \/ GoesOn(procs[p], procs'[p])
<1> DEFINE Fits == \/ procs'[p].pc = "idle" \/ Plans(p)
                   \/ procs'[p].pc = "judge" /\ procs'[p].id \in Ids
                   \/ GoesOn(procs[p], procs'[p])
<1>0. PICK c \in CommandSet : c = procs[p]
  BY DEF TypeOK
<1>t. /\ Names(c) /\ c.id \in Ids \cup {NoId}
      /\ \A d : Runs(p, d) => procs'[p] = d
  BY <1>0 DEF TypeOK, CommandSet, Runs
<1>1. ASSUME NEW t \in Ids, NEW list \in Lists, EditorSaves(p, t, list)
      PROVE  Fits
  BY <1>1, <1>t DEF EditorSaves, Command
<1>2. CASE Stat(p)
  <2>1. c.pc = "stat" /\ (procs'[p] = Idle \/ procs'[p] = [c EXCEPT !.pc = "put"])
    BY <1>0, <1>2, <1>t DEF Stat, At
  <2>2. CASE procs'[p] = [c EXCEPT !.pc = "put"]
    BY <1>0, <1>t, <2>1, <2>2 DEF CommandSet, GoesOn, Names
  <2> QED BY <2>1, <2>2, IdleTyped
<1>3. CASE Judge(p) \/ Dies(p)
  BY <1>3, <1>t, IdleTyped DEF Judge, Dies
<1>4. CASE Put(p)
  <2>1. {n \in {c.id} : n # NoId} = IF c.id = NoId THEN {} ELSE {c.id}
    OBVIOUS
  <2>2. /\ c.pc = "put"
        /\ \/ procs'[p] = Idle
           \/ c.id # NoId /\ procs'[p] = [c EXCEPT !.pc = "remove", !.todo = {c.id}]
           \/ c.id # NoId /\ procs'[p] = [c EXCEPT !.pc = "update"]
    BY <1>0, <1>4, <1>t, <2>1 DEF Put, At
  <2>3. CASE c.id # NoId /\ procs'[p] = [c EXCEPT !.pc = "remove", !.todo = {c.id}]
    BY <1>0, <1>t, <2>2, <2>3 DEF CommandSet, GoesOn, Names
  <2>4. CASE c.id # NoId /\ procs'[p] = [c EXCEPT !.pc = "update"]
    BY <1>0, <1>t, <2>2, <2>4 DEF CommandSet, GoesOn, Names
  <2> QED BY <2>2, <2>3, <2>4, IdleTyped
<1>5. ASSUME NEW n \in Ids, Update(p, n)
      PROVE  Fits
  <2>1. /\ c.pc = "update"
        /\ \/ procs'[p] = [c EXCEPT !.pc = "remove", !.todo = {c.id}]
           \/ procs'[p] = [c EXCEPT !.todo = @ \ {n}]
    BY <1>0, <1>5, <1>t DEF Update, At
  <2>2. /\ procs'[p].pc \in {"update", "remove"} /\ procs'[p].new = c.new
        /\ procs'[p].id = c.id /\ procs'[p].todo \subseteq c.todo \cup {c.id}
    BY <2>1 DEF CommandSet
  <2> QED BY <1>0, <1>t, <2>1, <2>2 DEF GoesOn, Names
<1>6. ASSUME NEW n \in Ids, RemoveFile(p, n)
      PROVE  Fits
  <2>1. /\ c.pc = "remove"
        /\ procs'[p] = Idle \/ procs'[p] = [c EXCEPT !.todo = @ \ {n}]
    BY <1>0, <1>6, <1>t DEF RemoveFile, At
  <2> QED BY <1>0, <1>t, <2>1, IdleTyped DEF CommandSet, GoesOn, Names
<1> QED BY <1>1, <1>2, <1>3, <1>4, <1>5, <1>6 DEF Does, Plans

LEMMA NamesOfOwn ==
  ASSUME TypeOK, NEW p \in Procs, Names(procs[p]), Does(p)
  PROVE  Names(procs[p])'
<1>0. ASSUME NEW c, Runs(p, c), Names(c)
      PROVE  Names(procs[p])'
  BY <1>0 DEF Runs, TypeOK
<1>1. ASSUME NEW new \in Ids, NEW list \in Lists, CreatePlan(p, new, list)
      PROVE  Names(procs[p])'
  BY <1>0, <1>1 DEF CreatePlan, Command, Names
<1>2. ASSUME NEW t \in Ids, NEW exact \in BOOLEAN, NEW cascade \in BOOLEAN,
             DeletePlan(p, t, exact, cascade)
      PROVE  Names(procs[p])'
  BY <1>0, <1>2 DEF DeletePlan, Command, Names
<1>3. ASSUME NEW t \in Ids, NEW new \in Ids, NEW exact \in BOOLEAN,
             MigratePlan(p, t, exact, new)
      PROVE  Names(procs[p])'
  BY <1>0, <1>3 DEF MigratePlan, Command, Names
<1> QED BY <1>1, <1>2, <1>3, StepOfOwn DEF Plans, Names, GoesOn

LEMMA PlanIsKnown ==
  ASSUME OverlapInv, NEW p \in Procs, Plans(p)
  PROVE  Known(p)'
<1>t. TypeOK /\ running \subseteq Ids /\ needs \in Graph /\ cards \subseteq Ids
  BY DEF OverlapInv, TypeOK, Graph
<1>1. ASSUME NEW new \in Ids, NEW list \in Lists, CreatePlan(p, new, list)
      PROVE  Known(p)'
  <2> DEFINE d == Command("stat", NoId, TRUE, new, [NoDocs EXCEPT ![new] = list], {})
  <2>1. d.pc = "stat" /\ d.id = NoId /\ d.new = new /\ d.todo = {}
    BY DEF Command
  <2>2. procs'[p] = d /\ UNCHANGED <<cards, running>>
    BY <1>1, <1>t DEF CreatePlan, Runs, Untouched, TypeOK
  <2>3. new \notin cards
    BY <1>1, <1>t, NextIsFree DEF CreatePlan
  <2> HIDE DEF d
  <2> QED BY <1>t, <2>1, <2>2, <2>3, NoIdIsNone, KnownAfterPlan
<1>2. ASSUME NEW t \in Ids, NEW exact \in BOOLEAN, NEW cascade \in BOOLEAN,
             DeletePlan(p, t, exact, cascade)
      PROVE  Known(p)'
  <2> DEFINE targets == IF cascade /\ exact THEN Branch(cards, needs, t) ELSE {t}
             d == Command("remove", t, exact, NoId, NoDocs, targets)
  <2>1. d.pc = "remove" /\ d.id = t /\ d.todo = targets
    BY DEF Command
  <2>2. procs'[p] = d /\ UNCHANGED <<cards, running>>
    BY <1>2, <1>t DEF DeletePlan, Runs, Untouched, TypeOK
  <2>3. targets \cap running = {} /\ t \in cards
    BY <1>2 DEF DeletePlan, MayRemove
  <2>4. t \in targets
    BY <1>t, <2>3, ReachStarts DEF Branch
  <2> HIDE DEF d, targets
  <2> QED BY <2>1, <2>2, <2>3, <2>4, KnownAfterPlan
<1>3. ASSUME NEW t \in Ids, NEW new \in Ids, NEW exact \in BOOLEAN,
             MigratePlan(p, t, exact, new)
      PROVE  Known(p)'
  <2> DEFINE rewritten == Named(t, exact) \ {t}
  <2>1. PICK docs : Runs(p, Command("put", t, exact, new, docs, rewritten))
    BY <1>3 DEF MigratePlan
  <2> DEFINE d == Command("put", t, exact, new, docs, rewritten)
  <2>2. d.pc = "put" /\ d.id = t /\ d.new = new /\ d.todo = rewritten
    BY DEF Command
  <2>3. procs'[p] = d /\ UNCHANGED <<cards, running>>
    BY <1>3, <1>t, <2>1 DEF MigratePlan, Runs, Untouched, TypeOK
  <2>4. rewritten \cap running = {} /\ t \notin running /\ new \notin cards
    BY <1>3, <1>t, NextIsFree DEF MigratePlan
  <2> HIDE DEF d, rewritten
  <2> QED BY <2>2, <2>3, <2>4, KnownAfterPlan
<1> QED BY <1>1, <1>2, <1>3 DEF Plans

LEMMA KnownOfOwn ==
  ASSUME OverlapInv, ONext, NEW p \in Procs, Does(p)
  PROVE  Names(procs[p])' /\ Known(p)'
<1>1. Names(procs[p])'
  BY NamesOfOwn DEF OverlapInv
<1>2. CASE procs'[p].pc \in {"idle", "judge"}
  BY <1>1, <1>2 DEF Known
<1>3. CASE GoesOn(procs[p], procs'[p])
  BY <1>3, KnownGoesOn DEF GoesOn
<1> QED BY <1>1, <1>2, <1>3, StepOfOwn, PlanIsKnown DEF OverlapInv

\* Any number of commands keep what each knows of the files and the workers.
THEOREM OverlapInvariant == OSpec => []OverlapInv
<1>1. OInit => OverlapInv
  <2> SUFFICES ASSUME OInit PROVE OverlapInv
    OBVIOUS
  <2>2. TypeOK
    BY IdleTyped DEF OInit, Init, TypeOK, NoDocs
  <2>3. \A p \in Procs : Names(procs[p]) /\ Known(p)
    BY IdleTyped DEF OInit, Init, Names, Known
  <2> QED BY <2>2, <2>3 DEF OInit, OverlapInv
<1>2. ASSUME OverlapInv, [ONext]_ovars
      PROVE  OverlapInv'
  <2>1. CASE UNCHANGED ovars
    BY <1>2, <2>1 DEF ovars, vars, history, OverlapInv, TypeOK, Names, Known
  <2>2. CASE ONext
    <3>1. ASSUME NEW t \in Ids, Dispatch(t) \/ Returns(t)
          PROVE  TypeOK' /\ UNCHANGED procs
      BY <1>2, <3>1, WorkersTyped DEF OverlapInv
    <3>2. TypeOK'
      BY <1>2, <2>2, <3>1, TypeKept DEF OverlapInv, ONext, Next
    <3>3. late' \in [Procs -> SUBSET Ids]
      <4>1. Arrivals \subseteq Ids
        BY <3>2 DEF Arrivals, TypeOK
      <4> QED BY <1>2, <2>2, <4>1 DEF ONext, OverlapInv
    <3>4. ASSUME NEW q \in Procs
          PROVE  Names(procs[q])' /\ Known(q)'
      <4>1. CASE procs'[q] = procs[q]
        BY <1>2, <2>2, <4>1, KnownOfOthers
      <4>2. CASE Does(q)
        BY <1>2, <2>2, <4>2, KnownOfOwn
      <4> QED BY <1>2, <2>2, <4>1, <4>2, <3>1, OthersStay DEF ONext, Next, OverlapInv
    <3> QED BY <3>2, <3>3, <3>4 DEF OverlapInv
  <2> QED BY <1>2, <2>1, <2>2
<1> QED BY <1>1, <1>2, PTL DEF OSpec

\* Create and migrate replace a file only if it was made after they had planned,
\* whatever runs beside them: cmdCreate and cmdMigrate take the number after the
\* highest one they see, and only another one that takes it too gets in the way.
THEOREM TreeOnlyLateReplaced == OSpec => []OnlyLateIsReplaced
<1>1. OverlapInv => OnlyLateIsReplaced
  BY DEF OverlapInv, Known, At, OnlyLateIsReplaced
<1> QED BY <1>1, OverlapInvariant, PTL

\* No command removes or writes over the file of a ticket whose worker was there
\* when it planned, whatever runs beside it: what cmdDelete and cmdMigrate do not
\* know of is dispatched between their check of the whole cascade and their files.
THEOREM TreeEarlyWorkers == OSpec => EarlyWorkersAreLeftAlone
<1>1. ASSUME OverlapInv, ONext, NEW p \in Procs, procs'[p] # procs[p],
             NEW t \in running \ late[p]
      PROVE  /\ t \in cards' /\ t \in running'
             /\ needs'[t] # needs[t] => t \in refused'
  <2>0. PICK c \in CommandSet : c = procs[p]
    BY <1>1 DEF OverlapInv, TypeOK
  <2>t. /\ TypeOK /\ needs \in Graph /\ t \in cards /\ t \in Ids /\ Known(p)
    BY <1>1 DEF OverlapInv, TypeOK, Graph
  <2>1. Does(p)
    <3>1. PICK q \in Procs : Does(q)
      BY <1>1, <2>t, WorkersTyped DEF ONext, Next
    <3> QED BY <1>1, <2>t, <3>1, OthersStay
  <2>k. /\ c.pc \in {"stat", "put"} => t # c.new
        /\ c.pc \notin {"idle", "judge"} => t \notin c.todo
    BY <1>1, <2>0, <2>t DEF Known
  <2>2. ASSUME NEW m \in Ids, NEW list \in Lists, EditorSaves(p, m, list)
        PROVE  /\ t \in cards' /\ t \in running'
               /\ needs'[t] # needs[t] => t \in refused'
    BY <1>1, <2>2, <2>t DEF EditorSaves, Graph
  <2>3. ASSUME NEW n, n # t, NEW list, Write(n, list)
        PROVE  t \in cards' /\ t \in running' /\ needs'[t] = needs[t]
    BY <1>1, <2>3, <2>t DEF Write, Graph
  <2>4. CASE Put(p)
    <3>1. c.new # t /\ Write(c.new, c.docs[c.new])
      BY <2>0, <2>4, <2>k DEF Put, At
    <3> QED BY <2>3, <3>1
  <2>5. ASSUME NEW n \in Ids, Update(p, n)
        PROVE  t \in cards' /\ t \in running' /\ needs'[t] = needs[t]
    <3>1. n # t /\ Write(n, c.docs[n])
      BY <2>0, <2>5, <2>k DEF Update, At, IsFirst
    <3> QED BY <2>3, <3>1
  <2>6. ASSUME NEW n \in Ids, RemoveFile(p, n)
        PROVE  t \in cards' /\ t \in running' /\ needs'[t] = needs[t]
    <3>1. n # t /\ (Unlink(n) \/ Untouched)
      BY <2>0, <2>6, <2>k DEF RemoveFile, At, IsFirst
    <3> QED BY <1>1, <2>t, <3>1 DEF Unlink, Untouched, Graph
  <2>7. CASE \/ \E new \in Ids, list \in Lists : CreatePlan(p, new, list)
             \/ \E m \in Ids, exact, cascade \in BOOLEAN : DeletePlan(p, m, exact, cascade)
             \/ \E m, new \in Ids, exact \in BOOLEAN : MigratePlan(p, m, exact, new)
             \/ Stat(p) \/ Judge(p) \/ Dies(p)
    <3>1. UNCHANGED <<cards, needs, running>>
      BY <2>7 DEF CreatePlan, DeletePlan, MigratePlan, Stat, Judge, Dies, Untouched
    <3> QED BY <1>1, <2>t, <3>1
  <2> QED BY <2>1, <2>2, <2>4, <2>5, <2>6, <2>7 DEF Does
<1>2. ASSUME OverlapInv, [ONext]_ovars
      PROVE  [\A p \in Procs : procs'[p] # procs[p] =>
                \A t \in running \ late[p] :
                  /\ t \in cards' /\ t \in running'
                  /\ needs'[t] # needs[t] => t \in refused']_ovars
  BY <1>1, <1>2
<1> QED BY <1>2, OverlapInvariant, PTL DEF OSpec, EarlyWorkersAreLeftAlone

\* The types of the tree, with any number of commands that overlap: what a
\* command knows of the ids it was given does not depend on late.
THEOREM TreeTypeOK == Spec => []TypeOK
<1> DEFINE NamesOK == \A p \in Procs : Names(procs[p])
<1>1. Init => TypeOK /\ NamesOK
  BY IdleTyped DEF Init, TypeOK, NoDocs, Names
<1>2. ASSUME TypeOK, NamesOK, [Next]_vars
      PROVE  TypeOK' /\ NamesOK'
  <2>1. CASE UNCHANGED vars
    BY <1>2, <2>1 DEF vars, history, TypeOK, Names
  <2>2. ASSUME NEW p \in Procs, Does(p)
        PROVE  TypeOK' /\ NamesOK'
    <3>1. TypeOK'
      BY <1>2, <2>2, TypeKept
    <3>2. Names(procs[p])'
      BY <1>2, <2>2, NamesOfOwn
    <3>3. ASSUME NEW q \in Procs, q # p PROVE Names(procs[q])'
      BY <1>2, <2>2, <3>3, OthersStay DEF Names
    <3> QED BY <3>1, <3>2, <3>3
  <2>3. ASSUME NEW t \in Ids, Dispatch(t) \/ Returns(t)
        PROVE  TypeOK' /\ NamesOK'
    BY <1>2, <2>3, WorkersTyped DEF Names
  <2> QED BY <1>2, <2>1, <2>2, <2>3 DEF Next
<1> QED BY <1>1, <1>2, PTL DEF Spec
=============================================================================
