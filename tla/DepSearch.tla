----------------------------- MODULE DepSearch ------------------------------
(***************************************************************************)
(* The searches of helpers.go, loop by loop: validateDependencyGraph looks *)
(* up the names, then for a circle, then for the longest chain;            *)
(* collectCascadeIDs collects what a cascade removes.  Each is depth first *)
(* and recursive; here "path" is the stack of calls and "todo" what is     *)
(* left of the loop of each call, taken in any order.  DepGraph says what  *)
(* they are to find.                                                       *)
(***************************************************************************)
EXTENDS DepGraph, Sequences

CONSTANTS
  Ids,      \* the names there can be
  Lists     \* the lists of needs a card can have (a bound)

ASSUME SearchAssumption == Lists \subseteq SUBSET Ids

VARIABLES
  cards, needs, ticket,     \* the graph and the ticket it is searched for
  pc,                       \* which search is under way, or its answer
  path,                     \* the tickets whose calls have not returned
  todo,                     \* the needs that the loop of a call has yet to see
  visited,                  \* detectCycle: "visited"; collectCascadeIDs: "seen"
  best,                     \* the "maxDepth" of a call
  cache                     \* the depth below a ticket, 0 when it is not known

graph == <<cards, needs, ticket>>
vars == <<graph, pc, path, todo, visited, best, cache>>

Init ==
  /\ cards \in SUBSET Ids /\ ticket \in cards
  /\ needs \in {E \in [Ids -> Lists \cup {{}}] : \A n \in Ids \ cards : E[n] = {}}
  /\ pc \in {"validate", "collect"}
  /\ path = <<>>
  /\ todo = [n \in Ids |-> {}]
  /\ visited = {}
  /\ best = [n \in Ids |-> 0]
  /\ cache = [n \in Ids |-> 0]

\* Bug: the cascade follows what a ticket needs.
EdgesOfNeeds(n) == needs[n]

\* Whom the search goes on to from n.
Edges(n) == IF pc = "collect" THEN Dependents(cards, needs, n) ELSE needs[n]

Top == path[Len(path)]
OnPath == {path[i] : i \in 1..Len(path)}
Pops == path' = SubSeq(path, 1, Len(path) - 1)

\* The loop goes past d; it goes into d.
Passes(d) == todo' = [todo EXCEPT ![Top] = @ \ {d}] /\ UNCHANGED path
Enters(d) ==
  /\ todo' = [todo EXCEPT ![Top] = @ \ {d}, ![d] = Edges(d)]
  /\ path' = Append(path, d)

-----------------------------------------------------------------------------
(* What validateDependencyGraph does before, and the first calls.          *)

Begins == path' = <<ticket>> /\ todo' = [todo EXCEPT ![ticket] = Edges(ticket)]

LookUp ==
  /\ pc = "validate" /\ path = <<>>
  /\ IF needs[ticket] \subseteq cards
     THEN pc' = "cycle" /\ Begins /\ visited' = {ticket}
     ELSE pc' = "refused" /\ UNCHANGED <<path, todo, visited>>
  /\ UNCHANGED <<graph, best, cache>>

Collect ==
  /\ pc = "collect" /\ path = <<>> /\ visited = {}
  /\ Begins /\ visited' = {ticket}
  /\ UNCHANGED <<graph, pc, best, cache>>

-----------------------------------------------------------------------------
(* detectCycle, and collectCascadeIDs, which has no look at the stack.     *)

Walking == pc \in {"cycle", "collect"} /\ path # <<>>

\* Bug: whatever was seen before is a circle.
CircleVisited ==
  /\ pc = "cycle"
  /\ todo[Top] \cap visited # {}
  /\ pc' = "refused"
  /\ UNCHANGED <<graph, path, todo, visited, best, cache>>

Circle ==
  /\ pc = "cycle"
  /\ todo[Top] \cap OnPath # {}
  /\ pc' = "refused"
  /\ UNCHANGED <<graph, path, todo, visited, best, cache>>

Skip ==
  /\ Walking
  /\ \E d \in todo[Top] \cap visited :
       /\ pc = "cycle" => d \notin OnPath
       /\ Passes(d)
  /\ UNCHANGED <<graph, pc, visited, best, cache>>

\* Bug: the mark is forgotten.
DescendUnmarked ==
  /\ Walking
  /\ \E d \in todo[Top] \ visited : Enters(d)
  /\ UNCHANGED <<graph, pc, visited, best, cache>>

Descend ==
  /\ Walking
  /\ \E d \in todo[Top] \ visited : Enters(d) /\ visited' = visited \cup {d}
  /\ UNCHANGED <<graph, pc, best, cache>>

Return ==
  /\ Walking
  /\ todo[Top] = {} /\ Len(path) > 1
  /\ Pops
  /\ UNCHANGED <<graph, pc, todo, visited, best, cache>>

\* No circle: maxDependencyDepth starts at the same ticket.
NoCircle ==
  /\ pc = "cycle" /\ todo[Top] = {} /\ Len(path) = 1
  /\ pc' = "depth" /\ Begins
  /\ best' = [best EXCEPT ![ticket] = 1]
  /\ UNCHANGED <<graph, visited, cache>>

Collected ==
  /\ pc = "collect" /\ path # <<>> /\ todo[Top] = {} /\ Len(path) = 1
  /\ pc' = "collected" /\ Pops
  /\ UNCHANGED <<graph, todo, visited, best, cache>>

-----------------------------------------------------------------------------
(* maxDependencyDepthVisited.                                              *)

Deeper(a, b) == IF b > a THEN b ELSE a
Known(d) == cache[d] # 0 \/ d \in OnPath

\* The call for d returns at once: from the cache, or at an active ticket.
Measure ==
  /\ pc = "depth"
  /\ \E d \in todo[Top] :
       /\ Known(d)
       /\ Passes(d)
       /\ best' = [best EXCEPT ![Top] =
            Deeper(@, Len(path) + IF cache[d] # 0 THEN cache[d] ELSE 1)]
  /\ UNCHANGED <<graph, pc, visited, cache>>

MeasureBelow ==
  /\ pc = "depth"
  /\ \E d \in todo[Top] :
       /\ ~Known(d)
       /\ Enters(d)
       /\ best' = [best EXCEPT ![d] = Len(path) + 1]
  /\ UNCHANGED <<graph, pc, visited, cache>>

\* What is cached is the depth below Top; what is returned includes the path.
Measured ==
  /\ pc = "depth" /\ todo[Top] = {}
  /\ cache' = [cache EXCEPT ![Top] = best[Top] - (Len(path) - 1)]
  /\ Pops
  /\ IF Len(path) > 1
     THEN /\ LET caller == path[Len(path) - 1] IN
             best' = [best EXCEPT ![caller] = Deeper(@, best[Top])]
          /\ UNCHANGED pc
     ELSE /\ pc' = IF best[Top] > 3 THEN "refused" ELSE "accepted"
          /\ UNCHANGED best
  /\ UNCHANGED <<graph, todo, visited>>

\* The answer is there.
Answered == pc \in {"accepted", "refused", "collected"} /\ UNCHANGED vars

Next ==
  \/ LookUp \/ Circle \/ NoCircle \/ Collect \/ Collected
  \/ Skip \/ Descend \/ Return
  \/ Measure \/ MeasureBelow \/ Measured
  \/ Answered

Spec == Init /\ [][Next]_vars

-----------------------------------------------------------------------------
\* A search is never in one ticket twice, so it comes to an end on any graph.
TypeOK ==
  /\ cards \in SUBSET Ids /\ ticket \in cards
  /\ needs \in [Ids -> SUBSET Ids] /\ \A n \in Ids \ cards : needs[n] = {}
  /\ pc \in {"validate", "cycle", "depth", "accepted", "refused", "collect", "collected"}
  /\ path \in Seq(Ids)
  /\ \A i, j \in 1..Len(path) : path[i] = path[j] => i = j
  /\ todo \in [Ids -> SUBSET Ids]
  /\ visited \in SUBSET Ids
  /\ best \in [Ids -> Nat]
  /\ cache \in [Ids -> Nat]

\* A graph is accepted exactly when it should be, circles that do not go
\* through the ticket, several ways to one ticket and missing names included:
\* what the searches remember from one branch never misleads them in another.
VerdictIsRight ==
  /\ pc = "accepted" => Accepts(cards, needs, ticket)
  /\ pc = "refused" => ~Accepts(cards, needs, ticket)

\* A cascade takes along all tickets that need this one, directly or not, and
\* no others, also when they need each other in a circle.
CascadeIsBranch == pc = "collected" => visited = Branch(cards, needs, ticket)

-----------------------------------------------------------------------------
(* What makes them inductive.                                               *)

\* The path goes from the ticket along edges that the loops have gone past.
PathHolds ==
  /\ path # <<>> => path[1] = ticket
  /\ \A i \in 1..Len(path) : todo[path[i]] \subseteq Edges(path[i])
  /\ \A i \in 1..(Len(path) - 1) : path[i + 1] \in Edges(path[i]) \ todo[path[i]]
  /\ pc \in {"cycle", "depth"} => path # <<>>

\* detectCycle: below the tickets it is done with there is no circle, and
\* nothing that it is not done with.
CycleHolds ==
  LET done == visited \ OnPath IN
  pc = "cycle" =>
    /\ needs[ticket] \subseteq cards
    /\ OnPath \subseteq visited /\ visited \subseteq Reach(needs, ticket)
    /\ Acyclic(needs, done) /\ \A n \in done : needs[n] \subseteq done
    /\ \A i \in 1..Len(path) : \A m \in needs[path[i]] \ todo[path[i]] :
         m \in done \/ (i < Len(path) /\ m = path[i + 1])

\* collectCascadeIDs: what a ticket it has seen leads to was seen, or is still
\* to do.
CollectHolds ==
  pc \in {"collect", "collected"} =>
    /\ OnPath \subseteq visited /\ visited \subseteq Branch(cards, needs, ticket)
    /\ \A n \in visited : \A m \in Dependents(cards, needs, n) :
         m \in visited \/ (n \in OnPath /\ m \in todo[n])
    /\ path # <<>> \/ pc = "collected" => ticket \in visited
    /\ pc = "collected" => path = <<>>

\* v is the length of the longest way on from a path of "base" tickets, by
\* what is known of the tickets of S.
Longest(v, base, S) ==
  /\ v >= base /\ \A m \in S : v >= base + cache[m]
  /\ v = base \/ \E m \in S : v = base + cache[m]

\* maxDependencyDepth: what is cached is the depth, and what a call has is the
\* depth as far as its loop has got.
DepthHolds ==
  pc = "depth" =>
    /\ needs[ticket] \subseteq cards /\ Acyclic(needs, Reach(needs, ticket))
    /\ OnPath \subseteq Reach(needs, ticket)
    /\ \A n \in Ids : cache[n] # 0 =>
         /\ n \notin OnPath /\ Longest(cache[n], 1, needs[n])
         /\ \A m \in needs[n] : cache[m] # 0
    /\ \A i \in 1..Len(path) :
         LET seen == needs[path[i]] \ todo[path[i]] IN
         /\ Longest(best[path[i]], i, {m \in seen : cache[m] # 0})
         /\ \A m \in seen : cache[m] # 0 \/ (i < Len(path) /\ m = path[i + 1])

\* Before the depth is measured nothing is cached.
CacheEmpty == pc \in {"validate", "cycle"} => \A n \in Ids : cache[n] = 0

SearchInv ==
  /\ TypeOK /\ PathHolds /\ CycleHolds /\ CollectHolds /\ DepthHolds /\ CacheEmpty
  /\ VerdictIsRight
=============================================================================
