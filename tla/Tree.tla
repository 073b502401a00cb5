-------------------------------- MODULE Tree --------------------------------
(***************************************************************************)
(* The tree of ticket files and the commands that give it its shape:       *)
(* create, edit, delete and migrate.  No lock guards the tree: a command   *)
(* reads all the cards, decides, and then writes, renames and removes      *)
(* files one by one; it can be killed between any two of them.  The steps  *)
(* of dispatch and of what ends a worker are in CardRaces; here they only  *)
(* say which tickets are dispatched.                                       *)
(*                                                                         *)
(* The history variables only watch; no command reads them.                *)
(***************************************************************************)
EXTENDS DepGraph, FiniteSets

CONSTANTS
  Ids,            \* the ids there can be: pairs of an initiative, by its rank
                  \* in the alphabet, and a number in it (a bound)
  Lists,          \* what a card can be told to depend on or to await (a bound)
  Procs,          \* the commands that can run at the same time
  RewriteScope,   \* migrate rewrites at most so many cards
  MaxEdited,      \* so many tickets may have been edited by hand (a bound),
  MaxRunning,     \* so many dispatched at once (a bound),
  MaxLost         \* and so many names lost (a bound)

ASSUME IdsAssumption == Ids \subseteq Nat \X (Nat \ {0})
ASSUME ListsAssumption == Lists \subseteq SUBSET Ids

VARIABLES
  cards,      \* the ids of the files in the tree
  needs,      \* what each of them depends on or awaits
  running,    \* the dispatched ones
  procs,      \* the command each process runs
  refused,    \* history: tickets saved in an editor and not accepted after it
  edited,     \* history: tickets once saved in an editor
  lost        \* history: names that a killed cascade left behind, or a command
              \* that was given an id in another case

history == <<refused, edited, lost>>
vars == <<cards, needs, running, procs, history>>

-----------------------------------------------------------------------------
NoId == <<0, 0>>
NoDocs == [n \in Ids |-> {}]

\* A command: where it is, the id it is given, whether in the case of the
\* file (an id in another case finds the file, but no card that names it), the
\* file it makes, the cards it will write, and the files left to write or remove.
Command(pc, id, exact, new, docs, todo) ==
  [pc |-> pc, id |-> id, exact |-> exact, new |-> new, docs |-> docs, todo |-> todo]
Idle == Command("idle", NoId, TRUE, NoId, NoDocs, {})

Runs(p, command) == procs' = [procs EXCEPT ![p] = command]
At(p, pc) == procs[p].pc = pc

Init ==
  /\ cards = {} /\ running = {}
  /\ needs = NoDocs
  /\ procs = [p \in Procs |-> Idle]
  /\ refused = {} /\ edited = {} /\ lost = {}

\* Bug: the next number is one more than there are files.
IsNextByCount(new) == new[2] = Cardinality({n \in cards : n[1] = new[1]}) + 1

\* The number after the highest one in use, whatever was deleted below it.
IsNext(new) ==
  /\ \A n \in cards : n[1] = new[1] => n[2] < new[2]
  /\ new[2] = 1 \/ <<new[1], new[2] - 1>> \in cards

\* The order of sort.Strings.
Before(m, n) == m[1] < n[1] \/ (m[1] = n[1] /\ m[2] < n[2])
IsFirst(n, S) == n \in S /\ \A m \in S \ {n} : Before(n, m)

\* Bug: the file goes, and what it needed is still counted.
UnlinkHalf(n) ==
  /\ cards' = cards \ {n}
  /\ running' = running \ {n}
  /\ UNCHANGED needs

\* What replaces the file of n, and what removes it.
Write(n, list) ==
  /\ cards' = cards \cup {n}
  /\ needs' = [needs EXCEPT ![n] = list]
  /\ running' = running \ {n}
Unlink(n) ==
  /\ cards' = cards \ {n}
  /\ needs' = [needs EXCEPT ![n] = {}]
  /\ running' = running \ {n}
Untouched == UNCHANGED <<cards, needs, running>>

-----------------------------------------------------------------------------
(* create. *)
CreatePlan(p, new, list) ==
  LET graph == [needs EXCEPT ![new] = list] IN
  /\ At(p, "idle")
  /\ IsNext(new)
  /\ Accepts(cards \cup {new}, graph, new)
  /\ Runs(p, Command("stat", NoId, TRUE, new, [NoDocs EXCEPT ![new] = list], {}))
  /\ Untouched /\ UNCHANGED history

Stat(p) ==
  /\ At(p, "stat")
  /\ Runs(p, IF procs[p].new \in cards THEN Idle ELSE [procs[p] EXCEPT !.pc = "put"])
  /\ Untouched /\ UNCHANGED history

(* edit: the editor saves the file, then the command has its say. *)
EditorSaves(p, t, list) ==
  /\ At(p, "idle")
  /\ t \in cards
  /\ Cardinality(edited \cup {t}) <= MaxEdited
  /\ needs' = [needs EXCEPT ![t] = list]
  /\ refused' = refused \cup {t}
  /\ edited' = edited \cup {t}
  /\ Runs(p, Command("judge", t, TRUE, NoId, NoDocs, {}))
  /\ UNCHANGED <<cards, running, lost>>

\* Bug: the graph is read without the list that was just saved.
JudgeOldGraph(p) ==
  LET t == procs[p].id IN
  /\ At(p, "judge")
  /\ refused' = IF Accepts(cards, [needs EXCEPT ![t] = {}], t) THEN refused \ {t} ELSE refused
  /\ Runs(p, Idle)
  /\ Untouched /\ UNCHANGED <<edited, lost>>

Judge(p) ==
  LET t == procs[p].id IN
  /\ At(p, "judge")
  /\ refused' = IF Accepts(cards, needs, t) THEN refused \ {t} ELSE refused
  /\ Runs(p, Idle)
  /\ Untouched /\ UNCHANGED <<edited, lost>>

-----------------------------------------------------------------------------
(* delete. *)
MaySlip(t) == Cardinality(lost \cup {t}) <= MaxLost
Named(t, exact) == IF exact THEN Dependents(cards, needs, t) ELSE {}

\* Bug: only the ticket that was named is looked at.
MayRemoveByRoot(t, targets) == t \in cards \ running

\* The ticket is there, and nothing that goes with it is dispatched.
MayRemove(t, targets) == t \in cards /\ targets \cap running = {}

DeletePlan(p, t, exact, cascade) ==
  LET targets == IF cascade /\ exact THEN Branch(cards, needs, t) ELSE {t} IN
  /\ At(p, "idle")
  /\ MayRemove(t, targets)
  /\ exact \/ MaySlip(t)
  /\ cascade \/ Named(t, exact) = {}
  /\ Runs(p, Command("remove", t, exact, NoId, NoDocs, targets))
  /\ Untouched /\ UNCHANGED history

(* migrate: the graph as it will be is judged as a whole before any write. *)
Renamed(list, old, new) == (list \ {old}) \cup (IF old \in list THEN {new} ELSE {})

MigratedNodes(t, exact, new) == (IF exact THEN cards \ {t} ELSE cards) \cup {new}
Migrated(t, exact, new, rewritten) ==
  [n \in Ids |->
     IF n = new THEN needs[t]
     ELSE IF n = t /\ exact THEN {}
     ELSE IF n \in rewritten THEN Renamed(needs[n], t, new) ELSE needs[n]]

MigratePlan(p, t, exact, new) ==
  LET rewritten == Named(t, exact) \ {t}
      graph == Migrated(t, exact, new, rewritten)
  IN
  /\ At(p, "idle")
  /\ t \in cards \ running
  /\ exact \/ MaySlip(t)
  /\ IsNext(new)
  /\ rewritten \cap running = {}
  /\ Cardinality(rewritten) <= RewriteScope
  /\ \A n \in rewritten \cup {new} : Accepts(MigratedNodes(t, exact, new), graph, n)
  /\ LET docs == [n \in Ids |-> IF n \in rewritten \cup {new} THEN graph[n] ELSE {}] IN
     Runs(p, Command("put", t, exact, new, docs, rewritten))
  /\ Untouched /\ UNCHANGED history

-----------------------------------------------------------------------------
(* What the commands do to the files. *)
Put(p) ==
  LET c == procs[p]
      old == {n \in {c.id} : n # NoId}
      told(S) == IF old \cap S # {} THEN S \cup {c.new} ELSE S
  IN
  /\ At(p, "put")
  /\ Write(c.new, c.docs[c.new])
  /\ Runs(p, IF old = {} THEN Idle
             ELSE IF c.todo = {} THEN [c EXCEPT !.pc = "remove", !.todo = old]
             ELSE [c EXCEPT !.pc = "update"])
  /\ edited' = told(edited) /\ lost' = told(lost)      \* a ticket keeps its history
  /\ UNCHANGED refused

Update(p, n) ==
  LET c == procs[p] IN
  /\ At(p, "update")
  /\ IsFirst(n, c.todo)
  /\ Write(n, c.docs[n])
  /\ Runs(p, IF c.todo = {n} THEN [c EXCEPT !.pc = "remove", !.todo = {c.id}]
             ELSE [c EXCEPT !.todo = @ \ {n}])
  /\ UNCHANGED history

\* What a command that stops here leaves without a card.
Orphaned(c) == IF c.pc = "remove" THEN (UNION {needs[n] : n \in c.todo}) \ cards ELSE {}

\* A file that is gone already ends the command with an error.
RemoveFile(p, n) ==
  LET c == procs[p]
      done == c.todo = {n} \/ n \notin cards
  IN
  /\ At(p, "remove")
  /\ IsFirst(n, c.todo)
  /\ IF n \in cards THEN Unlink(n) ELSE Untouched
  /\ Runs(p, IF done THEN Idle ELSE [c EXCEPT !.todo = @ \ {n}])
  /\ refused' = refused \ {n}
  /\ edited' = edited \ {n}
  /\ lost' = lost \cup (IF n \notin cards THEN Orphaned(c)
                        ELSE IF c.exact THEN {} ELSE {n})

Dies(p) ==
  /\ ~At(p, "idle")
  /\ Cardinality(lost \cup Orphaned(procs[p])) <= MaxLost
  /\ Runs(p, Idle)
  /\ lost' = lost \cup Orphaned(procs[p])
  /\ Untouched /\ UNCHANGED <<refused, edited>>

-----------------------------------------------------------------------------
(* At any time, whatever the commands are at, dispatch starts a worker when *)
(* what its ticket needs is there and ended, and reconcile, or a person,    *)
(* notes that it returned.                                                  *)
Dispatch(t) ==
  /\ t \in cards \ running
  /\ needs[t] \subseteq cards \ running
  /\ Cardinality(running) < MaxRunning
  /\ running' = running \cup {t}
  /\ UNCHANGED <<cards, needs, procs, history>>

Returns(t) ==
  /\ t \in running
  /\ running' = running \ {t}
  /\ UNCHANGED <<cards, needs, procs, history>>

Does(p) ==
  \/ \E new \in Ids, list \in Lists : CreatePlan(p, new, list)
  \/ \E t \in Ids, list \in Lists : EditorSaves(p, t, list)
  \/ \E t \in Ids, exact, cascade \in BOOLEAN : DeletePlan(p, t, exact, cascade)
  \/ \E t, new \in Ids, exact \in BOOLEAN : MigratePlan(p, t, exact, new)
  \/ Stat(p) \/ Judge(p) \/ Put(p) \/ Dies(p)
  \/ \E n \in Ids : Update(p, n) \/ RemoveFile(p, n)

Next ==
  \/ \E p \in Procs : Does(p)
  \/ \E t \in Ids : Dispatch(t) \/ Returns(t)

Spec == Init /\ [][Next]_vars

-----------------------------------------------------------------------------
CommandSet ==
  [pc : {"idle", "stat", "put", "judge", "update", "remove"},
   id : Ids \cup {NoId}, exact : BOOLEAN, new : Ids \cup {NoId},
   docs : [Ids -> SUBSET Ids], todo : SUBSET Ids]

\* The types; a name without a file needs nothing and has no history of edits.
TypeOK ==
  /\ cards \subseteq Ids /\ running \subseteq cards
  /\ needs \in [Ids -> SUBSET Ids]
  /\ \A n \in Ids \ cards : needs[n] = {}
  /\ procs \in [Procs -> CommandSet]
  /\ refused \subseteq edited /\ edited \subseteq cards /\ lost \subseteq Ids

\* Every circle of tickets goes through one whose last edit was not accepted:
\* create, migrate and accepted edits never close one, not even in the middle
\* of a migrate, after a kill, or over a name that somebody still names.
CirclesAreRefused == Acyclic(needs, cards \ refused)

\* Between commands, a ticket names a missing one only if its edit was not
\* accepted, if a cascade was killed, or if the id was given in another case.
DanglingIsExplained ==
  (\A p \in Procs : At(p, "idle")) =>
     \A n \in cards \ refused : needs[n] \subseteq cards \cup lost

\* A chain of more than three tickets needs an edit somewhere on the way down
\* (edit looks below the ticket, never above it), or a name that was lost and
\* used again; create and migrate alone never build one.
DeepIsEdited ==
  \A n \in cards : TooDeep(needs, n) => Reach(needs, n) \cap (edited \cup lost) # {}

-----------------------------------------------------------------------------
(* What makes them inductive, as long as one command runs at a time.        *)

\* The tree as a create or a migrate will leave it; D are the cards it rewrites.
Final(c, D) ==
  [n \in Ids |-> IF n \in D \cup {c.new} THEN c.docs[n]
                 ELSE IF n = c.id /\ c.exact THEN {} ELSE needs[n]]

\* The half-written tree becomes Final when the old id is read as the new one.
PlanHolds(c, D) ==
  /\ c.todo \subseteq D
  /\ \A n \in D \cup {c.new} :
       /\ c.docs[n] \subseteq cards \cup {c.new}
       /\ Acyclic(Final(c, D), Reach(Final(c, D), n))
       /\ ~TooDeep(Final(c, D), n)
  /\ IF c.id \in Ids /\ c.exact
     THEN /\ c.new # c.id /\ c.new \notin D /\ c.id \notin D
          /\ c.docs[c.new] = needs[c.id]
          /\ \A n \in D \cup {c.new} : c.id \notin c.docs[n]
          /\ \A n \in D : c.docs[n] = IF n \in c.todo THEN Renamed(needs[n], c.id, c.new)
                                      ELSE needs[n]
          /\ \A n \in Ids \ (D \cup {c.id, c.new}) : c.id \notin needs[n]
     ELSE D = {}

CommandHolds(c) ==
  /\ c.pc \in {"stat", "put", "update"} => c.new \in Ids
  /\ c.pc \in {"judge", "update", "remove"} => c.id \in Ids
  /\ c.pc \in {"stat", "put", "update"} => \E D \in SUBSET Ids : PlanHolds(c, D)
  /\ c.pc = "stat" => c.id = NoId
  /\ c.pc = "put" => c.new \notin cards
  /\ c.pc = "update" => /\ c.todo # {} /\ c.new \in cards
                        /\ needs[c.new] = c.docs[c.new]
  /\ c.pc = "remove" =>
       IF c.exact THEN \A n \in cards \ c.todo : needs[n] \cap c.todo = {}
                  ELSE c.todo = {c.id}

\* A dangling name that is not explained yet is one of a branch that goes.
DanglingGoes ==
  \A n \in cards \ refused :
    needs[n] \subseteq cards \cup lost
      \/ \E p \in Procs : At(p, "remove") /\ procs[p].exact /\ n \in procs[p].todo

\* The tickets that explain a deep chain.
Explained == edited \cup lost

\* One of the first three tickets of a chain of four explains it (the last one
\* may be about to go, and its history with it); and the new file of a migrate
\* explains what the old one does.
ChainsAreExplained ==
  /\ \A n, a, b \in Ids : a \in needs[n] /\ b \in needs[a] /\ needs[b] # {} =>
       {n, a, b} \cap Explained # {}
  /\ \A p \in Procs : At(p, "update") /\ procs[p].id \in Explained =>
       procs[p].new \in Explained

TreeInv ==
  /\ TypeOK /\ CirclesAreRefused /\ DanglingGoes
  /\ \A p \in Procs : CommandHolds(procs[p])
=============================================================================
