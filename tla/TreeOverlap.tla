----------------------------- MODULE TreeOverlap -----------------------------
(***************************************************************************)
(* Tree with a history variable for what comes too late for a command to   *)
(* have seen it.  Nothing keeps two commands apart, nor a command and a    *)
(* dispatch: between the plan of one and its last file others make files   *)
(* and start workers.  This is where a file can be replaced, and the file  *)
(* of a worker removed, and the only place.                                *)
(***************************************************************************)
EXTENDS Tree

VARIABLE
  late        \* of the files a running command is to make, write or remove,
              \* those that were made or dispatched since it planned

ovars == <<vars, late>>

OInit == Init /\ late = [p \in Procs |-> {}]

\* What a step makes or dispatches, and what is left for a command to work on.
Arrivals == (cards' \ cards) \cup (running' \ running)
Scope(c) == c.todo \cup {c.id, c.new}

ONext ==
  /\ Next
  /\ late' = [p \in Procs |-> (late[p] \cup Arrivals) \cap Scope(procs'[p])]

OSpec == OInit /\ [][ONext]_ovars

-----------------------------------------------------------------------------
\* However many commands overlap, create and migrate replace a file only if it
\* was made after they had planned: another create or migrate took the same
\* number.  Deletions, edits, dispatches and kills beside them never bring it
\* about (cmdCreate's and cmdMigrate's nextSequence, and the Stat of create).
OnlyLateIsReplaced ==
  \A p \in Procs : At(p, "put") /\ procs[p].new \in cards => procs[p].new \in late[p]

\* However many commands overlap, none removes or writes over the file of a ticket
\* that has a worker, unless that worker was started after the command had planned
\* what it does to this very file; only an editor changes what the ticket needs
\* (the checks of cmdDelete and cmdMigrate, which look at the whole cascade and at
\* every card to rewrite).
EarlyWorkersAreLeftAlone ==
  [][\A p \in Procs : procs'[p] # procs[p] =>
       \A t \in running \ late[p] :
         /\ t \in cards' /\ t \in running'
         /\ needs'[t] # needs[t] => t \in refused']_ovars
=============================================================================
