----------------------------- MODULE CardRaces -----------------------------
(***************************************************************************)
(* The commands taken apart, as the operating system runs them: each is a  *)
(* process that reads a card file, works on the copy, and renames a new    *)
(* file over the old one.  No lock is held per card, so other processes,   *)
(* and the workers, write in between.  Any process may die at any point.   *)
(***************************************************************************)
EXTENDS AgentMux, FiniteSets

CONSTANTS DependsOn, Awaits,
          Scoped,            \* the tickets whose ## Scope is not empty
          Procs              \* the command processes that may overlap

ASSUME DependenciesAssumption ==
  /\ DependsOn \in [Tickets -> SUBSET Tickets]
  /\ Awaits \in [Tickets -> SUBSET Tickets]

VARIABLES
  cards,     \* the files
  procs,     \* what each command process is doing, with its copies
  fresh      \* history: the tickets on disk still as the process read them

vars == <<cards, workers, procs, fresh>>

\* A parsed card in the memory of a process.
Doc == [ticket : Tickets, card : Card]

\* "awaits", "deps", "launch": inside dispatchTicket; "write": about to
\* rename the new file into place; "scan": reconcile, between two cards.
\* "gates" are the tickets dispatchTicket has yet to read, "docs" the cards
\* reconcile has yet to look at.
Idle == [pc |-> "idle"]
Busy == [pc : {"awaits", "deps", "launch", "write", "scan"},
         command : Transition \cup {"reconcile"}, ticket : Tickets,
         card : Card, gates : SUBSET Tickets, docs : SUBSET Doc]

TypeOK ==
  /\ cards \in [Tickets -> Card]
  /\ workers \in Seq(Worker)
  /\ procs \in [Procs -> Busy \cup {Idle}]
  /\ fresh \in [Procs -> SUBSET Tickets]

Init ==
  /\ cards = [t \in Tickets |-> NewCard]
  /\ workers = <<>>
  /\ procs = [p \in Procs |-> Idle]
  /\ fresh = [p \in Procs |-> {}]

Is(p, pc) == procs[p] # Idle /\ procs[p].pc = pc

Becomes(p, state) == procs' = [procs EXCEPT ![p] = state]

\* Process p finishes, or dies.
Stops(p) == Becomes(p, Idle) /\ fresh' = [fresh EXCEPT ![p] = {}]

\* The file of t is replaced: whoever read it earlier holds an old copy.
Rename(t, c) == cards' = [cards EXCEPT ![t] = c]
Outdated(t) == [q \in Procs |-> fresh[q] \ {t}]

-----------------------------------------------------------------------------
(* A command on one card: read, check and edit the copy; write it later.   *)

Edit(p, command, t, allowed, edited) ==
  /\ procs[p] = Idle
  /\ allowed
  /\ Becomes(p, [pc |-> "write", command |-> command, ticket |-> t,
                 card |-> edited, gates |-> {}, docs |-> {}])
  /\ fresh' = [fresh EXCEPT ![p] = {t}]
  /\ UNCHANGED <<cards, workers>>

Complete(p, t) == Edit(p, "complete", t, CanComplete(cards[t]), CompleteCard(cards[t]))
Cancel(p, t) == Edit(p, "cancel", t, CanCancel(cards[t]), CancelCard(cards[t]))
Reopen(p, t) == Edit(p, "reopen", t, CanReopen(cards[t]), ReopenCard(cards[t]))
Block(p, t) == Edit(p, "block", t, CanBlock(cards[t]), BlockCard(cards[t]))
Close(p, t) == Edit(p, "close", t, CanClose(cards[t]), CloseCard(cards[t]))

\* fail, and the stall phase too: it reads the card again before it fails it.
Fail(p, t) == Edit(p, "fail", t, CanFail(cards[t]), FailCard(cards[t]))

-----------------------------------------------------------------------------
(* dispatchTicket reads the card, then every ticket it awaits, then every  *)
(* dependency, starts the worker, and only then writes its copy.           *)

StartDispatch(p, t) ==
  /\ procs[p] = Idle
  /\ CanDispatch(cards[t])
  /\ Becomes(p, [pc |-> "awaits", command |-> "dispatch", ticket |-> t,
                 card |-> cards[t], gates |-> Awaits[t], docs |-> {}])
  /\ fresh' = [fresh EXCEPT ![p] = {t}]
  /\ UNCHANGED <<cards, workers>>

\* A gate that is met is left behind; one that is not is an error.
Gate(p, pc, met, next, gates) ==
  /\ Is(p, pc)
  /\ \/ \E g \in procs[p].gates :
          IF g \in met THEN /\ Becomes(p, [procs[p] EXCEPT !.gates = @ \ {g}])
                           /\ UNCHANGED fresh
                      ELSE Stops(p)
     \/ /\ procs[p].gates = {}
        /\ Becomes(p, [procs[p] EXCEPT !.pc = next, !.gates = gates])
        /\ UNCHANGED fresh
  /\ UNCHANGED <<cards, workers>>

\* Bug: any awaited ticket that was started will do.
ReadAwaitedStarted(p) ==
  Gate(p, "awaits", {a \in Tickets : cards[a].status # "open"},
       "deps", DependsOn[procs[p].ticket])

ReadAwaited(p) ==
  Gate(p, "awaits", {a \in Tickets : IsTerminal(cards[a].status)},
       "deps", DependsOn[procs[p].ticket])

ReadDependency(p) ==
  Gate(p, "deps", {d \in Tickets : cards[d].status = "done"}, "launch", {})

\* With an empty ## Scope the command ends here with an error: see Dies.
LaunchWorker(p) ==
  /\ Is(p, "launch")
  /\ procs[p].ticket \in Scoped
  /\ Launch(procs[p].ticket)
  /\ \E session \in BOOLEAN :
       Becomes(p, [procs[p] EXCEPT !.pc = "write",
                                   !.card = DispatchCard(@, NextDispatch, session)])
  /\ UNCHANGED <<cards, fresh>>

-----------------------------------------------------------------------------
(* reconcile parses every card once, then asks and writes card by card.    *)

StartReconcile(p) ==
  LET dispatched == {t \in Tickets : CanReconcile(cards[t])} IN
  /\ procs[p] = Idle
  /\ \E t \in dispatched :
       Becomes(p, [pc |-> "scan", command |-> "reconcile", ticket |-> t,
                   card |-> cards[t], gates |-> {},
                   docs |-> {[ticket |-> u, card |-> cards[u]] : u \in dispatched}])
  /\ fresh' = [fresh EXCEPT ![p] = Tickets]
  /\ UNCHANGED <<cards, workers>>

\* Bug: the answer for one card is written to the file of another.
AskForAnother(p) ==
  /\ Is(p, "scan")
  /\ \E doc \in procs[p].docs : \E answer \in StatusAnswers(doc.card.dispatchId) :
       Becomes(p, [procs[p] EXCEPT
         !.pc = IF ReconcileWrites(doc.card, answer) THEN "write" ELSE "scan",
         !.card = ReconcileCard(doc.card, answer),
         !.docs = @ \ {doc}])
  /\ UNCHANGED <<cards, workers, fresh>>

\* The next card of the slice: ask agent-mux, and edit the copy if need be.
Ask(p) ==
  /\ Is(p, "scan")
  /\ \E doc \in procs[p].docs : \E answer \in StatusAnswers(doc.card.dispatchId) :
       Becomes(p, [procs[p] EXCEPT
         !.pc = IF ReconcileWrites(doc.card, answer) THEN "write" ELSE "scan",
         !.ticket = doc.ticket,
         !.card = ReconcileCard(doc.card, answer),
         !.docs = @ \ {doc}])
  /\ UNCHANGED <<cards, workers, fresh>>

ReconcileEnds(p) ==
  /\ Is(p, "scan")
  /\ procs[p].docs = {}
  /\ Stops(p)
  /\ UNCHANGED <<cards, workers>>

-----------------------------------------------------------------------------
\* Bug: the status alone is patched into the file as it is now.
WriteStatusOnly(p) ==
  /\ Is(p, "write")
  /\ Rename(procs[p].ticket,
            [cards[procs[p].ticket] EXCEPT !.status = procs[p].card.status])
  /\ Becomes(p, IF procs[p].docs = {} THEN Idle ELSE [procs[p] EXCEPT !.pc = "scan"])
  /\ fresh' = [Outdated(procs[p].ticket) EXCEPT
                 ![p] = IF procs[p].docs = {} THEN {} ELSE @]
  /\ UNCHANGED workers

\* WriteFile: the copy replaces whatever the file has become meanwhile.
Write(p) ==
  /\ Is(p, "write")
  /\ Rename(procs[p].ticket, procs[p].card)
  /\ Becomes(p, IF procs[p].docs = {} THEN Idle ELSE [procs[p] EXCEPT !.pc = "scan"])
  /\ fresh' = [Outdated(procs[p].ticket) EXCEPT
                 ![p] = IF procs[p].docs = {} THEN {} ELSE @]
  /\ UNCHANGED workers

\* The process is killed, its write fails, it ends with an error, or it
\* never hears the answer of agent-mux to a launch or a query.
Dies(p) ==
  /\ procs[p] # Idle
  /\ Stops(p)
  /\ UNCHANGED <<cards, workers>>

WorkerWrites(d) ==
  /\ Running(d)
  /\ \E text \in TextsOf(d) :
       LET t == workers[d].ticket IN
       /\ Rename(t, [cards[t] EXCEPT !.result = text])
       /\ fresh' = Outdated(t)
  /\ UNCHANGED <<workers, procs>>

WorkerEnds(d) == End(d) /\ UNCHANGED <<cards, procs, fresh>>

Process(p) ==
  \/ \E t \in Tickets :
       \/ Complete(p, t) \/ Fail(p, t) \/ Cancel(p, t)
       \/ Reopen(p, t) \/ Block(p, t) \/ Close(p, t) \/ StartDispatch(p, t)
  \/ ReadAwaited(p) \/ ReadDependency(p) \/ LaunchWorker(p)
  \/ StartReconcile(p) \/ Ask(p) \/ ReconcileEnds(p)
  \/ Write(p) \/ Dies(p)

Next ==
  \/ \E p \in Procs : Process(p)
  \/ \E d \in Dispatches : WorkerWrites(d) \/ WorkerEnds(d)

Spec == Init /\ [][Next]_vars

-----------------------------------------------------------------------------
(* What holds however the processes overlap and wherever they die. *)

\* Every card on disk, and every copy a process is about to write, makes
\* sense taken alone: renaming whole files loses updates, but it never mixes
\* two commands' halves into a card no command could have written.
CardsOK ==
  /\ \A t \in Tickets : CardOK(cards[t])
  /\ \A p \in Procs : procs[p] # Idle => CardOK(procs[p].card)

Ours(t, d) == d = Nil \/ (d \in Dispatches /\ workers[d].ticket = t)
NamesOwn(t, c) == Ours(t, c.dispatchId) /\ Ours(t, c.result.by)

\* A card, or a copy of it in some process, never names a dispatch that was
\* started for another ticket, or not at all: the dispatch reconcile asks
\* about and the author of the Result it trusts belong to the ticket.
CardsNameOwnDispatches ==
  /\ \A t \in Tickets : NamesOwn(t, cards[t])
  /\ \A p \in Procs : procs[p] # Idle =>
       /\ NamesOwn(procs[p].ticket, procs[p].card)
       /\ \A doc \in procs[p].docs : NamesOwn(doc.ticket, doc.card)

\* One command's effect on status and attempts, the auto-block included.
Lawful(before, after) ==
  \/ before.status = after.status /\ before.attempts = after.attempts
  \/ \E t \in Transition :
       LET def == Apply(before.status, t) IN
       /\ Applies(before.status, t)
       /\ after.status \in {def.to} \cup
            (IF t = "fail" /\ ShouldAutoBlock(before.attempts) THEN {"blocked"} ELSE {})
       /\ after.attempts = If("incrementAttempts", def, before.attempts + 1, before.attempts)

Kept(before, after) ==
  /\ before.archive \subseteq after.archive
  /\ before.result \in after.archive \cup {NoResult, after.result}

\* A write whose file is still as the process read it moves the ticket along
\* one edge of the state machine and loses nothing a worker wrote, even deep
\* into a reconcile that read its slice long ago: all harm comes from writes
\* over a file that changed in between.
FreshWritesAreLawful ==
  [][\A p \in Procs :
       Write(p) /\ procs[p].ticket \in fresh[p] =>
         LET t == procs[p].ticket IN
         Lawful(cards[t], cards'[t]) /\ Kept(cards[t], cards'[t])]_vars

\* One command process, beside the workers: however a command is taken apart,
\* whatever a worker writes into the card it has read, and wherever it dies,
\* seen through status and attempts it does what TicketFsm promises of one
\* indivisible step.  (Two processes do not: one may start what the other has
\* closed meanwhile, from its old copy.)
Statuses == [t \in Tickets |-> cards[t].status]
Tries == [t \in Tickets |-> cards[t].attempts]
Abstract ==
  INSTANCE TicketFsm WITH status <- Statuses, attempts <- Tries, Budget <- MaxRetry
ImplementsTicketFsm == Abstract!Spec

-----------------------------------------------------------------------------
(* What the documentation says and the interleavings break. *)

ReconcileWrote(p) == Write(p) /\ procs[p].command = "reconcile"

\* README, "Automation Notes": a populated Result in the card is trusted over
\* what agent-mux reports, so reconcile fails no dispatched card that has one.
ReconcileTrustsTheArtifact ==
  [][\A p \in Procs :
       LET t == procs[p].ticket IN
       /\ ReconcileWrote(p)
       /\ cards[t].status = "dispatched"
       /\ HasSubstantialResult(cards[t])
       => cards'[t].status \in {"done", "dispatched"}]_vars
=============================================================================
