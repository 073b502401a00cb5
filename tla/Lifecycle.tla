----------------------------- MODULE Lifecycle -----------------------------
(***************************************************************************)
(* The commands of cmd/tickets run one at a time over a tree of cards,     *)
(* while agent-mux's workers run beside them.  Each command is one step:   *)
(* read the card, check, write it back.  CardRaces takes the steps apart.  *)
(***************************************************************************)
EXTENDS AgentMux, FiniteSets

CONSTANTS DependsOn, Awaits,
          Scoped          \* the tickets whose ## Scope is not empty

ASSUME DependenciesAssumption ==
  /\ DependsOn \in [Tickets -> SUBSET Tickets]
  /\ Awaits \in [Tickets -> SUBSET Tickets]

VARIABLE cards

vars == <<cards, workers>>

TypeOK ==
  /\ cards \in [Tickets -> Card]
  /\ workers \in Seq(Worker)

Init ==
  /\ cards = [t \in Tickets |-> NewCard]
  /\ workers = <<>>

Write(t, c) == cards' = [cards EXCEPT ![t] = c]

-----------------------------------------------------------------------------
\* Bug: the loop over the awaited tickets is missing.
MayDispatchUnawaited(t) ==
  /\ CanDispatch(cards[t])
  /\ \A d \in DependsOn[t] : cards[d].status = "done"
  /\ t \in Scoped

\* dispatchTicket up to the launch: open, awaits at rest, dependencies done.
MayDispatch(t) ==
  /\ CanDispatch(cards[t])
  /\ \A a \in Awaits[t] : IsTerminal(cards[a].status)
  /\ \A d \in DependsOn[t] : cards[d].status = "done"
  /\ t \in Scoped

Dispatch(t) ==
  /\ MayDispatch(t)
  /\ Launch(t)
  /\ \E session \in BOOLEAN : Write(t, DispatchCard(cards[t], NextDispatch, session))

\* Bug: the worker is started before the status is looked at.
DispatchLostUnchecked(t) == Launch(t) /\ UNCHANGED cards

\* The worker started, but the answer was lost, the card could not be
\* written, or the process died in between: the card still says open.
DispatchLost(t) ==
  /\ MayDispatch(t)
  /\ Launch(t)
  /\ UNCHANGED cards

Complete(t) ==
  CanComplete(cards[t]) /\ Write(t, CompleteCard(cards[t])) /\ UNCHANGED workers

Fail(t) ==
  CanFail(cards[t]) /\ Write(t, FailCard(cards[t])) /\ UNCHANGED workers

Cancel(t) ==
  CanCancel(cards[t]) /\ Write(t, CancelCard(cards[t])) /\ UNCHANGED workers

Reopen(t) ==
  CanReopen(cards[t]) /\ Write(t, ReopenCard(cards[t])) /\ UNCHANGED workers

Block(t) ==
  CanBlock(cards[t]) /\ Write(t, BlockCard(cards[t])) /\ UNCHANGED workers

Close(t) ==
  CanClose(cards[t]) /\ Write(t, CloseCard(cards[t])) /\ UNCHANGED workers

\* reconcile, at the card of ticket t.
Reconcile(t) ==
  /\ CanReconcile(cards[t])
  /\ \E answer \in StatusAnswers(cards[t].dispatchId) :
       Write(t, ReconcileCard(cards[t], answer))
  /\ UNCHANGED workers

ReconcileDryRun(t) ==
  /\ CanReconcile(cards[t])
  /\ \E answer \in StatusAnswers(cards[t].dispatchId) :
       Write(t, ReconcileDryRunCard(cards[t], answer))
  /\ UNCHANGED workers

\* The stall phase fails a dispatched card; how long it ran is left open.
StallFail(t) == Fail(t)

-----------------------------------------------------------------------------
\* A worker replaces the Result section of its card, whatever became of it.
WorkerWrites(d) ==
  /\ Running(d)
  /\ \E text \in TextsOf(d) :
       LET t == workers[d].ticket IN Write(t, [cards[t] EXCEPT !.result = text])
  /\ UNCHANGED workers

WorkerEnds(d) == End(d) /\ UNCHANGED cards

Command(t) ==
  \/ Dispatch(t) \/ DispatchLost(t)
  \/ Complete(t) \/ Fail(t) \/ Cancel(t)
  \/ Reopen(t) \/ Block(t) \/ Close(t)
  \/ Reconcile(t) \/ ReconcileDryRun(t) \/ StallFail(t)

Next ==
  \/ \E t \in Tickets : Command(t)
  \/ \E d \in Dispatches : WorkerWrites(d) \/ WorkerEnds(d)

Spec == Init /\ [][Next]_vars

-----------------------------------------------------------------------------
\* Every card on disk is one the commands can make sense of: its dispatch
\* fields, block reason, outcome, warnings and Result fit its status, and a
\* ticket that may still run has retries left.  (Every command's write.)
CardsOK == \A t \in Tickets : CardOK(cards[t])

\* A dispatched card names a worker that was started for this very ticket,
\* and the newest one, so reconcile never judges a try by an older worker.
CurrentDispatchIsNewest ==
  \A t \in Tickets :
    cards[t].status = "dispatched" =>
      /\ cards[t].dispatchId \in Dispatches
      /\ workers[cards[t].dispatchId].ticket = t
      /\ \A d \in Dispatches :
           workers[d].ticket = t => d <= cards[t].dispatchId

\* What a worker wrote is never lost to a command: a Result leaves the
\* section only for the archive in the log, or to a newer text of a worker,
\* and the archive only grows.  (reopen and close archive; cancel, fail and
\* block must leave the section alone.)
ResultsKept ==
  [][\A t \in Tickets :
       /\ cards[t].archive \subseteq cards'[t].archive
       /\ cards'[t].result = NoResult =>
            cards[t].result \in cards'[t].archive \cup {NoResult}]_vars

\* Seen through status and attempts alone, the commands do what TicketFsm
\* promises: gated starts, auto-block at the budget, closed for good.
Statuses == [t \in Tickets |-> cards[t].status]
Tries == [t \in Tickets |-> cards[t].attempts]
Abstract ==
  INSTANCE TicketFsm WITH status <- Statuses, attempts <- Tries, Budget <- MaxRetry
ImplementsTicketFsm == Abstract!Spec

=============================================================================
