-------------------------- MODULE LifecycleProofs --------------------------
(***************************************************************************)
(* Lifecycle for every tree of tickets, every max_retry, every number of   *)
(* dispatches and every fault: the inductive invariant, the refinement of  *)
(* TicketFsm, the results that are kept, and, with the history variables   *)
(* of LifecycleHistory, how often a ticket fails between two blocks.       *)
(***************************************************************************)
EXTENDS LifecycleHistory, CardsProofs

Inv == TypeOK /\ CardsOK /\ CurrentDispatchIsNewest

\* What the commands come to: the card w that one of them writes for t.
Step(t, w) ==
  LET c == cards[t] IN
  \/ /\ MayDispatch(t) /\ Launch(t)
     /\ Moves(c, w, "dispatched") /\ w.dispatchId = NextDispatch
  \/ /\ UNCHANGED workers
     /\ \/ c.status = "dispatched" /\ (Reconciles(c, w) \/ Moves(c, w, "open"))
        \/ /\ c.status \in {"failed", "done", "blocked"}
           /\ w.status = "open" /\ Keeps(c, w)
           /\ w.attempts = IF c.status = "failed" THEN c.attempts + 1 ELSE c.attempts
        \/ c.status \in {"open", "failed"} /\ Moves(c, w, "blocked")
        \/ c.status \in {"open", "failed", "done"} /\ Moves(c, w, "closed")

-----------------------------------------------------------------------------
LEMMA InitInv == Init => Inv
<1> SUFFICES ASSUME Init PROVE Inv
  OBVIOUS
<1>1. TypeOK
  BY NewCardOK DEF Init, TypeOK
<1>2. CardsOK
  BY NewCardOK DEF Init, CardsOK
<1>3. \A t \in Tickets : cards[t].status = "open"
  BY DEF Init, NewCard
<1>4. CurrentDispatchIsNewest
  BY <1>3 DEF CurrentDispatchIsNewest
<1> QED BY <1>1, <1>2, <1>4 DEF Inv

\* A sound card written in place of a sound card leaves the tree sound.
LEMMA WriteKeepsCards ==
  ASSUME TypeOK, CardsOK, NEW t \in Tickets, NEW w \in Card, CardOK(w), Write(t, w)
  PROVE  /\ cards' \in [Tickets -> Card]
         /\ CardsOK'
         /\ cards'[t] = w
         /\ \A u \in Tickets \ {t} : cards'[u] = cards[u]
BY DEF TypeOK, CardsOK, Write

\* A write that does not start a dispatch leaves every dispatch what it was.
LEMMA WriteKeepsNewest ==
  ASSUME TypeOK, CurrentDispatchIsNewest, NEW t \in Tickets, NEW w \in Card,
         Write(t, w), UNCHANGED workers,
         w.status = "dispatched" => /\ cards[t].status = "dispatched"
                                    /\ w.dispatchId = cards[t].dispatchId
  PROVE  CurrentDispatchIsNewest'
BY DEF TypeOK, CurrentDispatchIsNewest, Write, Dispatches

-----------------------------------------------------------------------------
LEMMA CommandSteps ==
  ASSUME Inv, NEW t \in Tickets, Command(t), ~DispatchLost(t)
  PROVE  \E w \in Card : CardOK(w) /\ Write(t, w) /\ Step(t, w)
<1> DEFINE c == cards[t]
<1>1. c \in Card /\ CardOK(c)
  BY DEF Inv, TypeOK, CardsOK
<1> HIDE DEF c
<1>2. CASE Dispatch(t)
  <2>1. MayDispatch(t) /\ Launch(t) /\ CanDispatch(c)
    BY <1>2 DEF Dispatch, MayDispatch, c
  <2>2. PICK session \in BOOLEAN : Write(t, DispatchCard(c, NextDispatch, session))
    BY <1>2 DEF Dispatch, c
  <2>3. NextDispatch \in DispatchId
    BY <2>1, LaunchAppends DEF Inv, TypeOK
  <2> QED BY <1>1, <2>1, <2>2, <2>3, DispatchKeepsCardOK DEF Step, c
<1>3. CASE Complete(t)
  <2>1. CanComplete(c) /\ Write(t, CompleteCard(c)) /\ UNCHANGED workers
    BY <1>3 DEF Complete, c
  <2>2. c.status = "dispatched" /\ c.result # NoResult
    BY <2>1 DEF CanComplete
  <2> QED BY <1>1, <2>1, <2>2, CompleteKeepsCardOK DEF Step, Reconciles, c
<1>4. CASE Fail(t) \/ StallFail(t)
  <2>1. CanFail(c) /\ Write(t, FailCard(c)) /\ UNCHANGED workers
    BY <1>4 DEF Fail, StallFail, c
  <2>2. c.status = "dispatched"
    BY <2>1 DEF CanFail
  <2> QED BY <1>1, <2>1, <2>2, FailKeepsCardOK DEF Step, Reconciles, c
<1>5. CASE Cancel(t)
  <2>1. CanCancel(c) /\ Write(t, CancelCard(c)) /\ UNCHANGED workers
    BY <1>5 DEF Cancel, c
  <2>2. c.status = "dispatched"
    BY <2>1 DEF CanCancel
  <2> QED BY <1>1, <2>1, <2>2, CancelKeepsCardOK DEF Step, c
<1>6. CASE Reopen(t)
  <2>1. CanReopen(c) /\ Write(t, ReopenCard(c)) /\ UNCHANGED workers
    BY <1>6 DEF Reopen, c
  <2>2. c.status \in {"failed", "done", "blocked"}
    BY <1>1, <2>1, WhereApplies DEF CanReopen, Card
  <2> QED BY <1>1, <2>1, <2>2, ReopenKeepsCardOK DEF Step, c
<1>7. CASE Block(t)
  <2>1. CanBlock(c) /\ Write(t, BlockCard(c)) /\ UNCHANGED workers
    BY <1>7 DEF Block, c
  <2>2. c.status \in {"open", "failed"}
    BY <2>1 DEF CanBlock
  <2> QED BY <1>1, <2>1, <2>2, BlockKeepsCardOK DEF Step, c
<1>8. CASE Close(t)
  <2>1. CanClose(c) /\ Write(t, CloseCard(c)) /\ UNCHANGED workers
    BY <1>8 DEF Close, c
  <2>2. c.status \in {"open", "failed", "done"}
    BY <1>1, <2>1, WhereApplies DEF CanClose, Card
  <2> QED BY <1>1, <2>1, <2>2, CloseKeepsCardOK DEF Step, c
<1>9. CASE Reconcile(t)
  <2>1. PICK answer \in Answer : Write(t, ReconcileCard(c, answer))
    BY <1>9, AnswersAreAnswers DEF Reconcile, c
  <2>2. CanReconcile(c) /\ c.status = "dispatched" /\ UNCHANGED workers
    BY <1>9 DEF Reconcile, CanReconcile, c
  <2> QED BY <1>1, <2>1, <2>2, ReconcileKeepsCardOK DEF Step, c
<1>10. CASE ReconcileDryRun(t)
  <2>1. PICK answer \in Answer : Write(t, ReconcileDryRunCard(c, answer))
    BY <1>10, AnswersAreAnswers DEF ReconcileDryRun, c
  <2>2. CanReconcile(c) /\ c.status = "dispatched" /\ UNCHANGED workers
    BY <1>10 DEF ReconcileDryRun, CanReconcile, c
  <2> QED BY <1>1, <2>1, <2>2, DryRunKeepsCardOK DEF Step, c
<1> QED
  BY <1>2, <1>3, <1>4, <1>5, <1>6, <1>7, <1>8, <1>9, <1>10 DEF Command

\* A worker's write changes the Result of one card and nothing else.
LEMMA WorkerWriteSteps ==
  ASSUME Inv, NEW d \in Dispatches, WorkerWrites(d)
  PROVE  /\ workers[d].ticket \in Tickets
         /\ \E text \in Text :
              Write(workers[d].ticket, [cards[workers[d].ticket] EXCEPT !.result = text])
         /\ UNCHANGED workers
<1>1. TextsOf(d) \subseteq Text /\ workers[d].ticket \in Tickets
  BY TextsAreTexts DEF Inv, TypeOK
<1>2. PICK text \in TextsOf(d) :
        Write(workers[d].ticket, [cards[workers[d].ticket] EXCEPT !.result = text])
  BY DEF WorkerWrites
<1> QED BY <1>1, <1>2 DEF WorkerWrites

LEMMA WorkerEndSteps ==
  ASSUME Inv, NEW d \in Dispatches, WorkerEnds(d)
  PROVE  /\ workers' \in Seq(Worker)
         /\ Dispatches' = Dispatches
         /\ \A e \in Dispatches : workers'[e].ticket = workers[e].ticket
         /\ UNCHANGED cards
BY EndSteps DEF WorkerEnds, Inv, TypeOK

-----------------------------------------------------------------------------
LEMMA LaunchKeepsNewest ==
  ASSUME Inv, NEW t \in Tickets, NEW w \in Card, Launch(t), Write(t, w),
         w.status = "dispatched" => w.dispatchId = NextDispatch,
         cards[t].status = "open"
  PROVE  CurrentDispatchIsNewest'
<1>1. /\ Dispatches' = Dispatches \cup {NextDispatch}
      /\ NextDispatch \in DispatchId
      /\ \A d \in Dispatches : workers'[d] = workers[d] /\ d < NextDispatch
      /\ workers'[NextDispatch].ticket = t
  BY LaunchAppends DEF Inv, TypeOK
<1>2. cards'[t] = w /\ \A u \in Tickets \ {t} : cards'[u] = cards[u]
  BY DEF Inv, TypeOK, Write
<1>3. \A d \in Dispatches : d \in Int
  BY DEF Dispatches
<1>4. ASSUME NEW u \in Tickets, cards'[u].status = "dispatched"
      PROVE  /\ cards'[u].dispatchId \in Dispatches'
             /\ workers'[cards'[u].dispatchId].ticket = u
             /\ \A d \in Dispatches' :
                  workers'[d].ticket = u => d <= cards'[u].dispatchId
  <2>1. CASE u = t
    <3>1. cards'[u].dispatchId = NextDispatch
      BY <1>2, <1>4, <2>1
    <3> QED BY <1>1, <1>3, <2>1, <3>1 DEF DispatchId
  <2>2. CASE u # t
    <3>1. /\ cards[u].dispatchId \in Dispatches
          /\ workers[cards[u].dispatchId].ticket = u
          /\ \A d \in Dispatches : workers[d].ticket = u => d <= cards[u].dispatchId
      BY <1>2, <1>4, <2>2 DEF Inv, CurrentDispatchIsNewest
    <3> QED BY <1>1, <1>2, <2>2, <3>1
  <2> QED BY <2>1, <2>2
<1> QED BY <1>4 DEF CurrentDispatchIsNewest

LEMMA NextInv == Inv /\ [Next]_vars => Inv'
<1> SUFFICES ASSUME Inv, [Next]_vars PROVE Inv'
  OBVIOUS
<1>1. ASSUME NEW t \in Tickets, Command(t), ~DispatchLost(t) PROVE Inv'
  <2>1. PICK w \in Card : CardOK(w) /\ Write(t, w) /\ Step(t, w)
    BY <1>1, CommandSteps
  <2>2. cards' \in [Tickets -> Card] /\ CardsOK'
    BY <2>1, WriteKeepsCards DEF Inv
  <2>3. CASE MayDispatch(t) /\ Launch(t) /\ w.dispatchId = NextDispatch
    <3>1. cards[t].status = "open"
      BY <2>3 DEF MayDispatch, CanDispatch
    <3>2. workers' \in Seq(Worker)
      BY <2>3, LaunchAppends DEF Inv, TypeOK
    <3> QED BY <2>1, <2>2, <2>3, <3>1, <3>2, LaunchKeepsNewest DEF Inv, TypeOK
  <2>4. CASE /\ UNCHANGED workers
             /\ w.status = "dispatched" => /\ cards[t].status = "dispatched"
                                           /\ w.dispatchId = cards[t].dispatchId
    BY <2>1, <2>2, <2>4, WriteKeepsNewest DEF Inv, TypeOK
  <2> QED BY <2>1, <2>3, <2>4 DEF Step, Reconciles, Moves
<1>2. ASSUME NEW t \in Tickets, DispatchLost(t) PROVE Inv'
  <2>1. MayDispatch(t) /\ Launch(t) /\ UNCHANGED cards
    BY <1>2 DEF DispatchLost
  <2>2. cards[t].status = "open" /\ cards[t] \in Card /\ Write(t, cards[t])
    BY <2>1 DEF MayDispatch, CanDispatch, Write, Inv, TypeOK
  <2>3. workers' \in Seq(Worker)
    BY <2>1, LaunchAppends DEF Inv, TypeOK
  <2>4. CurrentDispatchIsNewest'
    BY <2>1, <2>2, LaunchKeepsNewest
  <2> QED BY <2>1, <2>3, <2>4 DEF Inv, TypeOK, CardsOK
<1>3. ASSUME NEW d \in Dispatches, WorkerWrites(d) PROVE Inv'
  <2> DEFINE t == workers[d].ticket
  <2>1. PICK text \in Text : Write(t, [cards[t] EXCEPT !.result = text])
    BY <1>3, WorkerWriteSteps
  <2>2. t \in Tickets /\ UNCHANGED workers
    BY <1>3, WorkerWriteSteps
  <2> HIDE DEF t
  <2>3. cards[t] \in Card /\ CardOK(cards[t])
    BY <2>2 DEF Inv, TypeOK, CardsOK
  <2> DEFINE w == [cards[t] EXCEPT !.result = text]
  <2>4. w \in Card /\ CardOK(w)
    BY <2>3, ResultKeepsCardOK
  <2>5. w.status = cards[t].status /\ w.dispatchId = cards[t].dispatchId
    BY <2>3 DEF Card
  <2> HIDE DEF w
  <2>6. cards' \in [Tickets -> Card] /\ CardsOK'
    BY <2>1, <2>2, <2>4, WriteKeepsCards DEF Inv, w
  <2>7. CurrentDispatchIsNewest'
    BY <2>1, <2>2, <2>4, <2>5, WriteKeepsNewest DEF Inv, w
  <2> QED BY <2>2, <2>6, <2>7 DEF Inv, TypeOK
<1>4. ASSUME NEW d \in Dispatches, WorkerEnds(d) PROVE Inv'
  BY <1>4, WorkerEndSteps DEF Inv, TypeOK, CardsOK, CurrentDispatchIsNewest
<1>5. ASSUME UNCHANGED vars PROVE Inv'
  BY <1>5 DEF Inv, TypeOK, CardsOK, CurrentDispatchIsNewest, Dispatches, vars
<1> QED BY <1>1, <1>2, <1>3, <1>4, <1>5 DEF Next

\* The cards always have the shape the program reads, the workers too.
THEOREM LifecycleTypeOK == Spec => []TypeOK
<1>1. Inv => TypeOK
  BY DEF Inv
<1> QED BY InitInv, NextInv, <1>1, PTL DEF Spec

\* Every card on disk is sound after any sequence of commands, whoever runs
\* them and whatever agent-mux answers.
THEOREM LifecycleCardsOK == Spec => []CardsOK
<1>1. Inv => CardsOK
  BY DEF Inv
<1> QED BY InitInv, NextInv, <1>1, PTL DEF Spec

\* A dispatched card is always judged by the newest worker of its ticket.
THEOREM LifecycleNewest == Spec => []CurrentDispatchIsNewest
<1>1. Inv => CurrentDispatchIsNewest
  BY DEF Inv
<1> QED BY InitInv, NextInv, <1>1, PTL DEF Spec

-----------------------------------------------------------------------------
(* The commands implement TicketFsm, and lose no Result. *)

\* A write of one card is one entry of each abstract function.
LEMMA WriteSeenAbstractly ==
  ASSUME Inv, NEW t \in Tickets, NEW w \in Card, Write(t, w)
  PROVE  /\ Statuses' = [Statuses EXCEPT ![t] = w.status]
         /\ Tries' = [Tries EXCEPT ![t] = w.attempts]
         /\ w.attempts = cards[t].attempts => Tries' = Tries
<1>1. cards' = [u \in Tickets |-> IF u = t THEN w ELSE cards[u]]
  BY DEF Inv, TypeOK, Write
<1> QED BY <1>1 DEF Statuses, Tries

LEMMA StepRefines ==
  ASSUME Inv, NEW t \in Tickets, NEW w \in Card, Write(t, w), Step(t, w)
  PROVE  Abstract!Next \/ (Statuses' = Statuses /\ Tries' = Tries)
<1> DEFINE c == cards[t]
<1>1. /\ Statuses' = [Statuses EXCEPT ![t] = w.status]
      /\ Tries' = [Tries EXCEPT ![t] = w.attempts]
      /\ w.attempts = c.attempts => Tries' = Tries
      /\ Statuses[t] = c.status /\ Tries[t] = c.attempts
  BY WriteSeenAbstractly DEF Statuses, Tries
<1>2. CASE /\ MayDispatch(t) /\ Moves(c, w, "dispatched")
  <2>1. /\ \A d \in DependsOn[t] : Statuses[d] = "done"
        /\ \A a \in Awaits[t] : Statuses[a] \in Abstract!Resting
    BY <1>2, DependenciesAssumption
       DEF MayDispatch, Statuses, Abstract!Resting, IsTerminal
  <2>2. Statuses[t] = "open"
    BY <1>1, <1>2 DEF MayDispatch, CanDispatch
  <2>3. Abstract!Start(t)
    BY <1>1, <1>2, <2>1, <2>2 DEF Abstract!Start, Abstract!Move, Moves, Statuses, Tries
  <2> QED BY <2>3 DEF Abstract!Next
<1>3. CASE c.status = "dispatched" /\ Moves(c, w, "dispatched")
  BY <1>1, <1>3 DEF Moves, Statuses
<1>4. CASE c.status = "dispatched" /\ Moves(c, w, "done")
  <2>1. Abstract!Finish(t)
    BY <1>1, <1>4 DEF Abstract!Finish, Abstract!Move, Moves, Statuses, Tries
  <2> QED BY <2>1 DEF Abstract!Next
<1>5. CASE /\ c.status = "dispatched"
           /\ Moves(c, w, IF c.attempts + 1 < MaxRetry THEN "failed" ELSE "blocked")
  <2>1. Abstract!Fail(t)
    BY <1>1, <1>5 DEF Abstract!Fail, Abstract!Move, Moves, Statuses, Tries
  <2> QED BY <2>1 DEF Abstract!Next
<1>6. CASE c.status = "dispatched" /\ Moves(c, w, "open")
  <2>1. Abstract!GiveBack(t)
    BY <1>1, <1>6 DEF Abstract!GiveBack, Abstract!Move, Moves, Statuses, Tries
  <2> QED BY <2>1 DEF Abstract!Next
<1>7. CASE c.status = "failed" /\ w.status = "open" /\ w.attempts = c.attempts + 1
  <2>1. Abstract!Retry(t)
    BY <1>1, <1>7 DEF Abstract!Retry, Abstract!Move, Statuses, Tries
  <2> QED BY <2>1 DEF Abstract!Next
<1>8. CASE c.status \in {"done", "blocked"} /\ w.status = "open" /\ w.attempts = c.attempts
  <2>1. Abstract!TakeUpAgain(t)
    BY <1>1, <1>8 DEF Abstract!TakeUpAgain, Abstract!Move, Statuses, Tries
  <2> QED BY <2>1 DEF Abstract!Next
<1>9. CASE c.status \in {"open", "failed"} /\ Moves(c, w, "blocked")
  <2>1. Abstract!Block(t)
    BY <1>1, <1>9 DEF Abstract!Block, Abstract!Move, Moves, Statuses, Tries
  <2> QED BY <2>1 DEF Abstract!Next
<1>10. CASE c.status \in {"open", "failed", "done"} /\ Moves(c, w, "closed")
  <2>1. Abstract!Close(t)
    BY <1>1, <1>10 DEF Abstract!Close, Abstract!Move, Moves, Statuses, Tries
  <2> QED BY <2>1 DEF Abstract!Next
<1> QED
  BY <1>2, <1>3, <1>4, <1>5, <1>6, <1>7, <1>8, <1>9, <1>10 DEF Step, Reconciles

LEMMA WorkerWriteUnseen ==
  ASSUME Inv, NEW d \in Dispatches, WorkerWrites(d)
  PROVE  Statuses' = Statuses /\ Tries' = Tries
<1>1. PICK text \in Text :
        Write(workers[d].ticket, [cards[workers[d].ticket] EXCEPT !.result = text])
  BY WorkerWriteSteps
<1> DEFINE t == workers[d].ticket
           w == [cards[t] EXCEPT !.result = text]
<1>2. t \in Tickets
  BY WorkerWriteSteps
<1> HIDE DEF t
<1>3. cards[t] \in Card
  BY <1>2 DEF Inv, TypeOK
<1>4. w \in Card /\ w.status = cards[t].status /\ w.attempts = cards[t].attempts
  BY <1>3 DEF Card
<1>5. Write(t, w)
  BY <1>1 DEF t
<1> HIDE DEF w
<1>6. Statuses' = [Statuses EXCEPT ![t] = cards[t].status] /\ Tries' = Tries
  BY <1>2, <1>4, <1>5, WriteSeenAbstractly
<1> QED BY <1>2, <1>6 DEF Statuses

\* Every behaviour of the commands is one of TicketFsm: a ticket starts only
\* when its dependencies let it, a failure blocks it exactly when the budget
\* is spent, attempts count the retries, and closed is final.
THEOREM LifecycleImplementsTicketFsm == Spec => ImplementsTicketFsm
<1>1. Init => Abstract!Init
  BY DEF Init, Abstract!Init, NewCard, Statuses, Tries
<1>2. Inv /\ [Next]_vars => [Abstract!Next]_<<Statuses, Tries>>
  <2> SUFFICES ASSUME Inv, [Next]_vars
               PROVE  [Abstract!Next]_<<Statuses, Tries>>
    OBVIOUS
  <2>1. ASSUME NEW t \in Tickets, Command(t), ~DispatchLost(t)
        PROVE  Abstract!Next \/ (Statuses' = Statuses /\ Tries' = Tries)
    BY <2>1, CommandSteps, StepRefines
  <2>2. ASSUME UNCHANGED cards PROVE Statuses' = Statuses /\ Tries' = Tries
    BY <2>2 DEF Statuses, Tries
  <2>3. ASSUME NEW d \in Dispatches, WorkerWrites(d)
        PROVE  Statuses' = Statuses /\ Tries' = Tries
    BY <2>3, WorkerWriteUnseen
  <2> QED BY <2>1, <2>2, <2>3 DEF Next, Command, DispatchLost, WorkerEnds, vars
<1> QED
  BY InitInv, NextInv, <1>1, <1>2, PTL
     DEF Spec, ImplementsTicketFsm, Abstract!Spec

\* A worker's text leaves the Result section only for the archive or for a
\* newer text, and the archive only grows.
THEOREM LifecycleResultsKept == Spec => ResultsKept
<1> DEFINE Kept == \A t \in Tickets :
       /\ cards[t].archive \subseteq cards'[t].archive
       /\ cards'[t].result = NoResult =>
            cards[t].result \in cards'[t].archive \cup {NoResult}
<1>1. Inv /\ [Next]_vars => [Kept]_vars
  <2> SUFFICES ASSUME Inv, Next PROVE Kept
    BY DEF vars
  <2>1. ASSUME NEW t \in Tickets, NEW w \in Card, Write(t, w),
               cards[t].archive \subseteq w.archive,
               w.result = NoResult => cards[t].result \in w.archive \cup {NoResult}
        PROVE  Kept
    BY <2>1 DEF Inv, TypeOK, Write
  <2>2. ASSUME NEW t \in Tickets, Command(t), ~DispatchLost(t) PROVE Kept
    <3>1. PICK w \in Card : Write(t, w) /\ Step(t, w)
      BY <2>2, CommandSteps
    <3>2. Keeps(cards[t], w)
      BY <3>1 DEF Step, Reconciles, Moves
    <3> QED BY <2>1, <3>1, <3>2 DEF Keeps
  <2>3. ASSUME UNCHANGED cards PROVE Kept
    BY <2>3
  <2>4. ASSUME NEW d \in Dispatches, WorkerWrites(d) PROVE Kept
    <3> DEFINE t == workers[d].ticket
    <3>1. PICK text \in Text : Write(t, [cards[t] EXCEPT !.result = text])
      BY <2>4, WorkerWriteSteps
    <3>2. t \in Tickets /\ text # NoResult
      BY <2>4, WorkerWriteSteps DEF Text, NoResult, DispatchId
    <3> HIDE DEF t
    <3> DEFINE w == [cards[t] EXCEPT !.result = text]
    <3>3. w \in Card /\ w.archive = cards[t].archive /\ w.result = text
      BY <3>2 DEF Inv, TypeOK, Card
    <3> QED BY <2>1, <3>1, <3>2, <3>3
  <2> QED BY <2>2, <2>3, <2>4 DEF Next, Command, DispatchLost, WorkerEnds
<1> QED BY InitInv, NextInv, <1>1, PTL DEF Spec, ResultsKept

-----------------------------------------------------------------------------
(* The failures between two blocks. *)

HInv == Inv /\ FailuresCounted

LEMMA HInitInv == HInit => HInv
<1> SUFFICES ASSUME HInit PROVE HInv
  OBVIOUS
<1>1. Inv
  BY InitInv DEF HInit
<1>2. \A t \in Tickets : cards[t].status = "open" /\ cards[t].attempts \in Nat
  BY DEF HInit, Init, NewCard
<1>3. \A t \in Tickets : sinceBlock[t] = 0
  BY DEF HInit
<1> QED BY <1>1, <1>2, <1>3 DEF HInv, FailuresCounted

\* The count of one ticket, as the step of that ticket moves it.
Counted(c, n) ==
  /\ n \in Nat
  /\ c.status # "blocked" =>
       n <= IF c.status \in {"failed", "closed"} THEN c.attempts + 1 ELSE c.attempts
  /\ c.status = "blocked" => n <= MaxRetry

Count(c, w, n) ==
  IF c.status = "blocked" /\ w.status # "blocked" THEN 0
  ELSE IF c.status = "dispatched" /\ w.status \in {"failed", "blocked"} THEN n + 1 ELSE n

LEMMA CountStep ==
  ASSUME NEW t \in Tickets, NEW w \in Card, Step(t, w),
         cards[t] \in Card, CardOK(cards[t]), NEW n \in Nat, Counted(cards[t], n)
  PROVE  Counted(w, Count(cards[t], w, n))
<1> DEFINE c == cards[t]
<1>1. /\ c.attempts \in Nat /\ w.attempts \in Nat
      /\ c.attempts < MaxRetry /\ MaxRetry \in Nat
      /\ c.status = "failed" => c.attempts + 1 < MaxRetry
  BY MaxRetryPositive DEF Card, CardOK, WithinRetryBudget
<1>2. CASE c.status = "open" /\ Moves(c, w, "dispatched")
  BY <1>1, <1>2 DEF Counted, Count, Moves
<1>3. CASE c.status = "dispatched" /\ \E to \in {"dispatched", "done", "open"} : Moves(c, w, to)
  BY <1>1, <1>3 DEF Counted, Count, Moves
<1>4. CASE /\ c.status = "dispatched"
           /\ Moves(c, w, IF c.attempts + 1 < MaxRetry THEN "failed" ELSE "blocked")
  <2>1. CASE c.attempts + 1 < MaxRetry
    BY <1>1, <1>4, <2>1 DEF Counted, Count, Moves
  <2>2. CASE ~(c.attempts + 1 < MaxRetry)
    BY <1>1, <1>4, <2>2 DEF Counted, Count, Moves
  <2> QED BY <2>1, <2>2
<1>5. CASE /\ c.status \in {"failed", "done", "blocked"} /\ w.status = "open"
           /\ w.attempts = IF c.status = "failed" THEN c.attempts + 1 ELSE c.attempts
  BY <1>1, <1>5 DEF Counted, Count
<1>6. CASE c.status \in {"open", "failed"} /\ Moves(c, w, "blocked")
  BY <1>1, <1>6 DEF Counted, Count, Moves
<1>7. CASE c.status \in {"open", "failed", "done"} /\ Moves(c, w, "closed")
  BY <1>1, <1>7 DEF Counted, Count, Moves
<1> QED
  BY <1>2, <1>3, <1>4, <1>5, <1>6, <1>7 DEF Step, Reconciles, MayDispatch, CanDispatch

LEMMA HNextInv == HInv /\ [HNext]_hvars => HInv'
<1> SUFFICES ASSUME HInv, [HNext]_hvars PROVE HInv'
  OBVIOUS
<1>1. Inv'
  BY NextInv DEF HInv, HNext, hvars, vars
<1>2. CASE UNCHANGED hvars
  BY <1>1, <1>2 DEF HInv, FailuresCounted, hvars
<1>3. CASE HNext
  <2>1. \A t \in Tickets : sinceBlock'[t] = Count(cards[t], cards'[t], sinceBlock[t])
    BY <1>3 DEF HNext, Count, Leaves, FailsIn
  <2>2. \A t \in Tickets : Counted(cards[t], sinceBlock[t]) /\ sinceBlock[t] \in Nat
    BY DEF HInv, FailuresCounted, Counted
  <2>3. \A t \in Tickets : cards[t] \in Card /\ CardOK(cards[t])
    BY DEF HInv, Inv, TypeOK, CardsOK
  <2>4. ASSUME NEW t \in Tickets,
               /\ cards'[t].status = cards[t].status
               /\ cards'[t].attempts = cards[t].attempts
        PROVE  Counted(cards'[t], Count(cards[t], cards'[t], sinceBlock[t]))
    BY <2>2, <2>4 DEF Counted, Count
  <2>5. ASSUME NEW u \in Tickets, Command(u), ~DispatchLost(u), NEW t \in Tickets
        PROVE  Counted(cards'[t], Count(cards[t], cards'[t], sinceBlock[t]))
    <3>1. PICK w \in Card : Write(u, w) /\ Step(u, w)
      BY <2>5, CommandSteps DEF HInv
    <3>2. CASE t = u
      <4>1. cards'[t] = w
        BY <3>1, <3>2 DEF HInv, Inv, TypeOK, Write
      <4> QED BY <2>2, <2>3, <3>1, <3>2, <4>1, CountStep
    <3>3. CASE t # u
      BY <2>4, <3>1, <3>3 DEF HInv, Inv, TypeOK, Write
    <3> QED BY <3>2, <3>3
  <2>6. ASSUME Statuses' = Statuses, Tries' = Tries, NEW t \in Tickets
        PROVE  Counted(cards'[t], Count(cards[t], cards'[t], sinceBlock[t]))
    <3>1. /\ Statuses[t] = cards[t].status /\ Statuses'[t] = cards'[t].status
          /\ Tries[t] = cards[t].attempts /\ Tries'[t] = cards'[t].attempts
      BY DEF Statuses, Tries
    <3> QED BY <2>4, <2>6, <3>1
  <2>7. ASSUME UNCHANGED cards PROVE Statuses' = Statuses /\ Tries' = Tries
    BY <2>7 DEF Statuses, Tries
  <2>8. ASSUME NEW d \in Dispatches, WorkerWrites(d)
        PROVE  Statuses' = Statuses /\ Tries' = Tries
    BY <2>8, WorkerWriteUnseen DEF HInv
  <2>9. \A t \in Tickets : Counted(cards'[t], Count(cards[t], cards'[t], sinceBlock[t]))
    BY <1>3, <2>5, <2>6, <2>7, <2>8 DEF HNext, Next, Command, DispatchLost, WorkerEnds
  <2> QED BY <1>1, <2>1, <2>9 DEF HInv, FailuresCounted, Counted
<1> QED BY <1>2, <1>3

\* A ticket never fails more than max_retry times without a block that a
\* person has to lift, whatever else happens to it in between.
THEOREM HistoryFailuresBounded == HSpec => []FailuresBounded
<1>1. HInv => FailuresBounded
  <2> SUFFICES ASSUME HInv, NEW t \in Tickets PROVE sinceBlock[t] <= MaxRetry
    BY DEF FailuresBounded
  <2>1. /\ cards[t].attempts \in Nat /\ cards[t].attempts < MaxRetry /\ MaxRetry \in Nat
        /\ sinceBlock[t] \in Nat
    BY MaxRetryPositive DEF HInv, Inv, TypeOK, CardsOK, CardOK, Card, WithinRetryBudget,
       FailuresCounted
  <2> QED BY <2>1 DEF HInv, FailuresCounted
<1> QED BY HInitInv, HNextInv, <1>1, PTL DEF HSpec
=============================================================================
