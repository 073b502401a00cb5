---------------------------- MODULE CardsProofs ----------------------------
(***************************************************************************)
(* What every command's write does to a card, for any max_retry.           *)
(***************************************************************************)
EXTENDS AgentMux, SequenceTheorems, TLAPS

\* fsm.Apply answers exactly these (status, transition) pairs.
LEMMA WhereApplies ==
  ASSUME NEW s \in Status
  PROVE  /\ Applies(s, "dispatch") <=> s = "open"
         /\ Applies(s, "complete") <=> s = "dispatched"
         /\ Applies(s, "fail") <=> s = "dispatched"
         /\ Applies(s, "cancel") <=> s = "dispatched"
         /\ Applies(s, "block") <=> s \in {"open", "failed"}
         /\ Applies(s, "reopen") <=> s \in {"failed", "blocked", "done"}
         /\ Applies(s, "close") <=> s \in {"open", "failed", "done"}
<1>1. CASE s = "open"
  BY <1>1 DEF Applies, transitions
<1>2. CASE s = "dispatched"
  BY <1>2 DEF Applies, transitions
<1>3. CASE s = "failed"
  BY <1>3 DEF Applies, transitions
<1>4. CASE s = "blocked"
  BY <1>4 DEF Applies, transitions
<1>5. CASE s = "done"
  BY <1>5 DEF Applies, transitions
<1>6. CASE s = "closed"
  BY <1>6 DEF Applies, transitions
<1> QED BY <1>1, <1>2, <1>3, <1>4, <1>5, <1>6 DEF Status

\* The definitions behind those pairs.
LEMMA Table ==
  /\ Apply("open", "dispatch") = Definition("dispatched", {"clearLastOutcome"}, "none")
  /\ Apply("open", "block") = Definition("blocked", {"setBlockReason"}, "none")
  /\ Apply("open", "close") = Definition("closed", {"clearDispatchFields"}, "none")
  /\ Apply("dispatched", "complete") = Definition("done", {}, "none")
  /\ Apply("dispatched", "fail") = Definition("failed", {}, "failed")
  /\ Apply("dispatched", "cancel") = Definition("open", {"clearDispatchFields"}, "cancelled")
  /\ Apply("failed", "reopen") =
       Definition("open", {"incrementAttempts", "clearDispatchFields", "archiveResult"}, "none")
  /\ Apply("failed", "block") = Definition("blocked", {"setBlockReason"}, "none")
  /\ Apply("failed", "close") = Definition("closed", {"clearDispatchFields"}, "none")
  /\ Apply("blocked", "reopen") =
       Definition("open", {"clearDispatchFields", "clearBlockReason"}, "none")
  /\ Apply("done", "reopen") =
       Definition("open", {"clearDispatchFields", "archiveResult"}, "none")
  /\ Apply("done", "close") =
       Definition("closed", {"clearDispatchFields", "archiveResult"}, "none")
BY DEF Apply, transitions

LEMMA MaxRetryPositive == MaxRetry \in Nat \ {0}
BY MaxRetryAssumption DEF MaxRetry

LEMMA NewCardOK == NewCard \in Card /\ CardOK(NewCard)
<1>1. NewCard \in Card
  BY DEF NewCard, Card, Status, Outcome, BlockReason, NoResult, Nil
<1>2. CardOK(NewCard)
  BY MaxRetryPositive DEF NewCard, CardOK, DispatchFieldsMatchStatus,
     BlockReasonMatchesStatus, WithinRetryBudget, WarningsBelowBudget,
     OutcomeMatchesStatus, DoneHasResult, NoResult, Nil
<1> QED BY <1>1, <1>2

-----------------------------------------------------------------------------
(* Each command writes a sound card when it read a sound one, moves it to   *)
(* the status it is named for, and loses no Result.                         *)

Keeps(c, w) ==
  /\ c.archive \subseteq w.archive
  /\ w.result = NoResult => c.result \in w.archive \cup {NoResult}
  /\ w.result \in {c.result, NoResult}

Moves(c, w, to) ==
  /\ w.status = to
  /\ w.attempts = c.attempts
  /\ to # "dispatched" => w.dispatchId \in {c.dispatchId, Nil}
  /\ Keeps(c, w)


LEMMA DispatchKeepsCardOK ==
  ASSUME NEW c \in Card, CardOK(c), CanDispatch(c),
         NEW d \in DispatchId, NEW session \in BOOLEAN
  PROVE  /\ DispatchCard(c, d, session) \in Card
         /\ CardOK(DispatchCard(c, d, session))
         /\ Moves(c, DispatchCard(c, d, session), "dispatched")
         /\ DispatchCard(c, d, session).dispatchId = d
<1> DEFINE w == DispatchCard(c, d, session)
<1>1. Apply(c.status, "dispatch").to = "dispatched"
  BY Table DEF Definition, CanDispatch
<1>2. If("clearLastOutcome", Apply(c.status, "dispatch"), "none", c.outcome) = "none"
  BY Table DEF Definition, CanDispatch, If
<1>3. w = [c EXCEPT !.status = "dispatched", !.dispatchId = d,
                    !.sessionId = IF session THEN d ELSE @,
                    !.outcome = "none", !.warnings = 0]
  BY <1>1, <1>2 DEF DispatchCard, AppendLog, Card
<1> HIDE DEF w
<1>4. w \in Card
  BY <1>3 DEF Card, Status, Outcome, DispatchId
<1>5. CardOK(w)
  BY <1>1, <1>3, MaxRetryPositive DEF CardOK, DispatchFieldsMatchStatus,
     BlockReasonMatchesStatus, WithinRetryBudget, WarningsBelowBudget,
     OutcomeMatchesStatus, DoneHasResult, Card, CanDispatch, DispatchId, Nil
<1>6. Moves(c, w, "dispatched") /\ w.dispatchId = d
  BY <1>3 DEF Moves, Keeps, Card
<1> QED BY <1>4, <1>5, <1>6 DEF w

LEMMA CompleteKeepsCardOK ==
  ASSUME NEW c \in Card, CardOK(c), c.status = "dispatched", c.result # NoResult
  PROVE  /\ CompleteCard(c) \in Card
         /\ CardOK(CompleteCard(c))
         /\ Moves(c, CompleteCard(c), "done")
<1> DEFINE w == CompleteCard(c)
<1>1. Apply(c.status, "complete").to = "done"
  BY Table DEF Definition
<1>2. w = [c EXCEPT !.status = "done", !.warnings = 0]
  BY <1>1 DEF CompleteCard, AppendLog, Card
<1> HIDE DEF w
<1>3. w \in Card
  BY <1>2 DEF Card, Status
<1>4. CardOK(w)
  BY <1>2, MaxRetryPositive DEF CardOK, DispatchFieldsMatchStatus,
     BlockReasonMatchesStatus, WithinRetryBudget, WarningsBelowBudget,
     OutcomeMatchesStatus, DoneHasResult, Card
<1>5. Moves(c, w, "done")
  BY <1>2 DEF Moves, Keeps, Card
<1> QED BY <1>3, <1>4, <1>5 DEF w

\* What fail comes to, with and without the auto-block.
LEMMA FailCardIs ==
  ASSUME NEW c \in Card, c.status = "dispatched"
  PROVE  FailCard(c) =
           IF c.attempts + 1 < MaxRetry
           THEN [c EXCEPT !.status = "failed", !.outcome = "failed", !.warnings = 0]
           ELSE [c EXCEPT !.status = "blocked", !.blockReason = "auto",
                          !.outcome = "failed", !.warnings = 0]
<1> DEFINE def == Apply(c.status, "fail")
           failed == AppendLog(SetOutcome([c EXCEPT !.status = def.to], def))
<1>1. def.to = "failed" /\ def.outcome = "failed"
  BY Table DEF Definition
<1>2. failed = [c EXCEPT !.status = "failed", !.outcome = "failed", !.warnings = 0]
  BY <1>1 DEF AppendLog, SetOutcome, Card
<1>3. ShouldAutoBlock(c.attempts) <=> ~(c.attempts + 1 < MaxRetry)
  BY MaxRetryPositive DEF ShouldAutoBlock, Card
<1>4. failed.status = "failed"
  BY <1>2 DEF Card
<1>5. Apply(failed.status, "block").to = "blocked"
  BY <1>4, Table DEF Definition
<1>6. FailCard(c) = IF ShouldAutoBlock(c.attempts)
                    THEN [failed EXCEPT !.status = "blocked", !.blockReason = "auto"]
                    ELSE failed
  BY <1>5 DEF FailCard
<1> HIDE DEF failed
<1>7. [failed EXCEPT !.status = "blocked", !.blockReason = "auto"]
        = [c EXCEPT !.status = "blocked", !.blockReason = "auto",
                    !.outcome = "failed", !.warnings = 0]
  BY <1>2 DEF Card
<1> QED BY <1>2, <1>3, <1>6, <1>7

LEMMA FailKeepsCardOK ==
  ASSUME NEW c \in Card, CardOK(c), c.status = "dispatched"
  PROVE  /\ FailCard(c) \in Card
         /\ CardOK(FailCard(c))
         /\ Moves(c, FailCard(c), IF c.attempts + 1 < MaxRetry THEN "failed" ELSE "blocked")
<1> DEFINE w == FailCard(c)
<1>1. w = IF c.attempts + 1 < MaxRetry
          THEN [c EXCEPT !.status = "failed", !.outcome = "failed", !.warnings = 0]
          ELSE [c EXCEPT !.status = "blocked", !.blockReason = "auto",
                         !.outcome = "failed", !.warnings = 0]
  BY FailCardIs
<1> HIDE DEF w
<1>2. w \in Card
  BY <1>1 DEF Card, Status, Outcome, BlockReason
<1>3. CardOK(w)
  <2>1. CASE c.attempts + 1 < MaxRetry
    BY <1>1, <2>1, MaxRetryPositive DEF CardOK, DispatchFieldsMatchStatus,
       BlockReasonMatchesStatus, WithinRetryBudget, WarningsBelowBudget,
       OutcomeMatchesStatus, DoneHasResult, Card
  <2>2. CASE ~(c.attempts + 1 < MaxRetry)
    BY <1>1, <2>2, MaxRetryPositive DEF CardOK, DispatchFieldsMatchStatus,
       BlockReasonMatchesStatus, WithinRetryBudget, WarningsBelowBudget,
       OutcomeMatchesStatus, DoneHasResult, Card
  <2> QED BY <2>1, <2>2
<1>4. Moves(c, w, IF c.attempts + 1 < MaxRetry THEN "failed" ELSE "blocked")
  BY <1>1 DEF Moves, Keeps, Card
<1> QED BY <1>2, <1>3, <1>4 DEF w

LEMMA CancelKeepsCardOK ==
  ASSUME NEW c \in Card, CardOK(c), CanCancel(c)
  PROVE  /\ CancelCard(c) \in Card
         /\ CardOK(CancelCard(c))
         /\ Moves(c, CancelCard(c), "open")
<1> DEFINE w == CancelCard(c)
<1>1. c.status = "dispatched"
  BY DEF CanCancel
<1>2. /\ Apply(c.status, "cancel").to = "open"
      /\ Apply(c.status, "cancel").outcome = "cancelled"
      /\ "clearDispatchFields" \in Apply(c.status, "cancel").flags
  BY <1>1, Table DEF Definition
<1>3. w = [c EXCEPT !.status = "open", !.outcome = "cancelled", !.dispatchId = Nil,
                    !.sessionId = Nil, !.warnings = 0]
  BY <1>2 DEF CancelCard, AppendLog, SetOutcome, ClearDispatchFields, If, Card
<1> HIDE DEF w
<1>4. w \in Card
  BY <1>3 DEF Card, Status, Outcome, Nil
<1>5. CardOK(w)
  BY <1>1, <1>3, MaxRetryPositive DEF CardOK, DispatchFieldsMatchStatus,
     BlockReasonMatchesStatus, WithinRetryBudget, WarningsBelowBudget,
     OutcomeMatchesStatus, DoneHasResult, Card, Nil
<1>6. Moves(c, w, "open")
  BY <1>3 DEF Moves, Keeps, Card
<1> QED BY <1>4, <1>5, <1>6 DEF w

LEMMA BlockKeepsCardOK ==
  ASSUME NEW c \in Card, CardOK(c), CanBlock(c)
  PROVE  /\ BlockCard(c) \in Card
         /\ CardOK(BlockCard(c))
         /\ Moves(c, BlockCard(c), "blocked")
<1> DEFINE w == BlockCard(c)
<1>1. c.status \in {"open", "failed"}
  BY DEF CanBlock
<1>2. /\ Apply(c.status, "block").to = "blocked"
      /\ "setBlockReason" \in Apply(c.status, "block").flags
  BY <1>1, Table DEF Definition
<1>3. w = [c EXCEPT !.status = "blocked", !.blockReason = "manual", !.warnings = 0]
  BY <1>2 DEF BlockCard, AppendLog, If, Card
<1> HIDE DEF w
<1>4. w \in Card
  BY <1>3 DEF Card, Status, BlockReason
<1>5. CardOK(w)
  BY <1>1, <1>3, MaxRetryPositive DEF CardOK, DispatchFieldsMatchStatus,
     BlockReasonMatchesStatus, WithinRetryBudget, WarningsBelowBudget,
     OutcomeMatchesStatus, DoneHasResult, Card
<1>6. Moves(c, w, "blocked")
  BY <1>3 DEF Moves, Keeps, Card
<1> QED BY <1>4, <1>5, <1>6 DEF w

\* What reopen and close may do to the Result: leave it, or archive it.
LEMMA ReopenKeepsCardOK ==
  ASSUME NEW c \in Card, CardOK(c), CanReopen(c)
  PROVE  /\ ReopenCard(c) \in Card
         /\ CardOK(ReopenCard(c))
         /\ ReopenCard(c).status = "open"
         /\ ReopenCard(c).attempts = IF c.status = "failed" THEN c.attempts + 1
                                                            ELSE c.attempts
         /\ Keeps(c, ReopenCard(c))
<1> DEFINE w == ReopenCard(c)
           def == Apply(c.status, "reopen")
           moved == [c EXCEPT !.status = "open",
                       !.attempts = IF c.status = "failed" THEN @ + 1 ELSE @,
                       !.blockReason = IF c.status = "blocked" THEN "none" ELSE @]
           cleared == [moved EXCEPT !.dispatchId = Nil, !.sessionId = Nil]
<1>1. c.status \in {"failed", "blocked", "done"}
  BY WhereApplies DEF CanReopen, Card
<1>2. /\ def.to = "open"
      /\ "clearDispatchFields" \in def.flags
      /\ "incrementAttempts" \in def.flags <=> c.status = "failed"
      /\ "clearBlockReason" \in def.flags <=> c.status = "blocked"
      /\ "archiveResult" \in def.flags <=> c.status # "blocked"
  BY <1>1, Table DEF Definition
<1>3. w = IF c.status # "blocked" THEN AppendLog(ArchiveResult(cleared))
                                  ELSE AppendLog(cleared)
  BY <1>2 DEF ReopenCard, If, ClearDispatchFields
<1>4. /\ cleared \in Card
      /\ cleared.status = "open" /\ cleared.dispatchId = Nil /\ cleared.sessionId = Nil
      /\ cleared.attempts < MaxRetry
      /\ cleared.blockReason = "none"
      /\ cleared.outcome = c.outcome
  <2>1. moved \in Card
    <3>1. c.attempts \in Nat /\ c.attempts + 1 \in Nat /\ c.blockReason \in BlockReason
      BY DEF Card
    <3>2. /\ (IF c.status = "failed" THEN c.attempts + 1 ELSE c.attempts) \in Nat
          /\ (IF c.status = "blocked" THEN "none" ELSE c.blockReason) \in BlockReason
      BY <3>1 DEF BlockReason
    <3> QED BY <3>2 DEF Card, Status
  <2>2. moved.attempts < MaxRetry
    BY <1>1, MaxRetryPositive DEF Card, CardOK, WithinRetryBudget
  <2>3. moved.blockReason = "none" /\ moved.status = "open" /\ moved.outcome = c.outcome
    BY <1>1 DEF Card, CardOK, BlockReasonMatchesStatus
  <2> HIDE DEF moved
  <2> QED BY <2>1, <2>2, <2>3 DEF Card, Nil
<1>9. /\ cleared.attempts = IF c.status = "failed" THEN c.attempts + 1 ELSE c.attempts
      /\ cleared.result = c.result /\ cleared.archive = c.archive
  BY DEF Card
<1> HIDE DEF w, moved, cleared
<1>5. ArchiveResult(cleared) \in Card
  BY <1>4 DEF ArchiveResult, Card
<1>6. w \in Card /\ w.status = "open" /\ w.dispatchId = Nil /\ w.sessionId = Nil
  BY <1>3, <1>4, <1>5 DEF AppendLog, ArchiveResult, Card
<1>7. w.attempts < MaxRetry /\ w.blockReason = "none" /\ w.outcome = c.outcome /\ w.warnings = 0
  BY <1>3, <1>4, <1>5 DEF AppendLog, ArchiveResult, Card
<1>8. CardOK(w)
  BY <1>1, <1>6, <1>7, MaxRetryPositive DEF CardOK, DispatchFieldsMatchStatus,
     BlockReasonMatchesStatus, WithinRetryBudget, WarningsBelowBudget,
     OutcomeMatchesStatus, DoneHasResult
<1>10. w.attempts = cleared.attempts /\ Keeps(c, w)
  BY <1>3, <1>4, <1>5, <1>6, <1>9 DEF Keeps, AppendLog, ArchiveResult, Card
<1> QED BY <1>6, <1>8, <1>9, <1>10 DEF w

LEMMA CloseKeepsCardOK ==
  ASSUME NEW c \in Card, CardOK(c), CanClose(c)
  PROVE  /\ CloseCard(c) \in Card
         /\ CardOK(CloseCard(c))
         /\ Moves(c, CloseCard(c), "closed")
<1> DEFINE w == CloseCard(c)
           def == Apply(c.status, "close")
           cleared == [[c EXCEPT !.status = "closed", !.outcome = "closed"]
                         EXCEPT !.dispatchId = Nil, !.sessionId = Nil]
<1>1. c.status \in {"open", "failed", "done"}
  BY WhereApplies DEF CanClose, Card
<1>2. /\ def.to = "closed"
      /\ "clearDispatchFields" \in def.flags
      /\ "archiveResult" \in def.flags <=> c.status = "done"
  BY <1>1, Table DEF Definition
<1>3. w = IF c.status = "done" THEN AppendLog(ArchiveResult(cleared))
                               ELSE AppendLog(cleared)
  BY <1>2 DEF CloseCard, If, ClearDispatchFields
<1>4. /\ cleared \in Card
      /\ cleared.status = "closed" /\ cleared.dispatchId = Nil /\ cleared.sessionId = Nil
      /\ cleared.attempts < MaxRetry
      /\ cleared.blockReason = "none"
      /\ cleared.outcome = "closed"
  BY <1>1 DEF Card, Status, Outcome, BlockReason, Nil, CardOK, WithinRetryBudget,
     BlockReasonMatchesStatus
<1>9. /\ cleared.attempts = c.attempts
      /\ cleared.result = c.result /\ cleared.archive = c.archive
  BY DEF Card
<1> HIDE DEF w, cleared
<1>5. ArchiveResult(cleared) \in Card
  BY <1>4 DEF ArchiveResult, Card
<1>6. w \in Card /\ w.status = "closed" /\ w.dispatchId = Nil /\ w.sessionId = Nil
  BY <1>3, <1>4, <1>5 DEF AppendLog, ArchiveResult, Card
<1>7. w.attempts < MaxRetry /\ w.blockReason = "none" /\ w.outcome = "closed" /\ w.warnings = 0
  BY <1>3, <1>4, <1>5 DEF AppendLog, ArchiveResult, Card
<1>8. CardOK(w)
  BY <1>6, <1>7, MaxRetryPositive DEF CardOK, DispatchFieldsMatchStatus,
     BlockReasonMatchesStatus, WithinRetryBudget, WarningsBelowBudget,
     OutcomeMatchesStatus, DoneHasResult
<1>10. Moves(c, w, "closed")
  BY <1>3, <1>4, <1>5, <1>6, <1>9 DEF Moves, Keeps, AppendLog, ArchiveResult, Card
<1> QED BY <1>6, <1>8, <1>10 DEF w

-----------------------------------------------------------------------------
(* Reconcile leaves a card dispatched, as the same dispatch, or ends it.    *)

Reconciles(c, w) ==
  \/ Moves(c, w, "dispatched") /\ w.dispatchId = c.dispatchId
  \/ Moves(c, w, "done")
  \/ Moves(c, w, IF c.attempts + 1 < MaxRetry THEN "failed" ELSE "blocked")

LEMMA BackfillKeepsCardOK ==
  ASSUME NEW c \in Card, CardOK(c), c.status = "dispatched", NEW answer \in Answer
  PROVE  /\ BackfillSession(c, answer) \in Card
         /\ CardOK(BackfillSession(c, answer))
         /\ BackfillSession(c, answer).status = "dispatched"
         /\ BackfillSession(c, answer).result = c.result
         /\ BackfillSession(c, answer).attempts = c.attempts
         /\ BackfillSession(c, answer).archive = c.archive
         /\ BackfillSession(c, answer).dispatchId = c.dispatchId
<1> DEFINE w == BackfillSession(c, answer)
<1>1. w = IF answer.session THEN [c EXCEPT !.sessionId = c.dispatchId] ELSE c
  BY DEF BackfillSession
<1> HIDE DEF w
<1>2. w \in Card
  BY <1>1 DEF Card
<1>3. CardOK(w)
  BY <1>1 DEF CardOK, DispatchFieldsMatchStatus,
     BlockReasonMatchesStatus, WithinRetryBudget, WarningsBelowBudget,
     OutcomeMatchesStatus, DoneHasResult, Card
<1>4. /\ w.status = "dispatched" /\ w.result = c.result /\ w.attempts = c.attempts
      /\ w.archive = c.archive /\ w.dispatchId = c.dispatchId
  BY <1>1 DEF Card
<1> QED BY <1>2, <1>3, <1>4 DEF w

LEMMA QueryFailedKeepsCardOK ==
  ASSUME NEW c \in Card, CardOK(c), c.status = "dispatched", NEW answer \in Answer
  PROVE  /\ QueryFailed(c, answer) \in Card
         /\ CardOK(QueryFailed(c, answer))
         /\ Reconciles(c, QueryFailed(c, answer))
<1>1. CASE c.warnings + 1 < MaxRetry
  <2> DEFINE w == QueryFailed(c, answer)
  <2>1. w = [c EXCEPT !.warnings = IF answer.state = "error" THEN @ + 1 ELSE 0]
    BY <1>1 DEF QueryFailed
  <2> HIDE DEF w
  <2>2. w \in Card
    BY <2>1 DEF Card
  <2>3. CardOK(w)
    BY <1>1, <2>1, MaxRetryPositive DEF CardOK, DispatchFieldsMatchStatus,
       BlockReasonMatchesStatus, WithinRetryBudget, WarningsBelowBudget,
       OutcomeMatchesStatus, DoneHasResult, Card
  <2>4. Moves(c, w, "dispatched") /\ w.dispatchId = c.dispatchId
    BY <2>1 DEF Moves, Keeps, Card
  <2> QED BY <2>2, <2>3, <2>4 DEF w, Reconciles
<1>2. CASE ~(c.warnings + 1 < MaxRetry)
  BY <1>2, FailKeepsCardOK DEF QueryFailed, Reconciles
<1> QED BY <1>1, <1>2

LEMMA ReconcileKeepsCardOK ==
  ASSUME NEW c \in Card, CardOK(c), CanReconcile(c), NEW answer \in Answer
  PROVE  /\ ReconcileCard(c, answer) \in Card
         /\ CardOK(ReconcileCard(c, answer))
         /\ Reconciles(c, ReconcileCard(c, answer))
<1>1. c.status = "dispatched"
  BY DEF CanReconcile
<1> DEFINE known == BackfillSession(c, answer)
<1>2. /\ known \in Card /\ CardOK(known)
      /\ known.status = "dispatched" /\ known.result = c.result
      /\ known.attempts = c.attempts /\ known.archive = c.archive
      /\ known.dispatchId = c.dispatchId
  BY <1>1, BackfillKeepsCardOK
<1> HIDE DEF known
<1>3. ASSUME NEW w, NEW to, Moves(known, w, to)
      PROVE  Moves(c, w, to)
  BY <1>2, <1>3 DEF Moves, Keeps
<1>4. Moves(c, known, "dispatched")
  BY <1>2 DEF Moves, Keeps, Card
<1>5. CASE answer.state \in QueryError
  BY <1>1, <1>5, QueryFailedKeepsCardOK DEF ReconcileCard
<1>6. CASE answer.state \notin QueryError /\ answer.state \notin Ended
  BY <1>2, <1>4, <1>6 DEF ReconcileCard, known, Reconciles
<1>7. CASE answer.state \notin QueryError /\ answer.state \in Ended
  <2>1. CASE HasSubstantialResult(c)
    <3>1. known.result # NoResult
      BY <1>2, <2>1 DEF HasSubstantialResult, NoResult
    <3>2. ReconcileCard(c, answer) = CompleteCard(known)
      BY <1>7, <2>1 DEF ReconcileCard, known
    <3> QED BY <1>2, <1>3, <3>1, <3>2, CompleteKeepsCardOK DEF Reconciles
  <2>2. CASE ~HasSubstantialResult(c)
    <3>1. ReconcileCard(c, answer) = FailCard(known)
      BY <1>7, <2>2 DEF ReconcileCard, known
    <3> QED BY <1>2, <1>3, <3>1, FailKeepsCardOK DEF Reconciles
  <2> QED BY <2>1, <2>2
<1> QED BY <1>5, <1>6, <1>7

LEMMA DryRunKeepsCardOK ==
  ASSUME NEW c \in Card, CardOK(c), CanReconcile(c), NEW answer \in Answer
  PROVE  /\ ReconcileDryRunCard(c, answer) \in Card
         /\ CardOK(ReconcileDryRunCard(c, answer))
         /\ Reconciles(c, ReconcileDryRunCard(c, answer))
<1>1. c.status = "dispatched" /\ Reconciles(c, c)
  BY DEF CanReconcile, Reconciles, Moves, Keeps, Card
<1> QED BY <1>1, QueryFailedKeepsCardOK DEF ReconcileDryRunCard, DryRunWrites

\* A worker's text in the Result section disturbs nothing the commands keep.
LEMMA ResultKeepsCardOK ==
  ASSUME NEW c \in Card, CardOK(c), NEW text \in Text
  PROVE  /\ [c EXCEPT !.result = text] \in Card
         /\ CardOK([c EXCEPT !.result = text])
<1>1. text # NoResult
  BY DEF Text, NoResult, DispatchId
<1>2. [c EXCEPT !.result = text] \in Card
  BY DEF Card
<1>3. CardOK([c EXCEPT !.result = text])
  BY <1>1 DEF CardOK, DispatchFieldsMatchStatus,
     BlockReasonMatchesStatus, WithinRetryBudget, WarningsBelowBudget,
     OutcomeMatchesStatus, DoneHasResult, Card
<1> QED BY <1>2, <1>3

-----------------------------------------------------------------------------
(* What agent-mux does to its table of workers.                             *)

\* The new dispatch is the newest of all.
LEMMA LaunchAppends ==
  ASSUME workers \in Seq(Worker), NEW t \in Tickets, Launch(t)
  PROVE  /\ workers' \in Seq(Worker)
         /\ Dispatches' = Dispatches \cup {NextDispatch}
         /\ NextDispatch \in DispatchId
         /\ \A d \in Dispatches : workers'[d] = workers[d] /\ d < NextDispatch
         /\ workers'[NextDispatch].ticket = t
<1> DEFINE w == [ticket |-> t, state |-> "running"]
<1>1. w \in Worker
  BY DEF Worker, WorkerState
<1>2. /\ workers' = Append(workers, w)
      /\ workers \in Seq(Worker)
      /\ Len(workers) \in Nat
  BY DEF Launch
<1>3. /\ workers' \in Seq(Worker)
      /\ Len(workers') = Len(workers) + 1
      /\ \A i \in 1..Len(workers) : workers'[i] = workers[i]
      /\ workers'[Len(workers) + 1] = w
  BY <1>1, <1>2, AppendProperties
<1>4. Dispatches' = 1..Len(workers')
  BY DEF Dispatches
<1> QED BY <1>2, <1>3, <1>4 DEF Dispatches, NextDispatch, DispatchId, Nil

\* A worker that ends changes no more than its state.
LEMMA EndSteps ==
  ASSUME workers \in Seq(Worker), NEW d \in Dispatches, End(d)
  PROVE  /\ workers' \in Seq(Worker)
         /\ Dispatches' = Dispatches
         /\ \A e \in Dispatches : workers'[e].ticket = workers[e].ticket
<1>1. PICK s \in Ended : workers' = [workers EXCEPT ![d].state = s]
  BY DEF End
<1>2. workers \in Seq(Worker) /\ d \in 1..Len(workers)
  BY DEF Dispatches
<1>3. [workers[d] EXCEPT !.state = s] \in Worker
  <2>1. workers[d] \in Worker
    BY <1>2
  <2> QED BY <2>1 DEF Worker, Ended
<1>4. /\ workers' \in Seq(Worker)
      /\ Len(workers') = Len(workers)
      /\ \A e \in 1..Len(workers) :
           workers'[e] = IF e = d THEN [workers[d] EXCEPT !.state = s] ELSE workers[e]
  BY <1>1, <1>2, <1>3, ExceptSeq
<1>5. [workers[d] EXCEPT !.state = s].ticket = workers[d].ticket
  OBVIOUS
<1>6. Dispatches' = Dispatches
  BY <1>4 DEF Dispatches
<1>7. \A e \in Dispatches : workers'[e].ticket = workers[e].ticket
  BY <1>4, <1>5 DEF Dispatches
<1> QED BY <1>4, <1>6, <1>7

LEMMA TextsAreTexts ==
  ASSUME workers \in Seq(Worker), NEW d \in Dispatches
  PROVE  TextsOf(d) \subseteq Text /\ workers[d].ticket \in Tickets
<1>1. d \in DispatchId /\ workers[d] \in Worker
  BY DEF Dispatches, DispatchId, Nil
<1> QED BY <1>1, LengthsAssumption DEF Text, TextsOf, Worker

LEMMA AnswersAreAnswers == \A d : StatusAnswers(d) \subseteq Answer
BY DEF StatusAnswers
=============================================================================
