------------------------------- MODULE Cards -------------------------------
(***************************************************************************)
(* One ticket card, and what each command writes into it.  A card is the   *)
(* frontmatter of frontmatter/card.go plus what the commands read back     *)
(* from the body: the ## Result section and the tail of the ## Log.        *)
(*                                                                         *)
(* Dispatch ids are the numbers 1, 2, ... in the order agent-mux issued    *)
(* them, and a session id is the number of the dispatch it belongs to.     *)
(* dispatched_at is set and cleared with dispatch_id and is not kept       *)
(* apart.  A Result text is the dispatch whose worker wrote it and whether *)
(* it is long enough for hasSubstantialResult; an empty or a placeholder   *)
(* section is NoResult, because both commands that gate on the section     *)
(* refuse the two alike.                                                   *)
(***************************************************************************)
EXTENDS Fsm, Integers

CONSTANT MaxRetryConfig    \* max_retry as config.Load returns it

ASSUME MaxRetryAssumption == MaxRetryConfig \in Int

\* Every reader falls back to 3 for a value that is not positive.
MaxRetry == IF MaxRetryConfig <= 0 THEN 3 ELSE MaxRetryConfig

Nil == 0
DispatchId == Nat \ {Nil}

Text == [by : DispatchId, full : BOOLEAN]
NoResult == [by |-> Nil, full |-> FALSE]

Outcome == {"none", "failed", "cancelled", "closed"}
BlockReason == {"none", "manual", "auto"}

\* "warnings" is consecutiveStatusQueryFailures: how many lines at the end
\* of the ## Log say that a status query failed.
Card == [status : Status, dispatchId : Nat, sessionId : Nat, attempts : Nat,
         outcome : Outcome, blockReason : BlockReason,
         result : Text \cup {NoResult}, archive : SUBSET Text, warnings : Nat]

NewCard ==
  [status |-> "open", dispatchId |-> Nil, sessionId |-> Nil, attempts |-> 0,
   outcome |-> "none", blockReason |-> "none",
   result |-> NoResult, archive |-> {}, warnings |-> 0]

-----------------------------------------------------------------------------
(* What the commands share. *)

\* Any other log line ends the run of warnings at the tail.
AppendLog(c) == [c EXCEPT !.warnings = 0]

\* Bug: the session outlives its dispatch.
ClearDispatchFieldsButSession(c) == [c EXCEPT !.dispatchId = Nil]

ClearDispatchFields(c) == [c EXCEPT !.dispatchId = Nil, !.sessionId = Nil]

\* Bug: the section is cleared before it is copied to the log.
ArchiveResultTooLate(c) == [c EXCEPT !.result = NoResult]

\* Bug: an empty section is archived too.
ArchiveResultEvenEmpty(c) ==
  [c EXCEPT !.archive = @ \cup {c.result}, !.result = NoResult]

ArchiveResult(c) ==
  [c EXCEPT !.archive = IF c.result = NoResult THEN @ ELSE @ \cup {c.result},
            !.result = NoResult]

\* Bug: off by one.
ShouldAutoBlockLate(attempts) == attempts + 1 > MaxRetry

ShouldAutoBlock(attempts) == attempts + 1 >= MaxRetry

HasSubstantialResult(c) == c.result.full

\* The "if result.Flag { ... }" every command guards its effects with.
If(flag, def, changed, same) == IF flag \in def.flags THEN changed ELSE same

SetOutcome(c, def) ==
  IF def.outcome = "none" THEN c ELSE [c EXCEPT !.outcome = def.outcome]

-----------------------------------------------------------------------------
(* One operator per command: the card it writes, given the card it read.   *)

CanDispatch(c) == c.status = "open" /\ Applies(c.status, "dispatch")

DispatchCard(c, d, session) ==
  LET def == Apply(c.status, "dispatch") IN
  AppendLog([c EXCEPT !.status = def.to,
                      !.dispatchId = d,
                      !.sessionId = IF session THEN d ELSE @,
                      !.outcome = If("clearLastOutcome", def, "none", @)])

CanComplete(c) ==
  /\ c.status = "dispatched"
  /\ c.result # NoResult
  /\ Applies(c.status, "complete")

CompleteCard(c) == AppendLog([c EXCEPT !.status = Apply(c.status, "complete").to])

CanFail(c) == c.status = "dispatched" /\ Applies(c.status, "fail")

\* fail, and the auto-block that goes to disk in the same write.
FailCard(c) ==
  LET def == Apply(c.status, "fail")
      failed == AppendLog(SetOutcome([c EXCEPT !.status = def.to], def))
  IN  IF ShouldAutoBlock(c.attempts)
      THEN [failed EXCEPT !.status = Apply(failed.status, "block").to,
                          !.blockReason = "auto"]
      ELSE failed

CanCancel(c) == c.status = "dispatched" /\ Applies(c.status, "cancel")

CancelCard(c) ==
  LET def == Apply(c.status, "cancel")
      moved == SetOutcome([c EXCEPT !.status = def.to], def)
  IN  AppendLog(If("clearDispatchFields", def, ClearDispatchFields(moved), moved))

CanReopen(c) == Applies(c.status, "reopen")

ReopenCard(c) ==
  LET def == Apply(c.status, "reopen")
      moved == [c EXCEPT
        !.status = def.to,
        !.attempts = If("incrementAttempts", def, @ + 1, @),
        !.blockReason = If("clearBlockReason", def, "none", @)]
      cleared == If("clearDispatchFields", def, ClearDispatchFields(moved), moved)
  IN  AppendLog(If("archiveResult", def, ArchiveResult(cleared), cleared))

CanBlock(c) == c.status \in {"open", "failed"} /\ Applies(c.status, "block")

BlockCard(c) ==
  LET def == Apply(c.status, "block") IN
  AppendLog([c EXCEPT !.status = def.to,
                      !.blockReason = If("setBlockReason", def, "manual", @)])

CanClose(c) == Applies(c.status, "close")

\* Bug: close resets the section of the card it closes.
CloseCardForgetful(c) ==
  AppendLog(ClearDispatchFields(
    [c EXCEPT !.status = Apply(c.status, "close").to,
              !.outcome = "closed", !.result = NoResult]))

CloseCard(c) ==
  LET def == Apply(c.status, "close")
      moved == [c EXCEPT !.status = def.to, !.outcome = "closed"]
      cleared == If("clearDispatchFields", def, ClearDispatchFields(moved), moved)
  IN  AppendLog(If("archiveResult", def, ArchiveResult(cleared), cleared))

-----------------------------------------------------------------------------
(* Reconcile.  An answer of "agent-mux status" is a state, and a session   *)
(* when it has one to tell.  "other" is a state the switch does not know;  *)
(* "error" is a failed query whose message fits on one line, "longError"   *)
(* one whose message does not.                                             *)

WorkerState == {"running", "completed", "failed", "timeout"}
Ended == WorkerState \ {"running"}
QueryError == {"error", "longError"}
Fault == QueryError \cup {"other"}

Answer == [state : WorkerState \cup Fault, session : BOOLEAN]

CanReconcile(c) == c.status = "dispatched" /\ c.dispatchId # Nil

\* A failed query logs a warning until max_retry of them stand in a row,
\* then fails the card.  The last line of a long message does not count.
QueryFailed(c, answer) ==
  IF c.warnings + 1 < MaxRetry
  THEN [c EXCEPT !.warnings = IF answer.state = "error" THEN @ + 1 ELSE 0]
  ELSE FailCard(c)

BackfillSession(c, answer) ==
  IF answer.session THEN [c EXCEPT !.sessionId = c.dispatchId] ELSE c

\* Bug: the switch has no case for "timeout".
ReconcileCardWithoutTimeout(c, answer) ==
  IF answer.state \in QueryError THEN QueryFailed(c, answer)
  ELSE IF answer.state \in Ended \ {"timeout"}
       THEN LET known == BackfillSession(c, answer) IN
            IF HasSubstantialResult(c) THEN CompleteCard(known) ELSE FailCard(known)
       ELSE BackfillSession(c, answer)

\* A worker that ended counts as done exactly when it left a substantial
\* Result, whatever agent-mux says of it.  A session alone is saved too.
ReconcileCard(c, answer) ==
  IF answer.state \in QueryError THEN QueryFailed(c, answer)
  ELSE IF answer.state \in Ended
       THEN LET known == BackfillSession(c, answer) IN
            IF HasSubstantialResult(c) THEN CompleteCard(known) ELSE FailCard(known)
       ELSE BackfillSession(c, answer)

\* Whether that is written at all: not while the worker runs, unless there is
\* a session to add.
ReconcileWrites(c, answer) ==
  \/ answer.state \in QueryError \cup Ended
  \/ answer.session /\ c.sessionId = Nil

DryRunWrites(c, answer) == answer.state \in QueryError /\ c.warnings + 1 < MaxRetry

\* --dry-run previews, but the warning below the budget is still written.
ReconcileDryRunCard(c, answer) ==
  IF DryRunWrites(c, answer) THEN QueryFailed(c, answer) ELSE c

-----------------------------------------------------------------------------
(* What must be true of every card on disk. *)

\* The card names a dispatch exactly when there is one to ask about.
DispatchFieldsMatchStatus(c) ==
  /\ c.status \in {"dispatched", "done", "failed"} => c.dispatchId # Nil
  /\ c.blockReason = "auto" => c.dispatchId # Nil
  /\ c.status \in {"open", "closed"} => c.dispatchId = Nil
  /\ c.sessionId \in {Nil, c.dispatchId}

BlockReasonMatchesStatus(c) == c.status = "blocked" <=> c.blockReason # "none"

\* The retry budget: a ticket that may still be tried has attempts left, and
\* a failed one has at least one more after the reopen that counts it.
WithinRetryBudget(c) ==
  /\ c.attempts < MaxRetry
  /\ c.status = "failed" => c.attempts + 1 < MaxRetry

\* Failed queries below the budget never pile up, and only while running.
WarningsBelowBudget(c) ==
  /\ c.warnings < MaxRetry
  /\ c.status # "dispatched" => c.warnings = 0

OutcomeMatchesStatus(c) ==
  /\ c.status = "failed" => c.outcome = "failed"
  /\ c.blockReason = "auto" => c.outcome = "failed"
  /\ c.status = "closed" <=> c.outcome = "closed"
  /\ c.status = "dispatched" => c.outcome = "none"

DoneHasResult(c) == c.status = "done" => c.result # NoResult

CardOK(c) ==
  /\ DispatchFieldsMatchStatus(c)
  /\ BlockReasonMatchesStatus(c)
  /\ WithinRetryBudget(c)
  /\ WarningsBelowBudget(c)
  /\ OutcomeMatchesStatus(c)
  /\ DoneHasResult(c)
=============================================================================
