-------------------------- MODULE LifecycleHistory --------------------------
(***************************************************************************)
(* Lifecycle with history variables that count the failures of a ticket:   *)
(* what "max_retry" bounds, and what it does not.  The variables only      *)
(* watch; no command reads them.                                           *)
(***************************************************************************)
EXTENDS Lifecycle

VARIABLES
  sinceBlock,     \* failed tries of a ticket since it was last blocked
  consecutive     \* failed tries of a ticket since it was last done

hvars == <<cards, workers, sinceBlock, consecutive>>

HInit ==
  /\ Init
  /\ sinceBlock = [t \in Tickets |-> 0]
  /\ consecutive = [t \in Tickets |-> 0]

\* The step fails ticket t, with or without the auto-block in the same write.
FailsIn(t) ==
  /\ cards[t].status = "dispatched"
  /\ cards'[t].status \in {"failed", "blocked"}

Leaves(t, s) == cards[t].status = s /\ cards'[t].status # s

\* The count since the last block is kept until the block is lifted.
HNext ==
  /\ Next
  /\ sinceBlock' = [t \in Tickets |->
       IF Leaves(t, "blocked") THEN 0
       ELSE IF FailsIn(t) THEN sinceBlock[t] + 1 ELSE sinceBlock[t]]
  /\ consecutive' = [t \in Tickets |->
       IF cards'[t].status = "done" THEN 0
       ELSE IF FailsIn(t) THEN consecutive[t] + 1 ELSE consecutive[t]]

HSpec == HInit /\ [][HNext]_hvars

-----------------------------------------------------------------------------
\* However a ticket is failed (by hand, by reconcile, by the stall phase),
\* cancelled, finished and reopened in between, it never fails more than
\* max_retry times without a block that a person has to lift.
FailuresBounded == \A t \in Tickets : sinceBlock[t] <= MaxRetry

\* The help of "fail": the ticket auto-blocks after max_retry consecutive
\* failures, so not after fewer of them.
AutoBlockNeedsConsecutiveFailures ==
  \A t \in Tickets : cards[t].blockReason = "auto" => consecutive[t] >= MaxRetry

-----------------------------------------------------------------------------
\* What makes FailuresBounded inductive: the attempts counter follows every
\* failure that has been reopened, and the failure at rest is one more.
FailuresCounted ==
  \A t \in Tickets :
    LET c == cards[t] IN
    /\ sinceBlock[t] \in Nat
    /\ c.status # "blocked" =>
         sinceBlock[t] <= IF c.status \in {"failed", "closed"}
                          THEN c.attempts + 1 ELSE c.attempts
    /\ c.status = "blocked" => sinceBlock[t] <= MaxRetry
=============================================================================
