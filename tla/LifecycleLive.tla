--------------------------- MODULE LifecycleLive ---------------------------
(***************************************************************************)
(* Lifecycle with a timer that runs reconcile again and again.  Most runs  *)
(* find a worker that is still busy and write nothing; the variable "beat" *)
(* makes such a run a step too, so that fairness asks for runs of          *)
(* reconcile and never for a query to fail or to succeed.                  *)
(***************************************************************************)
EXTENDS Lifecycle

VARIABLE beat      \* flips whenever the timer has reconcile look at a card

lvars == <<cards, workers, beat>>

LInit == Init /\ beat = FALSE

Beat(t) == Reconcile(t) /\ beat' = ~beat

LNext ==
  \/ \E t \in Tickets : Beat(t)
  \/ Next /\ UNCHANGED beat

\* The timer never stops, and a worker ends some day; nothing else is
\* promised: no person does anything, and no query ever needs to succeed.
LiveSpec ==
  /\ LInit /\ [][LNext]_lvars
  /\ \A t \in Tickets : WF_lvars(Beat(t))
  /\ \A d \in 1..MaxDispatches : WF_lvars(d \in Dispatches /\ WorkerEnds(d) /\ UNCHANGED beat)

\* A ticket does not stay dispatched forever: its worker ends, and reconcile
\* learns of it or gives up asking, however often queries fail.
DispatchedResolves ==
  \A t \in Tickets : cards[t].status = "dispatched" ~> cards[t].status # "dispatched"
=============================================================================
