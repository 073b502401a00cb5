----------------------------- MODULE TicketFsm -----------------------------
(***************************************************************************)
(* What the tool promises of a tree of tickets, with every file, worker    *)
(* and log taken away: a ticket starts only when its dependencies are met, *)
(* a failed try either leaves a retry or blocks the ticket, and a closed   *)
(* ticket is final.                                                        *)
(***************************************************************************)
EXTENDS Integers

CONSTANTS Tickets, DependsOn, Awaits, Budget

VARIABLES status, attempts

Resting == {"done", "failed", "blocked", "closed"}

Init ==
  /\ status = [t \in Tickets |-> "open"]
  /\ attempts = [t \in Tickets |-> 0]

Move(t, from, to) ==
  /\ status[t] \in from
  /\ status' = [status EXCEPT ![t] = to]

Start(t) ==
  /\ \A d \in DependsOn[t] : status[d] = "done"
  /\ \A a \in Awaits[t] : status[a] \in Resting
  /\ Move(t, {"open"}, "dispatched")
  /\ UNCHANGED attempts

Finish(t) == Move(t, {"dispatched"}, "done") /\ UNCHANGED attempts

GiveBack(t) == Move(t, {"dispatched"}, "open") /\ UNCHANGED attempts

Fail(t) ==
  /\ Move(t, {"dispatched"},
          IF attempts[t] + 1 < Budget THEN "failed" ELSE "blocked")
  /\ UNCHANGED attempts

Retry(t) ==
  /\ Move(t, {"failed"}, "open")
  /\ attempts' = [attempts EXCEPT ![t] = @ + 1]

TakeUpAgain(t) == Move(t, {"done", "blocked"}, "open") /\ UNCHANGED attempts

Block(t) == Move(t, {"open", "failed"}, "blocked") /\ UNCHANGED attempts

Close(t) == Move(t, {"open", "failed", "done"}, "closed") /\ UNCHANGED attempts

Next ==
  \E t \in Tickets :
    \/ Start(t) \/ Finish(t) \/ GiveBack(t) \/ Fail(t)
    \/ Retry(t) \/ TakeUpAgain(t) \/ Block(t) \/ Close(t)

Spec == Init /\ [][Next]_<<status, attempts>>
=============================================================================
