-------------------------------- MODULE Fsm --------------------------------
(***************************************************************************)
(* The ticket state machine of fsm/fsm.go: the transition table, and the   *)
(* effects each transition asks its command to apply.                      *)
(***************************************************************************)

Status == {"open", "dispatched", "done", "failed", "blocked", "closed"}

Transition ==
  {"dispatch", "complete", "fail", "cancel", "reopen", "block", "close"}

\* The statuses an awaited ticket may rest in.
IsTerminal(s) == s \in {"done", "failed", "blocked", "closed"}

\* A transitionDefinition: the target status, the flags that are set, and
\* the value of setLastOutcome ("none" for the empty string).
Definition(to, flags, outcome) == [to |-> to, flags |-> flags, outcome |-> outcome]

\* The map of maps.  "closed" is not a key: there is no way out of it.
transitions ==
  [open |->
     [dispatch |-> Definition("dispatched", {"clearLastOutcome"}, "none"),
      block    |-> Definition("blocked", {"setBlockReason"}, "none"),
      close    |-> Definition("closed", {"clearDispatchFields"}, "none")],
   dispatched |->
     [complete |-> Definition("done", {}, "none"),
      fail     |-> Definition("failed", {}, "failed"),
      cancel   |-> Definition("open", {"clearDispatchFields"}, "cancelled")],
   failed |->
     [reopen |-> Definition("open",
                   {"incrementAttempts", "clearDispatchFields", "archiveResult"},
                   "none"),
      block  |-> Definition("blocked", {"setBlockReason"}, "none"),
      close  |-> Definition("closed", {"clearDispatchFields"}, "none")],
   blocked |->
     [reopen |-> Definition("open", {"clearDispatchFields", "clearBlockReason"}, "none")],
   done |->
     [reopen |-> Definition("open", {"clearDispatchFields", "archiveResult"}, "none"),
      close  |-> Definition("closed", {"clearDispatchFields", "archiveResult"}, "none")]]

\* fsm.Apply: it succeeds when both lookups do, and returns the definition.
Applies(current, t) ==
  /\ current \in DOMAIN transitions
  /\ t \in DOMAIN transitions[current]

Apply(current, t) == transitions[current][t]
=============================================================================
