------------------------------ MODULE AgentMux ------------------------------
(***************************************************************************)
(* agent-mux, the external program that runs the workers, as far as        *)
(* dispatch/ uses it: "dispatch --async" starts a worker and returns a     *)
(* fresh dispatch id at once; the worker runs on its own and ends; "status"*)
(* tells what became of a dispatch, or fails.  A worker edits the          *)
(* ## Result section of the card it was given, at any time while it runs.  *)
(***************************************************************************)
EXTENDS Cards, Sequences

CONSTANTS Tickets,
          MaxDispatches,   \* bound: dispatches agent-mux ever starts
          Faults,          \* what status may answer instead of the truth
          Lengths          \* whether the Results workers write are substantial

ASSUME MaxDispatchesAssumption == MaxDispatches \in Nat
ASSUME FaultsAssumption == Faults \subseteq Fault
ASSUME LengthsAssumption == Lengths \subseteq BOOLEAN

VARIABLE workers           \* workers[d] is what dispatch d started

Worker == [ticket : Tickets, state : WorkerState]

Dispatches == 1..Len(workers)

\* dispatch --async: the new dispatch gets the next number.
NextDispatch == Len(workers) + 1

Launch(t) ==
  /\ Len(workers) < MaxDispatches
  /\ workers' = Append(workers, [ticket |-> t, state |-> "running"])

Running(d) == workers[d].state = "running"

End(d) ==
  /\ Running(d)
  /\ \E s \in Ended : workers' = [workers EXCEPT ![d].state = s]

\* What worker d may leave in the ## Result section.
TextsOf(d) == {[by |-> d, full |-> full] : full \in Lengths}

\* status d: the truth or a fault; a failed query brings no session.
StatusAnswers(d) ==
  {a \in Answer : /\ a.state = workers[d].state \/ a.state \in Faults
                  /\ a.state \in QueryError => ~a.session}
=============================================================================
