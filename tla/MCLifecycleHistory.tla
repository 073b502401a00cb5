------------------------- MODULE MCLifecycleHistory -------------------------
(* One ticket, tried again and again. *)
EXTENDS LifecycleHistory

MCTickets == {"a"}
MCNobody == [t \in MCTickets |-> {}]
=============================================================================
