-------------------------- MODULE MCLifecycleLive --------------------------
(* Three tickets: "b" depends on "a", and "c" awaits "b". *)
EXTENDS LifecycleLive

MCTickets == {"a", "b", "c"}
MCDependsOn == [t \in MCTickets |-> IF t = "b" THEN {"a"} ELSE {}]
MCAwaits == [t \in MCTickets |-> IF t = "c" THEN {"b"} ELSE {}]
=============================================================================
