-------------------------------- MODULE Tick --------------------------------
(***************************************************************************)
(* One "tick" after another, under the lock of TickLock: the fast path,    *)
(* then reconcile, stall detection and dispatch-ready over one slice of    *)
(* parsed cards, then the cursor (cmd/tickets/tick.go, stall.go and        *)
(* dispatch_ready.go).  People run other commands in between; a tick may   *)
(* die anywhere.                                                           *)
(*                                                                         *)
(* Of a card only the status is kept, and how long ago dispatched_at was.  *)
(* What reconcile makes of a card is left open, for Lifecycle decides it:  *)
(* agent-mux may also say forever that a worker runs.  Dispatching one     *)
(* ticket is one step, for CardRaces takes it apart.  A modification time  *)
(* is a flag: whether cards/ was touched since the cursor was taken.       *)
(***************************************************************************)
EXTENDS Fsm, Functions, Integers, FiniteSets

CONSTANTS
  Tickets,        \* numbered in the order of dispatch: by created, then by id
  DependsOn, Awaits, Manual, Scoped,
  EngineOf, WeightOf,
  Cap,            \* [concurrency], for the engines that have an entry
  MaxDispatch,    \* --max-dispatch
  Interval,       \* stallCheckInterval, in units of time
  Timeout,        \* the stall timeout, in units of time
  ByHand,         \* the commands people run
  MaxCommands     \* bound: how many of them

ASSUME TicketsAssumption == Tickets \subseteq Nat /\ IsFiniteSet(Tickets)
ASSUME GatesAssumption ==
  /\ DependsOn \in [Tickets -> SUBSET Tickets]
  /\ Awaits \in [Tickets -> SUBSET Tickets]
ASSUME WeightAssumption == \A t \in Tickets : WeightOf[t] \in Nat \ {0}
ASSUME CapAssumption == \A e \in DOMAIN Cap : Cap[e] \in Int
ASSUME BoundsAssumption ==
  {MaxDispatch, Interval, Timeout, MaxCommands} \subseteq Nat
ASSUME ByHandAssumption == ByHand \subseteq Transition

VARIABLES
  status,       \* of each card on disk
  age,          \* time since dispatched_at, of the dispatched ones
  changed,      \* whether cards/ was touched since LastCardsMtime
  sinceCheck,   \* time since LastStallCheckAt, up to Interval
  cache,        \* LastOpenReady; the tickets in LastEngineWeights
  tick,         \* the tick that runs
  commands      \* how many commands people have run

vars == <<status, age, changed, sinceCheck, cache, tick, commands>>

\* Beyond the timeout a ticket's age makes no difference any more.
Age == 0 .. Timeout + 1

\* "due": the stall phase will run; "todo": the tickets the phase has yet to
\* look at; "counted": the tickets in engineWeight; "moved": whether cards/
\* was touched after the second stat.
Idle == [pc |-> "idle"]
Dead == [pc |-> "dead"]
Working ==
  [pc : {"reconcile", "stall", "dispatch", "restat", "reload"},
   slice : [status : [Tickets -> Status], age : [Tickets -> Age]],
   due : BOOLEAN, todo : SUBSET Tickets, counted : SUBSET Tickets,
   started : 0 .. MaxDispatch, moved : BOOLEAN]

TypeOK ==
  /\ status \in [Tickets -> Status]
  /\ age \in [Tickets -> Age]
  /\ \A t \in Tickets : status[t] # "dispatched" => age[t] = 0
  /\ changed \in BOOLEAN
  /\ sinceCheck \in 0 .. Interval
  /\ cache \in [ready : Nat, running : SUBSET Tickets]
  /\ tick \in Working \cup {Idle, Dead}
  /\ commands \in 0 .. MaxCommands

Init ==
  /\ status = [t \in Tickets |-> "open"]
  /\ age = [t \in Tickets |-> 0]
  /\ changed = TRUE
  /\ sinceCheck = Interval
  /\ cache = [ready |-> 0, running |-> {}]
  /\ tick = Idle
  /\ commands = 0

-----------------------------------------------------------------------------
(* Reading a tree of cards: the one on disk, or a slice. *)

In(s, st) == {t \in Tickets : st[t] = s}
OpenReady(st) == In("open", st) \ Manual

GatesMet(st, t) ==
  /\ t \in Scoped
  /\ \A d \in DependsOn[t] : st[d] = "done"
  /\ \A a \in Awaits[t] : IsTerminal(st[a])

Eligible(st) == {t \in OpenReady(st) : GatesMet(st, t)}

\* buildEngineWeightMapFromDocs, over the tickets that are dispatched.
WeightOn(S, e) == FoldFunctionOnSet(+, 0, WeightOf, {t \in S : EngineOf[t] = e})

\* A cap that is negative is no cap.
Fits(S, t) ==
  LET e == EngineOf[t] IN
  e \in DOMAIN Cap /\ Cap[e] >= 0 => WeightOn(S, e) + WeightOf[t] <= Cap[e]

\* fastPathSafeToSkip.  omitempty drops an empty weight map, which comes back
\* as nil: "not yet populated".  Engines without a cap are not looked at.
SafeToSkip ==
  /\ cache.running # {}
  /\ \/ cache.ready = 0
     \/ /\ DOMAIN Cap # {}
        /\ \A e \in DOMAIN Cap : Cap[e] > 0 => WeightOn(cache.running, e) >= Cap[e]

WindowOpen == sinceCheck >= Interval

\* Bug: nothing but the cards can end a series of skips.
FastPathForever == ~changed /\ SafeToSkip

FastPath == ~changed /\ ~WindowOpen /\ SafeToSkip

-----------------------------------------------------------------------------
(* Writing a card touches cards/. *)

Rewrite(t, s, a) ==
  /\ status' = [status EXCEPT ![t] = s]
  /\ age' = [age EXCEPT ![t] = a]
  /\ changed' = TRUE

Untouched == UNCHANGED <<status, age, changed>>
Kept == UNCHANGED <<sinceCheck, cache, commands>>

Phase(pc) == tick \notin {Idle, Dead} /\ tick.pc = pc

\* Cards come in order; the phase is done with t.
First(t) == t \in tick.todo /\ \A u \in tick.todo : t <= u
Done(t) == [tick EXCEPT !.todo = @ \ {t}]

-----------------------------------------------------------------------------
\* Bug: the window forces the phases, but not the stall phase among them.
LoadDueIfChanged ==
  /\ tick \in {Idle, Dead}
  /\ ~FastPath
  /\ tick' = [pc |-> "reconcile", slice |-> [status |-> status, age |-> age],
              due |-> changed, todo |-> In("dispatched", status),
              counted |-> {}, started |-> 0, moved |-> FALSE]
  /\ Untouched /\ Kept

\* A tick that takes the fast path changes nothing, and is no step at all.
Load ==
  /\ tick \in {Idle, Dead}
  /\ ~FastPath
  /\ tick' = [pc |-> "reconcile", slice |-> [status |-> status, age |-> age],
              due |-> WindowOpen \/ changed, todo |-> In("dispatched", status),
              counted |-> {}, started |-> 0, moved |-> FALSE]
  /\ Untouched /\ Kept

\* Reconcile finds nothing to write, or writes the slice's copy: a warning or
\* a session, or the end of the try.
Reconcile(t) ==
  /\ Phase("reconcile")
  /\ First(t)
  /\ \/ tick' = Done(t) /\ Untouched
     \/ \E s \in {"dispatched", "done", "failed", "blocked"} :
          /\ Rewrite(t, s, IF s = "dispatched" THEN tick.slice.age[t] ELSE 0)
          /\ tick' = [Done(t) EXCEPT !.slice.status[t] = s,
                                     !.slice.age[t] = IF s = "dispatched" THEN @ ELSE 0]
  /\ Kept

StartStall ==
  /\ Phase("reconcile")
  /\ tick.todo = {}
  /\ tick' = [tick EXCEPT
       !.pc = "stall",
       !.todo = IF tick.due
                THEN {t \in In("dispatched", tick.slice.status) : tick.slice.age[t] > Timeout}
                ELSE {}]
  /\ Untouched /\ Kept

\* The card is read again, failed if it is still dispatched, and the slice
\* does not hear of it.
Stall(t) ==
  /\ Phase("stall")
  /\ First(t)
  /\ tick' = Done(t)
  /\ IF status[t] = "dispatched"
     THEN \E s \in {"failed", "blocked"} : Rewrite(t, s, 0)
     ELSE Untouched
  /\ Kept

\* Bug: the weights are those the last tick cached.
StartDispatchFromCache ==
  /\ Phase("stall")
  /\ tick.todo = {}
  /\ tick' = [tick EXCEPT !.pc = "dispatch",
                          !.todo = Eligible(tick.slice.status),
                          !.counted = cache.running]
  /\ Untouched /\ Kept

StartDispatch ==
  /\ Phase("stall")
  /\ tick.todo = {}
  /\ tick' = [tick EXCEPT !.pc = "dispatch",
                          !.todo = Eligible(tick.slice.status),
                          !.counted = In("dispatched", tick.slice.status)]
  /\ Untouched /\ Kept

\* Bug: engineWeight does not learn of what was just dispatched.
LaunchUncounted(t) ==
  /\ Phase("dispatch")
  /\ First(t)
  /\ tick.started < MaxDispatch
  /\ Fits(tick.counted, t)
  /\ status[t] = "open" /\ GatesMet(status, t)
  /\ Rewrite(t, "dispatched", 0)
  /\ tick' = [Done(t) EXCEPT !.started = @ + 1]
  /\ Kept

\* dispatchTicket reads the cards again and looks at the gates again.
Launch(t) ==
  /\ Phase("dispatch")
  /\ First(t)
  /\ tick.started < MaxDispatch
  /\ Fits(tick.counted, t)
  /\ status[t] = "open" /\ GatesMet(status, t)
  /\ Rewrite(t, "dispatched", 0)
  /\ tick' = [Done(t) EXCEPT !.started = @ + 1, !.counted = @ \cup {t}]
  /\ Kept

\* Over the cap, refused by dispatchTicket, or agent-mux failed.
PassOver(t) ==
  /\ Phase("dispatch")
  /\ First(t)
  /\ tick.started < MaxDispatch
  /\ tick' = Done(t)
  /\ Untouched /\ Kept

EndDispatch ==
  /\ Phase("dispatch")
  /\ tick.todo = {} \/ tick.started = MaxDispatch
  /\ tick' = [tick EXCEPT !.pc = "restat", !.todo = {}]
  /\ Untouched /\ Kept

\* The new cursor; what is touched from now on is somebody else's.
Restat ==
  /\ Phase("restat")
  /\ tick' = [tick EXCEPT !.pc = "reload"]
  /\ Untouched /\ Kept

\* Bug: what was dispatched is subtracted from the last count.
SaveWithoutReload ==
  /\ Phase("reload")
  /\ tick' = Idle
  /\ changed' = tick.moved
  /\ sinceCheck' = 0
  /\ cache' = [ready |-> cache.ready - tick.started, running |-> In("dispatched", status)]
  /\ UNCHANGED <<status, age, commands>>

\* The cards are parsed once more, counted, and .tick-state is written.
Save ==
  /\ Phase("reload")
  /\ tick' = Idle
  /\ changed' = tick.moved
  /\ sinceCheck' = 0
  /\ cache' = [ready |-> Cardinality(OpenReady(status)), running |-> In("dispatched", status)]
  /\ UNCHANGED <<status, age, commands>>

\* Killed, or an error in reconcile or dispatch-ready: nothing is saved.
Dies ==
  /\ tick \notin {Idle, Dead}
  /\ tick' = Dead
  /\ Untouched /\ Kept

-----------------------------------------------------------------------------
\* Somebody runs a command on ticket t; a fail may auto-block.
Command(t, c) ==
  /\ commands < MaxCommands
  /\ commands' = commands + 1
  /\ Applies(status[t], c)
  /\ c = "dispatch" => GatesMet(status, t)
  /\ \E s \in {Apply(status[t], c).to} \cup (IF c = "fail" THEN {"blocked"} ELSE {}) :
       Rewrite(t, s, 0)
  /\ tick' = IF Phase("reload") THEN [tick EXCEPT !.moved = TRUE] ELSE tick
  /\ UNCHANGED <<sinceCheck, cache>>

\* A tick takes no time, measured in the units of Interval and Timeout.
TimePasses ==
  /\ tick \in {Idle, Dead}
  /\ age' = [t \in Tickets |->
       IF status[t] = "dispatched" /\ age[t] <= Timeout THEN age[t] + 1 ELSE age[t]]
  /\ sinceCheck' = IF WindowOpen THEN sinceCheck ELSE sinceCheck + 1
  /\ UNCHANGED <<status, changed, cache, tick, commands>>

Proceed ==
  \/ Load \/ StartStall \/ StartDispatch \/ EndDispatch \/ Restat \/ Save
  \/ \E t \in Tickets : Reconcile(t) \/ Stall(t) \/ Launch(t) \/ PassOver(t)

Next ==
  \/ Proceed \/ Dies \/ TimePasses
  \/ \E t \in Tickets : \E c \in ByHand : Command(t, c)

Spec == Init /\ [][Next]_vars

\* A timer starts ticks for ever, a tick goes on unless it dies, time passes,
\* and agent-mux does not fail every dispatch of a ticket.
LiveSpec ==
  /\ Spec
  /\ WF_vars(Proceed)
  /\ WF_vars(TimePasses)
  /\ \A t \in Tickets : SF_vars(Launch(t))

-----------------------------------------------------------------------------
\* As long as only ticks dispatch, the dispatched tickets of an engine never
\* weigh more than its cap, though a tick counts them in an old slice while
\* people cancel, fail and reopen, and reconcile writes old copies back.
CapsHold ==
  \A e \in DOMAIN Cap :
    Cap[e] >= 0 => WeightOn(In("dispatched", status), e) <= Cap[e]

\* Why: whatever the slice missed, no ticket is dispatched that the tick does
\* not find in its slice, and none that engineWeight does not count later on,
\* as long as people leave "dispatch" alone.
Counted ==
  /\ Phase("reconcile") \/ Phase("stall") =>
       In("dispatched", status) \subseteq In("dispatched", tick.slice.status)
  /\ Phase("dispatch") => In("dispatched", status) \subseteq tick.counted

DeathsStop == <>[][~Dies]_vars

\* A ticket that dispatch-ready could take, on an engine without a cap, does
\* not stay where it is, however often the fast path skips the phases.
ReadyIsDispatched ==
  DeathsStop =>
    \A t \in Tickets : EngineOf[t] \notin DOMAIN Cap => []<>(t \notin Eligible(status))

\* A worker that agent-mux reports as running forever is failed by the stall
\* phase, as long as no ticket waits to be dispatched meanwhile.
HungIsFailedWhenQuiet ==
  DeathsStop =>
    \A t \in Tickets : []<>(status[t] # "dispatched" \/ OpenReady(status) # {})

\* The comment of stallCheckInterval: the stall phase never misses a
\* transition by more than one cycle, so a hung worker is failed in the end.
HungIsFailed ==
  DeathsStop => \A t \in Tickets : []<>(status[t] # "dispatched")
=============================================================================
