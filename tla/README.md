# A verification project for agent-tickets

`tickets` is a command line tool that keeps a tree of ticket cards (Markdown
files with YAML frontmatter), starts AI workers on them through the external
program `agent-mux`, and moves each card through a small state machine. There
is no server and no database: every command is a short-lived process that
parses card files and renames new ones over them, a timer starts `tick` again
and again, and the workers edit the same files while all this goes on. What can
go wrong is therefore seldom inside one function; it is in long mixes of
commands, in two processes that overlap, and in a process that dies between
two steps. That is what these TLA+ modules are about.

Paths below are relative to `src/`; `cmd/` is short for `cmd/tickets/`.

## 1. The system

| component | state it keeps | operations | talks to |
|---|---|---|---|
| **ticket state machine** `fsm/fsm.go`, `frontmatter/card.go` | none: two tables | `Apply` (target status and effects) | every command |
| **lifecycle commands** `cmd/{complete,fail,cancel,reopen,block,close}.go` | the card file: status, dispatch id, session id, attempts, last outcome, block reason, `## Result`, `## Log` | one each: load, check, edit, rename | card files |
| **dispatch of one ticket** `cmd/dispatch_cmd.go` | the card | read the card, its `awaits`, its `depends_on`, resolve options, launch a worker, write the card | agent-mux, other cards |
| **reconcile** `cmd/reconcile.go` | the dispatched cards, parsed once | per card: ask agent-mux, complete, fail, warn, backfill the session | agent-mux, card files |
| **stall detection** `cmd/stall.go` | timestamps in the cards | fail what ran longer than its timeout | card files, clock |
| **dispatch-ready** `cmd/dispatch_ready.go` | a slice of cards, engine weights | eligibility, order, caps, the dispatch loop | dispatch |
| **tick** `cmd/tick.go` | `.tick.lock`, `.tick-state` (directory mtime, stall cursor, ready count, engine weights) | lock, fast path, reconcile, stall, dispatch-ready, save, release | all of the above |
| **dependency graph** `cmd/helpers.go`, `create`, `edit`, `delete`, `migrate` | the tree of files | cycle and depth checks, sequence numbers, cascades, renames | card files |
| **dispatch options** `cmd/dispatch_cmd.go`, `config/config.go` | none | profile, engine, model and effort: four levels of precedence | configuration |
| **card files** `frontmatter/*.go` | bytes | parse, sections, write to a temporary file and rename | the file system |
| **views, init, help** `board`, `list`, `show`, `summary`, `initiatives`, `init`, `main` | none | print | card files |
| **agent-mux** (external) | dispatches | `dispatch --async`, `status` | workers |

Where it is hard, and what would make each part correct:

- *State machine and commands.* Six fields hang on the status, and each
  transition has its own set of effects on them; a forgotten one shows several
  commands later. The retry budget is spread over three writers (`fail`,
  `reconcile`, stall) and counted by a fourth (`reopen`). Correct: every card
  fits its status, the budget bounds the failures, no Result is lost, a ticket
  starts only when its gates are met.
- *Dispatch.* The worker starts before the card says so, and the gates are read
  long before that. Correct: a dispatched card names the newest worker of its
  own ticket, whatever answer is lost and whatever process dies.
- *Reconcile.* All cards are parsed first; each copy is written back after a
  slow query. Correct: answers go to the right card, a write over a file that
  did not change is lawful, and a worker that ends is noticed in the end.
- *tick.* Only a lock file keeps two ticks apart, and both the release and the
  recovery of a stale lock remove it. Correct: one tick at a time, and no lock
  file left behind stops ticks for good.
- *tick's cursor and phases.* A fast path skips everything when a directory
  mtime and cached counts allow it, and the stall phase has a cadence of its
  own. Correct: nothing that could be done is skipped for ever, hung workers are
  failed in the end.
- *dispatch-ready.* Weights are counted once, in a slice that other phases and
  other people have moved away from. Correct: no engine goes over its cap. (Two
  runs, or a run and a `dispatch`, do not see each other at all.)
- *Dependency graph.* `create`, `edit`, `delete --cascade` and `migrate` plan over
  all cards and then save, write, rename and remove files one by one; a kill
  in between leaves the rest undone, and `edit` judges what is already saved.
  Correct: no circle and no missing name that an edit or a kill does not explain,
  no file replaced and no card of a worker removed, unless it came after a command
  had planned.
- *Options.* What a dispatch resolves is written into the card, and the next
  dispatch reads it back as a choice of the card. Correct: a retry goes where
  the first try went, and the engine whose cap was checked is the one the
  card counts for.

The full list of what is hard to test, at its line, is under `hazards` in
`PROJECT.json`.

## 2. The modules

```
Fsm --- Cards --- AgentMux --+-- Lifecycle --+-- LifecycleHistory     TickLock
 |                           |      :        +-- LifecycleLive
 +-- Tick                    |      :                                 Options
                             |      : implements TicketFsm
                             +-- CardRaces             DepGraph --+-- Tree --- TreeOverlap
                                                                  +-- DepSearch
proofs:  CardsProofs (on AgentMux), LifecycleProofs (with LifecycleHistory),
         CardRacesProofs, TickLockProofs, TickProofs, TreeProofs (on TreeOverlap),
         DepSearchProofs, OptionsProofs
TLC:     MCLifecycleHistory, MCLifecycleLive, MCCardRaces, MCTickLock, MCTick,
         MCTree, MCDepSearch, MCOptions
```

**Fsm** is the table of `fsm/fsm.go`: `transitions`, `Apply`, and `IsTerminal`.
`validTransitions`, a second table in the same file, is used by no command and
is left out.

**Cards** is one card and what each command writes into it: for every command
`X` an operator `CanX(c)` (its checks and early returns) and `XCard(c)` (the
card it writes, the auto-block and the cleared dispatch fields included). A
Result is a pair: whose dispatch wrote it, and whether `hasSubstantialResult`
accepts it; an empty or placeholder section is `NoResult`. Of the log the model
keeps what the code reads back: the number of warnings at its tail, and the
archived Results. `dispatched_at` is set and cleared with `dispatch_id`.
`CardOK`, the conjunction of six named parts, says what every card on disk must
look like.

**AgentMux** (external) is a growing table of dispatches: `Launch` appends one,
`End` ends one, `StatusAnswers` is the truth, or one of the faults the constant
`Faults` allows: a failed query with an error of one line, one with an error of
several lines (its last line does not count as a warning), or a state that
reconcile's switch does not know. Workers write into the card's `## Result` at
any time while they run, also when the ticket was cancelled or closed meanwhile.

**Lifecycle** runs the commands one at a time over a tree of tickets. One
action per command, plus `DispatchLost`: the worker started but the card was
never written (the process died, the answer of agent-mux was lost, the rename
failed). `StallFail` is `Fail` without the clock.

**LifecycleHistory** adds two counters that only watch: failures of a ticket
since it was last blocked, and since it was last done.

**LifecycleLive** adds the timer that runs reconcile. A run that finds a worker
still busy writes nothing and would be no step at all; `beat` flips with every
run, so that fairness can ask for runs and not for answers.

**TicketFsm** is the abstract promise: a status and an attempts counter per
ticket, and eight moves. `Lifecycle` implements it with the mapping `status <-
cards[t].status`, `attempts <- cards[t].attempts`.

**CardRaces** takes the commands apart. A process reads a file, works on the
copy, and renames it over the file (`Edit`, then `Write`). `dispatchTicket` is
five steps: the card, each awaited ticket, each dependency, the launch, the
write. `reconcile` is a scan: parse all, then ask and write card by card from
the old copies. A process may die before any step. The history variable
`fresh` remembers which files are still as a process read them.

**TickLock** is `acquireLock`, `reclaimStaleLock` and `releaseLock`, system call
by system call: `open`, `flock`, `ftruncate`, `write`, `unlink`. A lock belongs
to the file that was opened; the path may name another file by then, or none. A
killed process drops its descriptor, and its pid may be in use again later.

**Tick** is one tick after another, under that lock: `FastPath`; then `Load`,
`Reconcile`, `Stall` and `Launch` card by card over one slice; then the second
stat (`Restat`) and the write of `.tick-state` (`Save`). It may die at any
point, and people run commands in between. Of a card it keeps the status and
the age of its dispatch; what reconcile makes of a card is left open (Lifecycle
decides it), so a worker may be reported as running for ever. A directory mtime
is the flag `changed`: whether a card was renamed into place since the cursor
was taken. Times are ages that stop counting where the code no longer tells
them apart (`sinceCheck` at the interval, `age` just beyond the timeout), and a
tick itself takes no time. Tickets are numbers in the order of dispatch.
`counted` is the set of tickets whose weights are in the code's `engineWeight`,
`cache.running` the same for `LastEngineWeights`.

**DepGraph** is what a valid graph is: `Acyclic`, `TooDeep`, `Accepts` (what
`validateDependencyGraph` lets pass) and `Branch` (what a cascade takes along),
all without a search: a set of tickets is free of circles if every part of it
has a ticket that needs nothing in that part. The two lists of a card,
`depends_on` and `awaits`, are one set: every command here treats them alike.

**DepSearch** is `validateDependencyGraph` with `detectCycle` and
`maxDependencyDepthVisited`, and `collectCascadeIDs`, loop by loop: `path` is the
stack of calls, `todo` what is left of the loop of each, `visited` and `cache` what
the searches remember from one branch to the next, `best` the deepest a call has
found. The order of a list is left open, and a name that stands in it twice finds
its mark the second time and changes nothing, so lists are sets. The graph is any
graph over the names: with missing tickets, with circles beside the ticket, with
several ways to one name. `VerdictIsRight` and `CascadeIsBranch` hold the answers
against `DepGraph`.

**Tree** is the commands that give the tree its shape. A command reads all cards
and plans (`CreatePlan`, `DeletePlan`, `MigratePlan`), then does one file operation
per step (`Stat`, `Put`, `Update`, `RemoveFile`), in the order of the code, and may
die before each. `edit` is the other way round: the editor saves (`EditorSaves`)
and the command judges afterwards (`Judge`). Ids are pairs of an initiative, by
its place in the alphabet, and a number. `exact` says whether the id was typed in
the case of the file: `findTicketFile` finds the file either way, but the names in
other cards are compared as typed. Of the state of a ticket only `running`
(dispatched) matters here; workers come and go (`Dispatch`, `Returns`) at any
moment, also between the check of a command and its files. Three history variables say whose edit was not
accepted, who was edited at all, and which names were lost to a killed cascade or
to a misspelt id.

**TreeOverlap** adds `late`: of the files that a running command is to make, write
or remove, those that somebody made, or dispatched, after it had planned. Nothing
keeps commands apart, so a file can be replaced and a worker can lose its card;
`OnlyLateIsReplaced` and `EarlyWorkersAreLeftAlone` say that it happens to these
files and to no others.

**Options** follows one ticket through dispatch after dispatch: `Resolve` is
`resolveDispatchOptions` (flag, card, initiative, configuration), `DispatchArgs` what
agent-mux is asked for, `CardAfter` what the card says afterwards. dispatch-ready
takes three steps: it reads `.tickets.toml` and the cards (`ScanReady`); after the
tickets before this one, and the pauses between them, it reads what the initiative
says now and checks the cap by it (`CheckCap`); then `dispatchTicket` reads the card
and the initiative once more (`DispatchReady`), and only the settings are still
those of the scan. `Charged` is the engine and model the cap is checked with,
`Counted` the ones the card stands for afterwards. `Cancel` keeps what the card names
and `Reopen` clears all but the profile. Anyone may save `.tickets.toml` and
`INITIATIVES/<x>.md` at any time, so they are no variables: every step that reads one
finds in it whatever it finds. The card may be edited at any time, too (`Edit`).

Which lines of the code each definition stands for is under `map` in
`PROJECT.json`. Operators marked `Bug:` are plausible mistakes in the code; the
mutants in `PROJECT.json` put each in place of the definition it follows or
precedes, and the named property must then fail.

## 3. The runs

Every run uses the constants of its `.cfg`. `CHECK_DEADLOCK FALSE` stands where
the system really may stop: all tickets closed and no dispatch left to start.

### What holds

| run | instance | shows |
|---|---|---|
| `lifecycle` | 3 tickets (b depends on a, c awaits b), 2 dispatches, max_retry 2, one-line query errors | `TypeOK`; `ImplementsTicketFsm`: seen through status and attempts, the commands do what `TicketFsm` promises; `DispatchedResolves` under fairness |
| `lifecycle_retries` | 1 ticket, 3 dispatches, max_retry 2, all three faults | `CardsOK`, `CurrentDispatchIsNewest`, `FailuresBounded`, `ResultsKept` |
| `races` | 1 process that may die, 2 tickets (b awaits a), 2 dispatches, max_retry 2, workers beside it, query errors | `TypeOK`, `CardsOK`, `CardsNameOwnDispatches`, `FreshWritesAreLawful`; `ImplementsTicketFsm`: taken apart into reads and writes, one command at a time still does what `TicketFsm` promises |
| `tick_phases` | 3 tickets on two engines, one capped at 2 (tickets of weight 1 and 2), 2 dispatches per tick, interval and timeout of 2 units, 1 command | `TypeOK`, `Counted`, `CapsHold`; `ReadyIsDispatched`, `HungIsFailedWhenQuiet` under fairness |
| `tick_lock` | 2 pids, 3 files | `TypeOK`, `AloneUntilUnlinked`, `TicksKeepRunning` under fairness |
| `tree` | 1 command at a time that may die, dispatches and returns at any moment beside it, 4 ids (three in one initiative, one in another), lists of one need or two, 1 ticket edited, 1 dispatched and 1 name lost at a time, at most 2 cards rewritten by a migrate | `TypeOK`, `CirclesAreRefused`, `DanglingIsExplained`, `DeepIsEdited`, `OnlyLateIsReplaced`, `EarlyWorkersAreLeftAlone` |
| `searches` | every graph of 4 names with up to 2 needs each, the names interchangeable | `TypeOK`: no call for a ticket whose call has not returned; `VerdictIsRight`, `CascadeIsBranch` |
| `options` | 2 profiles, engines and models, 1 effort; 5 settings, an initiative that names either profile or none at each read, 4 command lines, 6 edits | `TypeOK`, `RetriesGoTheSameWay`, `ReopenedGoesToItsProfile`, `CapIsCheckedWhereCounted` |

Why the bounds are enough. Two dispatches let an old worker meet a newer one;
three let a ticket fail, be retried and reach max_retry 2 with one to spare for
a detour through done or cancel. max_retry 2 has a failure that is retried and
one that blocks, and a query may fail before the next one gives up, also for the
liveness property. (The fallback of a max_retry
of 0 is in every proof: they hold for any integer.) Three tickets are the least with
a dependency, an awaited ticket and one that is neither. In `CardRaces`, a mixed-up
slice needs two tickets dispatched together and one process (b awaits a and not the other
way: a dependency would need a third dispatch for both to run at once, and it is
read by the same `Gate`); the refinement holds for one process only. A lost update
between commands needs two processes, and those are where the proofs take over:
all other properties of `CardRaces` are theorems for any number of processes,
tickets and dispatches, and the instance is there to keep the definitions honest
(with two processes over one ticket `FreshWritesAreLawful` takes three million
states; `race_artifact` has two as well). `Lengths` limits the Results of workers to
substantial ones there. In `TickLock`, one file more than there are
pids means a new one can always be created; three pids with four files satisfy
the same safety property (that run takes seconds), and liveness for them too,
but in about as many minutes as a run should take.

In `Tree`, a chain that is too deep takes four tickets, and so does a diamond with
a tail; a circle takes at least two and is closed by an edit, a migrate or a name
that comes back. A number comes back when the highest file of an initiative is
deleted, so three numbers are needed to delete in the middle and at the end. The
second initiative is where a migrate goes. One ticket edited at a time leaves the
others to what create and migrate do alone; the properties excuse edited
tickets, so more of them only excuse more. No list is told to name the ticket of
the second initiative, but migrate renames its way to some that do. The theorems do
without any of these bounds. The run has one command, for the graph is safe with one
only; what overlapping commands do to `OnlyLateIsReplaced` and
`EarlyWorkersAreLeftAlone` is left to the theorems (TLC agrees for two processes over
three ids and lists of the first one, without edits: 1.4 million states). `RewriteScope` is 100 in the
code; 2 lets a migrate be refused for it.

In `DepSearch`, four names make a chain that is too deep and a diamond with a tail,
two needs each make a diamond and a circle beside the way; deadlock is checked, so
no search gets stuck without an answer. The theorems hold for any number of names.

In `Options`, two of each name are enough to tell a choice from a default; the
settings have a profile that stands for another engine (as the default profile or
not), a changed default, and a missing engine. What the initiative says is chosen
anew at each of its reads, so that it also changes between the cap and the dispatch.

In `Tick`, the two weights are the least with which a tick that forgets what it
just dispatched goes over the cap, and the third ticket runs on an engine
without one and awaits the first, so the slice must show it what reconcile did.
An interval of 2 lets a tick skip between two windows, and a tick per unit of
time keeps the window shut. One command is enough to move a card between any
two steps of a tick; after it the ticks go on alone, as the liveness properties
need. The commands leave `dispatch` out: it takes no lock and looks at no cap,
and `CapsHold` is stated for ticks.

### What a document says and the code does not do

| run | property | what happens |
|---|---|---|
| `autoblock_early` | `AutoBlockNeedsConsecutiveFailures` | the help says max_retry *consecutive* failures; `attempts` survives done and reopen, so failures separated by a success add up |
| `race_artifact` | `ReconcileTrustsTheArtifact` | the worker writes its Result during the status query; reconcile fails the card by its old copy and erases that Result |
| `stall_starved` | `HungIsFailed` | a worker hangs and another ticket waits for it: the ready queue is never empty, so every tick loads the cards and moves `LastStallCheckAt` on, the window never opens, and the stall phase never runs (`cmd/tick.go:137`; the comment at `:21` says no transition is missed by more than one cycle) |
| `lock_overlap` | `OneTickAtATime` | `releaseLock` unlocks and then removes the path: one tick locks the old file, the next one creates a new file, both run |

Met while modelling, without a run of their own: `reconcile --dry-run` writes
the warning of a failed query, and so spends the budget of queries
(`cmd/reconcile.go:77`; `cmd/main.go:485` calls it a preview); a dependency may be
reopened after `dispatch` read it and before the worker starts
(`cmd/dispatch_cmd.go:167`); while every capped engine is full, the fast path
also skips ready tickets of engines without a cap, until the stall window opens
(the comment at `cmd/tick.go:217-219` calls these always available); an empty
weight map is dropped by `omitempty` and reads back as "not yet populated", so
a tree without workers never takes the fast path (`cmd/tick.go:38`); reopening a blocked ticket
neither counts an attempt nor archives the Result (`cmd/main.go:582-585` says
reopen does both); a *completed* worker with a Result of up to 50 characters is
failed by reconcile although `complete` accepts it (`cmd/reconcile.go:168-174`,
`cmd/main.go:490`); a command that read a card before it was closed takes it
out of `closed` again (`cmd/main.go:607` calls it terminal), and reconcile may
write its old copy over a card that became terminal (`README.md:306`). The last
two are the same lost update as `race_artifact`. Also:

- Where retries go. `clearDispatchFields` says that engine, model, effort and
  profile "are intentionally preserved" for the retry (`cmd/helpers.go:264-267`);
  `reopen` then clears the first three, one by one and for "fresh parameters"
  (`cmd/reopen.go:51-55`). The profile stays, and as it now comes from the card, the
  engine of the configuration is no longer passed either: a ticket that first ran
  with the defaults runs the second time with the profile alone.
  `RetriesGoTheSameWay` is what holds after a cancel, `ReopenedGoesToItsProfile`
  after a reopen.
- `--model` and `--effort` are dropped without a word when the engine comes from
  the configuration and the profile from anywhere above it
  (`dispatch/shell.go:65-74`); the help gives flags the first place
  (`cmd/main.go:384-388`).
- The cap is checked for the engine of the default profile even where the default
  engine is the one that is passed and counted (`cmd/dispatch_ready.go:145-149`), and for
  the model of the card where the profile decides: hence `DefaultsAgree` and "from
  the same place" in `CapIsCheckedWhereCounted`.
- The initiative's `default_profile` is read for the cap (`cmd/dispatch_ready.go:134`)
  and read again for the dispatch (`cmd/dispatch_cmd.go:151`, by way of `:271-277`). If
  it is saved in between, the cap is checked for one engine and the card counts for
  another, unless the card names a profile or an engine itself. An edit of the card
  between the scan and the dispatch does the same. Both are excused in
  `CapIsCheckedWhereCounted`, and each of its conditions is needed: without any one
  of them TLC finds the cap checked for another engine.
- Two creates at the same time take the same number, and the file that
  `cmd/create.go:107` refuses to replace is replaced. A worker that is started between
  the check of a `delete` or `migrate` and its files loses its card; and a command that
  has read the card before the removal writes the removed file back.
- `delete` and `migrate` with an id in another case find the file and not the
  tickets that name it (`cmd/helpers.go:92`): the ticket goes although others depend
  on it (`cmd/main.go:676` says it is refused).
- `edit` leaves a refused list in the file; and since it looks below the ticket
  only, edits from the bottom up build chains deeper than the three that
  `cmd/main.go:656` names.
- A killed cascade may have removed the ticket others need first (files go in the
  order of their names), and a killed `migrate` leaves two copies of the ticket.
- A Result left by a cancelled dispatch makes reconcile count a later, crashed
  worker as done (`cmd/reconcile.go:192`).

### Fairness

`LifecycleLive!LiveSpec` assumes weak fairness of `Beat(t)` (a timer runs `tick`,
which runs reconcile while any card is dispatched) and of `WorkerEnds`
(agent-mux enforces its own timeouts). `Beat` leaves the answer open: weak
fairness of `Reconcile` itself would be met only by a run that changes the
card, and so would oblige a query to fail while a worker is busy. Nothing is assumed of people: complete,
fail and reopen may never happen. Queries may fail for ever and
`DispatchedResolves` still holds, because the budget is counted in the card.
It holds with errors of one line; with longer ones the count starts again each
time (a hazard listed without a property).

`TickLock!LiveSpec` assumes that a process that has started goes on (the
operating system schedules it) and that the timer starts ticks for ever. It
assumes nothing about deaths, except that `TicksKeepRunning` is stated for
behaviours in which they stop some day: where every tick is killed none can run.
A killed process rests in `dead` and not in `idle`, only so that this condition
can tell a death from a tick that ends because another one holds the lock.

`Tick!LiveSpec` assumes that the timer starts ticks for ever and a tick goes on
(weak fairness of `Proceed`), that time passes (weak fairness of `TimePasses`,
which happens only between ticks), and that agent-mux does not fail every
dispatch of a ticket that comes up again and again (strong fairness of `Launch(t)`:
a ticket comes up and goes by in every tick). The liveness properties are
stated for behaviours in which ticks stop being killed some day, as above.
Nothing is assumed of reconcile: it may find every worker running for ever.
`HungIsFailedWhenQuiet` says what the code does guarantee where `HungIsFailed`
fails: a hung worker is failed unless tickets keep waiting in the queue.

## 4. What is proved

All theorems are checked by TLAPS for every value of the constants: any set of
tickets and dependency relation, any integer max_retry, any number of
dispatches, processes, pids and files, any faults. The assumptions are the named
ones beside the constants (`MaxRetryConfig \in Int`, `MaxDispatches \in Nat`,
`Faults \subseteq Fault`, `Lengths \subseteq BOOLEAN`, dependencies are functions
into sets of tickets, weights and bounds are natural numbers, the tickets of
`Tick` are a finite set of numbers, `None` is neither a process nor a file, ids
are pairs of numbers, and the empty value and the sentinel of `Options` name no
profile, engine, model or effort). TLC evaluates them in the runs. What the theorems
say of the graph (`TreeCircles`, `TreeDangling`, `TreeDeep`, and `TreeInvariant` under
them), and `RacesImplementTicketFsm`, have one more hypothesis, `Solo`: one command at
a time, beside which workers come and go; `TickCounted` and `TickCapsHold` have one of their own, that
nobody uses the command `dispatch` beside the ticks. Without these the properties
fail, and section 3 says how.

| module | theorem | establishes |
|---|---|---|
| LifecycleProofs | `LifecycleTypeOK`, `LifecycleCardsOK`, `LifecycleNewest` | the three invariants |
| LifecycleProofs | `LifecycleImplementsTicketFsm` | the refinement: every step is an abstract one or a stutter |
| LifecycleProofs | `LifecycleResultsKept` | no command loses a Result |
| LifecycleProofs | `HistoryFailuresBounded` | at most max_retry failures between two blocks |
| CardRacesProofs | `RacesTypeOK`, `RacesCardsOK`, `RacesNameOwnDispatches` | the same soundness under every interleaving and crash |
| CardRacesProofs | `RacesFreshWrites` | a write over a file that is still as it was read is one lawful step that loses nothing, however many commands overlap |
| CardRacesProofs | `RacesImplementTicketFsm` | one command at a time, in its reads and writes, refines `TicketFsm` |
| TickProofs | `TickTypeOK`, `TickCounted` | types; a tick counts every ticket that is dispatched, if only ticks dispatch |
| TickProofs | `TickCapsHold` | then no engine goes over its cap, for any weights and caps |
| TickLockProofs | `TickLockTypeOK`, `TickLockAlone` | flock alone keeps ticks apart until the path is removed |
| TreeProofs | `TreeTypeOK` | types, however many commands overlap |
| TreeProofs | `TreeOnlyLateReplaced`, `TreeEarlyWorkers` | however many commands overlap, only a file made after the plan is replaced, and only a worker started after it loses its card |
| TreeProofs | `TreeCircles`, `TreeDangling` | with one command at a time, circles and missing names only where an edit, a kill or a misspelt id explains them |
| TreeProofs | `TreeDeep` | with one command at a time, a chain that is too deep only below a ticket whose edit, or whose lost name, explains it |
| DepSearchProofs | `SearchTypeOK`, `SearchVerdict` | the searches never call themselves in a circle, and accept a graph just when `Accepts` does |
| DepSearchProofs | `SearchCascade` | a cascade collects `Branch`, no more and no less |
| OptionsProofs | `OptionsTypeOK`, `OptionsRetry`, `OptionsReopened` | the sentinel is never sent; where a cancelled and where a reopened ticket goes |
| OptionsProofs | `OptionsCap` | the cap is checked where the card will count, if the card did not change since the scan, if its initiative did not since the check or has no say, and if the default profile stands for the default engine and model |

The arguments:

- **CardsProofs** reads the table out of `transitions` (`WhereApplies`, `Table`)
  and shows of each command that it turns a sound card into a sound card and
  how it moves status, attempts, Result and archive (`Moves`, `Keeps`,
  `Reconciles`). Nothing later opens a command again.
- **Lifecycle**: `TypeOK /\ CardsOK /\ CurrentDispatchIsNewest` is inductive
  together; `CardsOK` is what makes `CurrentDispatchIsNewest` hold over a
  dispatch (an open card has no old id to keep) and what makes the refinement
  hold over a failure (attempts are below the budget, so the auto-block decides
  as `TicketFsm` does). `CommandSteps` shows that every command is one of five
  shapes (`Step`), from which refinement, newest dispatch and failure count
  follow.
- **LifecycleHistory**: `FailuresBounded` is not inductive. `FailuresCounted`
  adds that the count since the last block never exceeds `attempts`, plus one
  while the ticket rests in failed (or was closed from there).
- **CardRaces**: the invariant must also speak of what processes hold. `Good`
  says of each copy, and each card of a reconcile slice, that it is sound, names
  only dispatches of its own ticket, and is fit for the next step of its
  process (a copy on its way to a launch is still open, one in a slice is still
  dispatched). It says nothing of how old the copy is, and need not: a whole
  file of one sound card replaces the whole file of another.
  For `RacesFreshWrites` it has to: `FreshCopiesAgree` says that a copy of a file
  that is still `fresh` differs from the file only by what its own command changed.
  For the refinement, with one process, `Informed` says what the process knows: the
  status and attempts it read are still those on disk (workers change neither), and
  the gates it has left behind are met, those it has yet to read excepted. So the
  write at the end is the abstract step, and all reads before it are stutters; a
  gate that was passed on a ticket not yet terminal (`ReadAwaitedStarted`) breaks it.
- **TickLock**: while the path was never removed, every open descriptor leads to
  the file at the path, and flock gives that file to one process.

- **Tick**: `Counted` is inductive together with the types. What is dispatched on
  disk is dispatched in the slice, because reconcile tells the slice what it
  writes and the stall phase and people only take tickets away; from then on a
  launch adds its ticket to both sides. That people leave `dispatch` alone is a
  hypothesis of the theorem, and the code needs it: nothing keeps the command
  `dispatch` out while a tick runs.
  `TickCapsHold` needs more than `Counted`. A ticket that was cancelled while
  reconcile had it in hand is written back as dispatched, so the caps must hold not
  for the disk alone but for all that the slice calls dispatched
  (`SliceWithinCaps`). The weight of a set is a fold; that one
  ticket more adds its weight, and that a smaller set weighs no more, is shown by
  counting: the fold equals the number of pairs of a ticket and a unit of its weight
  (`Units`). What stands in for the induction over the set is its least part for
  which this would fail (`LeastPart`, from the well-foundedness of strict subsets).

- **Tree**, overlapping commands: `OverlapInv` has, beside the types, what each
  command knows (`Known`): a file it is to make is not there or came late, and a
  worker on a file it is to write or remove came late. Both hold after a plan, which
  looks at the whole tree in one step, and only what arrives can disturb them, which
  is what `late` collects. A command that goes on has ever fewer files to work on
  (`StepOfOwn`).
- **Tree**, one command at a time: `TreeInv` says of a running command what it has
  planned; nothing of it is about who is dispatched (`ShapeHolds`). Circles are
  handled without paths: a circle is a set of tickets each of which needs another
  one of the set, so "no circle through x" is closed under taking edges away, and
  a new one must go through a ticket whose list grew. Half-way through a migrate
  the tree is neither the old nor the new one; but reading the old id as the new
  one turns it into the planned tree (`Final`), so a circle in the one would be a
  circle in the other, which the plan was checked for. A missing name is one of a
  cascade that is still at work (`DanglingGoes`) until it ends, or is killed and
  notes what it left. A deep chain n, a, b, c is explained by one of n, a and b
  (`ChainsAreExplained`): the last one may be removed, and what was known of it with
  it, but then a chain ends there. A command that writes lists has checked that no
  ticket it plans starts a deep chain; who needs the new ticket of a `create` already
  named it while it was missing, and is explained by that; and a migrate moves the
  history of the old id to the new one.
- **DepSearch**: the invariant has a part per search. The path runs along edges
  that the loops have gone past (`PathHolds`), so an edge back to it closes a circle
  (`EdgeBack`) and a refusal is right. What detectCycle is done with is free of
  circles and no edge leaves it (`CycleHolds`); a ticket whose needs are all in such
  a set may join it (`AcyclicGrows`), so at the end the set holds all that is
  reached. Then the depth: what is cached is one more than the greatest depth cached
  for the needs (`Longest`), with nothing uncached below; three steps of that
  equation tell whether a chain is too long, no induction on depth is needed
  (`DepthTells`). That nothing on the path is met again while depth is measured
  follows from the search for circles that came first. What a cascade has not
  collected at its end is closed under needs, so it does not reach the ticket
  (`CollectedIsBranch`).
- **Options**: the types and `Remembers`, what the card has kept of the last
  dispatch: all of it after a cancel, its profile after a reopen. From there a
  retry is a case distinction: a card that names an engine decides alone
  (`CardDecides`), one that names only a profile leaves the engine to it
  (`LeftToTheProfile`). For the cap, a card that names a profile or an engine gives
  the initiative no say (`InitiativeHasNoSay`), so that the second read resolves to
  what the first one did.

Every invariant and every action property of a passing run, and both refinements,
are stated by a theorem. Only model-checked are the liveness properties
(`DispatchedResolves`, `TicksKeepRunning`, `ReadyIsDispatched`,
`HungIsFailedWhenQuiet`), which are out of this prover's reach, as is whatever needs
ENABLED; so it is a matter of TLC too that the searches of `DepSearch` do not stop
without an answer. That they stop at all follows from `SearchTypeOK` (no ticket is
twice on the stack) by an argument on the length of the path that is not part of the
proofs. That several commands at once refine `TicketFsm`, or keep the graph free of
circles, missing names and deep chains, is not stated, because it does not hold.

## 5. What is not modelled

- In `Tree`: a dispatch is one step, so not the one that has read its card when
  another command removes or renames it; what two commands at once do to the graph
  (described above, it follows from the missing lock); a write or a removal that fails ends the command there, which is the
  same as `Dies`; the check that an initiative exists; the thousandth ticket of an initiative, whose
  four digits no command accepts as an id.
- In `Options`: skills, the working directory and the preamble, which are passed
  through; empty strings in the profile maps; what agent-mux makes of a profile.
- Reconcile's dry run is in `Lifecycle` only; in `CardRaces` the stall phase is
  `Fail`, which is the write it does.
- In `Tick`: one stall timeout for all tickets instead of one per initiative
  and tier; the fallback to the log when `dispatched_at` is missing; engines that
  a profile decides; a failure to write `.tick-state` (the same as `Dies`); a
  worker that edits a file in place, which touches no directory; the stat of
  the cards and their parsing are one step.
- `dispatch-ready` as a command of its own beside a tick.
- `dispatch` of several ids in a loop with a pause in between: each is a
  dispatch of its own, with whatever settings (in the code those that the command
  read at its start, which in `Options` may be any too).
- Card files byte by byte: parsing, section editing and round trips are text
  processing. The one thing the commands rely on is that a rename replaces the
  whole file or nothing. Loss of power between write and rename is not modelled
  (the temporary file is synced first).
- A read that meets a malformed card, or a configuration that cannot be read:
  the command ends with an error, which is the same as `Dies`.
- The views, `init` and the help texts change no state. The help texts are
  quoted by the runs of the second table.

## 6. What comes next

All components that change state are modelled. What remains, most useful first:

1. **Caps across commands**: an abstract specification, "no engine over its cap",
   that one tick at a time implements and a tick beside `dispatch-ready` does not.
2. **Tree beside CardRaces**: a dispatch that has read its card while `delete` or
   `migrate` removes the file, in one model.
3. Proofs about the caps across commands, once they are stated.
