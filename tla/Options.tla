------------------------------ MODULE Options ------------------------------
(***************************************************************************)
(* Which profile, engine, model and effort a ticket is dispatched with.    *)
(* Each comes from the first of four places that names it: the flags of    *)
(* the command, the card, the initiative (a profile only) and              *)
(* .tickets.toml.  A dispatch writes what it chose into the card, so that  *)
(* the next one finds it there, and dispatch-ready charges an engine's cap *)
(* before the card says which engine it is.                                *)
(*                                                                         *)
(* One ticket; the states a dispatch depends on are in Lifecycle.  Anyone  *)
(* may write .tickets.toml and the file of the initiative at any time, so  *)
(* what a command reads there is an input of the step that reads it:       *)
(* nothing ties one read to another.                                       *)
(***************************************************************************)

CONSTANTS
  Profiles, Engines, Models, Efforts,
  None,             \* an empty value
  ProfileDefined,   \* the sentinel in a card whose engine was left to the profile
  Configs,          \* what .tickets.toml can say,
  Flags,            \* what a command line can name,
  Edits             \* and what an editor can leave in the card (bounds)

Opt(S) == S \cup {None}
Choices == [profile : Opt(Profiles), engine : Opt(Engines),
            model : Opt(Models), effort : Opt(Efforts)]
CardFields == [profile : Opt(Profiles), engine : Opt(Engines) \cup {ProfileDefined},
               model : Opt(Models) \cup {ProfileDefined}, effort : Opt(Efforts)]
Nothing == [profile |-> None, engine |-> None, model |-> None, effort |-> None]

\* The default profile is never empty: config.Load fills it in.  The maps name
\* an engine and a model for some profiles.
Settings ==
  [profile : Profiles, engine : Opt(Engines), model : Opt(Models), effort : Opt(Efforts),
   profileEngine : [Profiles -> Opt(Engines)], profileModel : [Profiles -> Opt(Models)]]

ASSUME NamesAssumption ==
  {None, ProfileDefined} \cap (Profiles \cup Engines \cup Models \cup Efforts) = {}
ASSUME SentinelAssumption == None # ProfileDefined
ASSUME ConfigsAssumption == Configs \subseteq Settings
ASSUME InputsAssumption == Flags \subseteq Choices /\ Nothing \in Flags /\ Edits \subseteq CardFields

VARIABLES
  card,       \* what the card names
  status,     \* "open" or "dispatched"
  scan,       \* how far a running dispatch-ready is, and what it has read: the
              \* card, .tickets.toml and, once the cap is checked, the initiative
  sent,       \* history: what agent-mux was last asked for
  touched     \* history: what else has written the card since

vars == <<card, status, scan, sent, touched>>

NoScan == [stage |-> "none", card |-> Nothing, config |-> None, ofInitiative |-> None]

-----------------------------------------------------------------------------
\* Bug: the sentinel in the card is taken for an engine's name.
ResolveTheSentinel(flag, onCard, ofInitiative, default) ==
  IF flag # None THEN [value |-> flag, source |-> "cli"]
  ELSE IF onCard # None THEN [value |-> onCard, source |-> "card"]
  ELSE IF ofInitiative # None THEN [value |-> ofInitiative, source |-> "initiative"]
  ELSE IF default # None THEN [value |-> default, source |-> "config"]
  ELSE [value |-> None, source |-> "none"]

\* The first place that names it.
ResolveWithSource(flag, onCard, ofInitiative, default) ==
  IF flag # None THEN [value |-> flag, source |-> "cli"]
  ELSE IF onCard \notin {None, ProfileDefined} THEN [value |-> onCard, source |-> "card"]
  ELSE IF ofInitiative # None THEN [value |-> ofInitiative, source |-> "initiative"]
  ELSE IF default # None THEN [value |-> default, source |-> "config"]
  ELSE [value |-> None, source |-> "none"]

Resolve(onCard, flags, settings, ofInitiative) ==
  [profile |-> ResolveWithSource(flags.profile, onCard.profile, ofInitiative, settings.profile),
   engine |-> ResolveWithSource(flags.engine, onCard.engine, None, settings.engine),
   model |-> ResolveWithSource(flags.model, onCard.model, None, settings.model),
   effort |-> ResolveWithSource(flags.effort, onCard.effort, None, settings.effort)]

\* A dispatch that cannot name all three is refused.
Resolved(options) ==
  /\ options.profile.value # None
  /\ options.engine.value # None
  /\ options.model.value # None

\* Bug: a profile that the card names does not decide the engine.
PassUnlessInitiative(options) ==
  ~(/\ options.engine.source = "config"
    /\ options.profile.source \in {"cli", "initiative"})

\* A profile named above the configuration decides the engine, the model and
\* the effort, unless the engine is named above the configuration too.
ShouldPassEngineFlags(options) ==
  ~(/\ options.engine.source = "config"
    /\ options.profile.source \in {"cli", "card", "initiative"})

\* What agent-mux is asked for.
DispatchArgs(options) ==
  [profile |-> options.profile.value,
   engine |-> IF ShouldPassEngineFlags(options) THEN options.engine.value ELSE None,
   model |-> IF ShouldPassEngineFlags(options) THEN options.model.value ELSE None,
   effort |-> IF ShouldPassEngineFlags(options) THEN options.effort.value ELSE None]

\* What the card says afterwards.
CardAfter(options) ==
  [profile |-> options.profile.value,
   engine |-> IF ShouldPassEngineFlags(options) THEN options.engine.value ELSE ProfileDefined,
   model |-> IF ShouldPassEngineFlags(options) THEN options.model.value ELSE ProfileDefined,
   effort |-> IF ShouldPassEngineFlags(options) THEN options.effort.value ELSE None]

-----------------------------------------------------------------------------
\* The engine and the model behind a profile.
ResolveProfileEngine(settings, profile) ==
  IF settings.profileEngine[profile] # None THEN settings.profileEngine[profile] ELSE settings.engine
ResolveProfileModel(settings, profile) ==
  IF settings.profileModel[profile] # None THEN settings.profileModel[profile] ELSE settings.model

\* Bug: the cap of the default engine is charged.
ChargedByDefault(options, settings) ==
  [engine |-> options.engine.value, model |-> options.model.value]

\* The engine whose cap dispatch-ready looks at, and the model whose weight it
\* adds there.
Charged(options, settings) ==
  [engine |-> IF options.engine.source = "config"
                THEN ResolveProfileEngine(settings, options.profile.value)
                ELSE options.engine.value,
   model |-> IF options.model.source = "config"
               THEN ResolveProfileModel(settings, options.profile.value)
               ELSE options.model.value]

\* The engine that a dispatched card counts for from then on, and its model.
Counted(onCard, settings) ==
  [engine |-> IF onCard.engine = ProfileDefined /\ onCard.profile # None
                THEN ResolveProfileEngine(settings, onCard.profile)
                ELSE onCard.engine,
   model |-> IF onCard.model = ProfileDefined /\ onCard.profile # None
               THEN ResolveProfileModel(settings, onCard.profile)
               ELSE onCard.model]

-----------------------------------------------------------------------------
\* A ticket as create leaves it.
Init ==
  /\ card = Nothing /\ status = "open"
  /\ scan = NoScan
  /\ sent = Nothing /\ touched = {}

\* The card of an open ticket and its initiative are read, agent-mux called and
\* the card written.
Send(options) ==
  /\ status = "open" /\ Resolved(options)
  /\ sent' = DispatchArgs(options)
  /\ card' = CardAfter(options)
  /\ status' = "dispatched" /\ touched' = {}

Dispatch(flags, settings, ofInitiative) ==
  Send(Resolve(card, flags, settings, ofInitiative)) /\ UNCHANGED scan

\* dispatch-ready and the last phase of tick: .tickets.toml and all the cards are
\* read once;
ScanReady(settings) ==
  /\ scan = NoScan /\ status = "open"
  /\ scan' = [stage |-> "read", card |-> card, config |-> settings, ofInitiative |-> None]
  /\ UNCHANGED <<card, status, sent, touched>>

\* after the tickets before it and the pauses between them, the cap is checked
\* by that card, those settings and what its initiative says now,
CheckCap(ofInitiative) ==
  /\ scan.stage = "read"
  /\ Resolved(Resolve(scan.card, Nothing, scan.config, ofInitiative))
  /\ scan' = [scan EXCEPT !.stage = "charged", !.ofInitiative = ofInitiative]
  /\ UNCHANGED <<card, status, sent, touched>>

\* and dispatchTicket reads both the card and its initiative once more;
DispatchReady(ofInitiative) ==
  /\ scan.stage = "charged"
  /\ Send(Resolve(card, Nothing, scan.config, ofInitiative))
  /\ scan' = NoScan

\* or the ticket is left: over the cap, no longer fit, or nothing to ask for.
LeaveReady ==
  /\ scan # NoScan /\ scan' = NoScan
  /\ UNCHANGED <<card, status, sent, touched>>

\* A cancelled ticket keeps what its card names.
Cancel ==
  /\ status = "dispatched" /\ status' = "open"
  /\ UNCHANGED <<card, scan, sent, touched>>

\* Bug: a reopened ticket forgets its profile as well.
ReopenedBlank(onCard) == Nothing

\* What a reopened card still names.
Reopened(onCard) == [Nothing EXCEPT !.profile = onCard.profile]

\* A dispatched ticket that was failed, or done, and then reopened; or an open
\* one that was blocked and reopened.
Reopen ==
  /\ status' = "open"
  /\ card' = Reopened(card)
  /\ touched' = touched \cup {"reopen"}
  /\ UNCHANGED <<scan, sent>>

Edit ==
  /\ card' \in Edits \ {card}
  /\ touched' = touched \cup {"edit"}
  /\ UNCHANGED <<status, scan, sent>>

Next ==
  \/ \E flags \in Flags, settings \in Configs, ofInitiative \in Opt(Profiles) :
       Dispatch(flags, settings, ofInitiative)
  \/ \E settings \in Configs : ScanReady(settings)
  \/ \E ofInitiative \in Opt(Profiles) : CheckCap(ofInitiative) \/ DispatchReady(ofInitiative)
  \/ LeaveReady
  \/ Cancel
  \/ Reopen
  \/ Edit

Spec == Init /\ [][Next]_vars

-----------------------------------------------------------------------------
\* agent-mux is never asked for the sentinel: what is sent is the name of an
\* engine, of a model, or nothing (resolveWithSource).
TypeOK ==
  /\ card \in CardFields /\ status \in {"open", "dispatched"}
  /\ \/ scan = NoScan
     \/ scan \in [stage : {"read", "charged"}, card : CardFields, config : Configs,
                  ofInitiative : Opt(Profiles)]
  /\ sent \in Choices
  /\ touched \subseteq {"edit", "reopen"}

\* A dispatch that names nothing on its command line, of a ticket that was
\* dispatched before.
Again ==
  /\ sent # Nothing /\ status = "open" /\ status' = "dispatched"
  /\ \E ofInitiative \in Opt(Profiles) :
       \/ DispatchReady(ofInitiative)
       \/ \E settings \in Configs : Dispatch(Nothing, settings, ofInitiative)

\* A cancelled ticket that is dispatched again goes to the profile, engine and
\* model it went to before, whatever has been written to .tickets.toml and to
\* its initiative since; so does the effort, when there was one (dispatchTicket's
\* card fields, resolveDispatchOptions, ShouldPassEngineFlags).
RetriesGoTheSameWay ==
  [][ touched = {} /\ Again =>
        /\ sent'.profile = sent.profile
        /\ sent'.engine = sent.engine
        /\ sent'.model = sent.model
        /\ sent.effort \in {None, sent'.effort} ]_vars

\* A reopened ticket that is dispatched again goes to the profile it went to
\* before and to nothing else: its engine, also one the configuration or a flag
\* had named, is left to that profile (cmdReopen, ShouldPassEngineFlags).
ReopenedGoesToItsProfile ==
  [][ touched = {"reopen"} /\ Again => sent' = [Nothing EXCEPT !.profile = sent.profile] ]_vars

\* The default profile stands for the default engine and model.
DefaultsAgree(settings) ==
  /\ ResolveProfileEngine(settings, settings.profile) = settings.engine
  /\ ResolveProfileModel(settings, settings.profile) = settings.model

\* The card names the profile, or an engine, itself: the initiative has no say.
DecidesItself(onCard) == onCard.profile # None \/ onCard.engine \notin {None, ProfileDefined}

\* The engine whose cap dispatch-ready checked is the one the card counts for
\* once dispatched, though the card and the initiative are read anew for the
\* dispatch: if the card is still the one that was read, if it decides itself
\* or the initiative says what it said when the cap was checked, and if the
\* default profile stands for the default engine.  So is the model, if it comes
\* from the same place as the engine (dispatchReadyTicketsFromDocs and
\* dispatchTicket against addCardToEngineWeight).
CapIsCheckedWhereCounted ==
  [][ \A ofInitiative \in Opt(Profiles) :
        /\ DispatchReady(ofInitiative)
        /\ card = scan.card
        /\ DecidesItself(card) \/ ofInitiative = scan.ofInitiative
        /\ DefaultsAgree(scan.config)
        => LET options == Resolve(scan.card, Nothing, scan.config, scan.ofInitiative)
               charged == Charged(options, scan.config)
               counted == Counted(card', scan.config)
           IN /\ charged.engine = counted.engine
              /\ options.engine.source = options.model.source => charged.model = counted.model ]_vars
=============================================================================
