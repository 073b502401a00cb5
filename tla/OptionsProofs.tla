--------------------------- MODULE OptionsProofs ---------------------------
(***************************************************************************)
(* Proofs about Options, for any names, settings, initiatives, flags and   *)
(* edits.                                                                  *)
(*                                                                         *)
(* Two of the three properties about a second dispatch speak of the card   *)
(* as the first one left it, so they rest on what the card remembers of    *)
(* what was sent (Remembers), whatever has happened since.                 *)
(***************************************************************************)
EXTENDS Options, TLAPS

\* What a card names after a dispatch that asked for this.
Recorded(args) ==
  IF args.engine # None THEN args
  ELSE [profile |-> args.profile, engine |-> ProfileDefined,
        model |-> ProfileDefined, effort |-> None]

Remembers ==
  sent # Nothing =>
    /\ sent.profile # None
    /\ sent.engine = None <=> sent.model = None
    /\ sent.engine = None => sent.effort = None
    /\ touched = {} => card = Recorded(sent)
    /\ touched = {"reopen"} => card = [Nothing EXCEPT !.profile = sent.profile]

OptionsInv == TypeOK /\ Remembers

-----------------------------------------------------------------------------
(* What is resolved has a value of its own kind, never the sentinel. *)
LEMMA ResolvedType ==
  ASSUME NEW onCard \in CardFields, NEW flags \in Choices, NEW settings \in Settings,
         NEW ofInitiative \in Opt(Profiles)
  PROVE  LET o == Resolve(onCard, flags, settings, ofInitiative)
         IN /\ o.profile.value \in Opt(Profiles) /\ o.engine.value \in Opt(Engines)
            /\ o.model.value \in Opt(Models) /\ o.effort.value \in Opt(Efforts)
  <1>1. /\ None \notin Profiles \cup Engines \cup Models \cup Efforts
        /\ ProfileDefined \notin Profiles \cup Engines \cup Models \cup Efforts
    BY NamesAssumption
  <1>2. ResolveWithSource(flags.profile, onCard.profile, ofInitiative, settings.profile).value
          \in Opt(Profiles)
    BY <1>1, SentinelAssumption DEF ResolveWithSource, Opt, CardFields, Choices, Settings
  <1>3. ResolveWithSource(flags.engine, onCard.engine, None, settings.engine).value \in Opt(Engines)
    BY <1>1, SentinelAssumption DEF ResolveWithSource, Opt, CardFields, Choices, Settings
  <1>4. ResolveWithSource(flags.model, onCard.model, None, settings.model).value \in Opt(Models)
    BY <1>1, SentinelAssumption DEF ResolveWithSource, Opt, CardFields, Choices, Settings
  <1>5. ResolveWithSource(flags.effort, onCard.effort, None, settings.effort).value \in Opt(Efforts)
    BY <1>1, SentinelAssumption DEF ResolveWithSource, Opt, CardFields, Choices, Settings
  <1> QED
    BY <1>2, <1>3, <1>4, <1>5 DEF Resolve

(* What is sent are choices, and the card keeps a record of them. *)
LEMMA SendKeeps ==
  ASSUME NEW options,
         options.profile.value \in Opt(Profiles), options.engine.value \in Opt(Engines),
         options.model.value \in Opt(Models), options.effort.value \in Opt(Efforts),
         Send(options)
  PROVE  /\ sent' \in Choices /\ card' \in CardFields
         /\ status' = "dispatched" /\ touched' = {}
         /\ card' = Recorded(sent')
         /\ sent'.profile # None
         /\ sent'.engine = None <=> sent'.model = None
         /\ sent'.engine = None => sent'.effort = None
  <1> USE DEF Send, Resolved, DispatchArgs, CardAfter
  <1>1. CASE ShouldPassEngineFlags(options)
    <2>1. /\ sent' = card'
          /\ sent' = [profile |-> options.profile.value, engine |-> options.engine.value,
                      model |-> options.model.value, effort |-> options.effort.value]
      BY <1>1
    <2>2. sent' \in Choices /\ card' \in CardFields
      BY <2>1 DEF Choices, CardFields, Opt
    <2>3. sent'.profile # None /\ sent'.engine # None /\ sent'.model # None
      BY <2>1
    <2> QED
      BY <2>1, <2>2, <2>3 DEF Recorded
  <1>2. CASE ~ShouldPassEngineFlags(options)
    <2>1. /\ sent' = [profile |-> options.profile.value, engine |-> None, model |-> None, effort |-> None]
          /\ card' = [profile |-> options.profile.value, engine |-> ProfileDefined,
                      model |-> ProfileDefined, effort |-> None]
      BY <1>2
    <2>2. sent' \in Choices /\ card' \in CardFields
      BY <2>1 DEF Choices, CardFields, Opt
    <2>3. card' = Recorded(sent')
      BY <2>1 DEF Recorded
    <2> QED
      BY <2>1, <2>2, <2>3
  <1> QED
    BY <1>1, <1>2

(* Both kinds of dispatch send what is resolved from some flags and settings. *)
LEMMA DispatchKeeps ==
  ASSUME OptionsInv,
         \/ \E flags \in Flags, settings \in Configs, ofInitiative \in Opt(Profiles) :
              Dispatch(flags, settings, ofInitiative)
         \/ \E ofInitiative \in Opt(Profiles) : DispatchReady(ofInitiative)
  PROVE  OptionsInv'
  <1>1. PICK flags \in Choices, settings \in Configs, ofInitiative \in Opt(Profiles) :
          /\ Send(Resolve(card, flags, settings, ofInitiative))
          /\ UNCHANGED scan \/ scan' = NoScan
    <2>1. Nothing \in Choices /\ Flags \subseteq Choices
      BY InputsAssumption
    <2>2. CASE \E flags \in Flags, settings \in Configs, ofInitiative \in Opt(Profiles) :
                 Dispatch(flags, settings, ofInitiative)
      BY <2>1, <2>2 DEF Dispatch
    <2>3. CASE \E ofInitiative \in Opt(Profiles) : DispatchReady(ofInitiative)
      <3>1. scan.config \in Configs
        BY <2>3 DEF DispatchReady, OptionsInv, TypeOK, NoScan
      <3> QED
        BY <2>1, <2>3, <3>1 DEF DispatchReady
    <2> QED
      BY <2>2, <2>3
  <1> DEFINE options == Resolve(card, flags, settings, ofInitiative)
  <1>2. /\ options.profile.value \in Opt(Profiles) /\ options.engine.value \in Opt(Engines)
        /\ options.model.value \in Opt(Models) /\ options.effort.value \in Opt(Efforts)
    BY ConfigsAssumption, ResolvedType DEF OptionsInv, TypeOK
  <1>3. /\ sent' \in Choices /\ card' \in CardFields
        /\ status' = "dispatched" /\ touched' = {}
        /\ card' = Recorded(sent')
        /\ sent'.profile # None
        /\ sent'.engine = None <=> sent'.model = None
        /\ sent'.engine = None => sent'.effort = None
    <2> HIDE DEF options
    <2> QED
      BY <1>1, <1>2, SendKeeps DEF options
  <1>4. TypeOK'
    BY <1>1, <1>3 DEF OptionsInv, TypeOK
  <1>5. Remembers'
    BY <1>3 DEF Remembers
  <1> QED
    BY <1>4, <1>5 DEF OptionsInv

-----------------------------------------------------------------------------
LEMMA InitInv == Init => OptionsInv
  <1> SUFFICES ASSUME Init PROVE OptionsInv
    OBVIOUS
  <1>1. Nothing \in CardFields /\ Nothing \in Choices
    BY DEF Nothing, CardFields, Choices, Opt
  <1> QED
    BY <1>1 DEF Init, OptionsInv, TypeOK, Remembers

LEMMA NextInv == OptionsInv /\ [Next]_vars => OptionsInv'
  <1> SUFFICES ASSUME OptionsInv, [Next]_vars PROVE OptionsInv'
    OBVIOUS
  <1> USE DEF OptionsInv, TypeOK, Remembers
  <1>1. CASE \/ \E flags \in Flags, settings \in Configs, ofInitiative \in Opt(Profiles) :
                  Dispatch(flags, settings, ofInitiative)
             \/ \E ofInitiative \in Opt(Profiles) : DispatchReady(ofInitiative)
    BY <1>1, DispatchKeeps
  <1>2. ASSUME NEW settings \in Configs, ScanReady(settings)
        PROVE  OptionsInv'
    BY <1>2 DEF ScanReady, Opt
  <1>3. CASE LeaveReady
    BY <1>3 DEF LeaveReady
  <1>4. CASE Cancel
    BY <1>4 DEF Cancel
  <1>5. CASE Reopen
    <2>1. card' \in CardFields /\ card' = [Nothing EXCEPT !.profile = card.profile]
      BY <1>5 DEF Reopen, Reopened, Nothing, CardFields, Opt
    <2>2. sent # Nothing /\ touched' = {"reopen"} => card.profile = sent.profile
      <3>1. touched = {} \/ touched = {"reopen"} => Recorded(sent).profile = sent.profile
        BY DEF Recorded
      <3> QED
        BY <1>5, <3>1 DEF Reopen, Nothing
    <2> QED
      BY <1>5, <2>1, <2>2 DEF Reopen
  <1>6. CASE Edit
    BY <1>6, InputsAssumption DEF Edit
  <1>7. ASSUME NEW ofInitiative \in Opt(Profiles), CheckCap(ofInitiative)
        PROVE  OptionsInv'
    <2>1. scan \in [stage : {"read", "charged"}, card : CardFields, config : Configs,
                    ofInitiative : Opt(Profiles)]
      BY <1>7 DEF CheckCap, NoScan
    <2>2. scan' \in [stage : {"read", "charged"}, card : CardFields, config : Configs,
                     ofInitiative : Opt(Profiles)]
      BY <1>7, <2>1 DEF CheckCap
    <2> QED
      BY <1>7, <2>2 DEF CheckCap
  <1>8. CASE UNCHANGED vars
    BY <1>8 DEF vars
  <1> QED
    BY <1>1, <1>2, <1>3, <1>4, <1>5, <1>6, <1>7, <1>8 DEF Next

\* Types, with them that agent-mux is never asked for the sentinel, and what the
\* card remembers of the last dispatch.
THEOREM OptionsInvariant == Spec => []OptionsInv
  BY InitInv, NextInv, PTL DEF Spec

\* What is sent is a name or nothing, never the sentinel (resolveWithSource).
THEOREM OptionsTypeOK == Spec => []TypeOK
  BY OptionsInvariant, PTL DEF OptionsInv

-----------------------------------------------------------------------------
(* Either kind of dispatch without flags sends what the card, some settings *)
(* and some initiative give.                                                *)
LEMMA AgainSends ==
  ASSUME OptionsInv, Again
  PROVE  \E settings \in Settings, ofInitiative \in Opt(Profiles) :
           LET options == Resolve(card, Nothing, settings, ofInitiative)
           IN Resolved(options) /\ sent' = DispatchArgs(options)
  <1>1. \E settings \in Configs, ofInitiative \in Opt(Profiles) :
          Send(Resolve(card, Nothing, settings, ofInitiative))
    <2>1. CASE \E settings \in Configs, ofInitiative \in Opt(Profiles) :
                 Dispatch(Nothing, settings, ofInitiative)
      BY <2>1 DEF Dispatch
    <2>2. ASSUME NEW ofInitiative \in Opt(Profiles), DispatchReady(ofInitiative)
          PROVE  scan.config \in Configs /\ Send(Resolve(card, Nothing, scan.config, ofInitiative))
      BY <2>2 DEF DispatchReady, OptionsInv, TypeOK, NoScan
    <2> QED
      BY <2>1, <2>2 DEF Again
  <1> QED
    BY <1>1, ConfigsAssumption DEF Send

(* What a card names comes before the initiative and the configuration. *)
LEMMA CardDecides ==
  ASSUME NEW onCard \in CardFields, NEW settings \in Settings, NEW ofInitiative \in Opt(Profiles)
  PROVE  LET o == Resolve(onCard, Nothing, settings, ofInitiative)
         IN /\ onCard.profile # None =>
                 o.profile = [value |-> onCard.profile, source |-> "card"]
            /\ onCard.engine \notin {None, ProfileDefined} =>
                 o.engine = [value |-> onCard.engine, source |-> "card"]
            /\ onCard.engine \in {None, ProfileDefined} =>
                 o.engine.source \in {"config", "none"} /\ o.engine.value = settings.engine
            /\ onCard.model \notin {None, ProfileDefined} => o.model.value = onCard.model
            /\ onCard.effort # None => o.effort.value = onCard.effort
  <1>1. ProfileDefined \notin Opt(Profiles) /\ ProfileDefined \notin Opt(Efforts)
    BY NamesAssumption, SentinelAssumption DEF Opt
  <1> QED
    BY <1>1 DEF Resolve, ResolveWithSource, Nothing, CardFields

(* A card that names a profile and no engine leaves the engine to it. *)
LEMMA LeftToTheProfile ==
  ASSUME NEW onCard \in CardFields, NEW settings \in Settings, NEW ofInitiative \in Opt(Profiles),
         onCard.profile # None, onCard.engine \in {None, ProfileDefined},
         Resolved(Resolve(onCard, Nothing, settings, ofInitiative))
  PROVE  DispatchArgs(Resolve(onCard, Nothing, settings, ofInitiative)) =
           [Nothing EXCEPT !.profile = onCard.profile]
  <1> DEFINE o == Resolve(onCard, Nothing, settings, ofInitiative)
  <1>1. o.profile = [value |-> onCard.profile, source |-> "card"]
    BY CardDecides
  <1>2. o.engine.source = "config"
    <2>1. o.engine = ResolveWithSource(None, onCard.engine, None, settings.engine)
      BY DEF Resolve, Nothing
    <2>2. o.engine.value # None
      BY DEF Resolved
    <2> QED
      BY <2>1, <2>2 DEF ResolveWithSource
  <1>3. ~ShouldPassEngineFlags(o)
    BY <1>1, <1>2 DEF ShouldPassEngineFlags
  <1> QED
    BY <1>1, <1>3 DEF DispatchArgs, Nothing

LEMMA AgainTheSameWay ==
  ASSUME OptionsInv, Again, touched = {}
  PROVE  /\ sent'.profile = sent.profile /\ sent'.engine = sent.engine
         /\ sent'.model = sent.model /\ sent.effort \in {None, sent'.effort}
  <1>1. PICK settings \in Settings, ofInitiative \in Opt(Profiles) :
          /\ Resolved(Resolve(card, Nothing, settings, ofInitiative))
          /\ sent' = DispatchArgs(Resolve(card, Nothing, settings, ofInitiative))
    BY AgainSends
  <1>2. /\ sent # Nothing /\ card = Recorded(sent)
        /\ card \in CardFields /\ sent \in Choices
        /\ sent.profile # None
        /\ sent.engine = None <=> sent.model = None
        /\ sent.engine = None => sent.effort = None
    BY DEF OptionsInv, TypeOK, Remembers, Again
  <1> DEFINE o == Resolve(card, Nothing, settings, ofInitiative)
  <1>3. CASE sent.engine = None
    <2>1. card.profile = sent.profile /\ card.engine = ProfileDefined
      BY <1>2, <1>3 DEF Recorded
    <2>2. sent' = [Nothing EXCEPT !.profile = sent.profile]
      BY <1>1, <1>2, <2>1, LeftToTheProfile
    <2> QED
      BY <1>2, <1>3, <2>2 DEF Nothing
  <1>4. CASE sent.engine # None
    <2>1. card = sent
      BY <1>2, <1>4 DEF Recorded
    <2>2. sent.engine # ProfileDefined /\ sent.model # ProfileDefined
      BY <1>2, NamesAssumption, SentinelAssumption DEF Choices, Opt
    <2>3. /\ o.profile.value = sent.profile
          /\ o.engine = [value |-> sent.engine, source |-> "card"]
          /\ o.model.value = sent.model
          /\ sent.effort # None => o.effort.value = sent.effort
      <3>1. /\ card.profile # None /\ card.effort = sent.effort
            /\ card.engine \notin {None, ProfileDefined} /\ card.engine = sent.engine
            /\ card.model \notin {None, ProfileDefined} /\ card.model = sent.model
        BY <1>2, <1>4, <2>1, <2>2
      <3>2. /\ card.profile # None => o.profile = [value |-> card.profile, source |-> "card"]
            /\ card.engine \notin {None, ProfileDefined} =>
                 o.engine = [value |-> card.engine, source |-> "card"]
            /\ card.model \notin {None, ProfileDefined} => o.model.value = card.model
            /\ card.effort # None => o.effort.value = card.effort
        BY <1>1, <1>2, CardDecides
      <3> HIDE DEF o
      <3>3. o.profile.value = card.profile /\ card.profile = sent.profile
        BY <2>1, <3>1, <3>2
      <3> QED
        BY <3>1, <3>2, <3>3
    <2>4. ShouldPassEngineFlags(o)
      BY <2>3 DEF ShouldPassEngineFlags
    <2> HIDE DEF o
    <2> QED
      BY <1>1, <2>3, <2>4 DEF DispatchArgs, o
  <1> QED
    BY <1>3, <1>4

LEMMA AgainAfterReopen ==
  ASSUME OptionsInv, Again, touched = {"reopen"}
  PROVE  sent' = [Nothing EXCEPT !.profile = sent.profile]
  <1>1. PICK settings \in Settings, ofInitiative \in Opt(Profiles) :
          /\ Resolved(Resolve(card, Nothing, settings, ofInitiative))
          /\ sent' = DispatchArgs(Resolve(card, Nothing, settings, ofInitiative))
    BY AgainSends
  <1>2. card \in CardFields /\ card = [Nothing EXCEPT !.profile = sent.profile] /\ sent.profile # None
    BY DEF OptionsInv, TypeOK, Remembers, Again
  <1>3. card.profile = sent.profile /\ card.engine = None
    BY <1>2 DEF Nothing
  <1> QED
    BY <1>1, <1>2, <1>3, LeftToTheProfile

\* A cancelled ticket goes the way it went, for every history of settings, flags
\* and edits before its last dispatch (resolveDispatchOptions, dispatchTicket).
THEOREM OptionsRetry == Spec => RetriesGoTheSameWay
  <1>1. OptionsInv /\ [Next]_vars =>
          [touched = {} /\ Again =>
             /\ sent'.profile = sent.profile
             /\ sent'.engine = sent.engine
             /\ sent'.model = sent.model
             /\ sent.effort \in {None, sent'.effort}]_vars
    BY AgainTheSameWay
  <1> QED
    BY <1>1, OptionsInvariant, PTL DEF Spec, RetriesGoTheSameWay

\* A reopened ticket goes to its profile and to nothing else (cmdReopen).
THEOREM OptionsReopened == Spec => ReopenedGoesToItsProfile
  <1>1. OptionsInv /\ [Next]_vars =>
          [touched = {"reopen"} /\ Again => sent' = [Nothing EXCEPT !.profile = sent.profile]]_vars
    BY AgainAfterReopen
  <1> QED
    BY <1>1, OptionsInvariant, PTL DEF Spec, ReopenedGoesToItsProfile

-----------------------------------------------------------------------------
(* An initiative that says the same, or has no say, leaves where the engine *)
(* comes from as it was, and what goes into the card.                       *)
LEMMA InitiativeHasNoSay ==
  ASSUME NEW onCard \in CardFields, NEW settings \in Settings,
         NEW before \in Opt(Profiles), NEW now \in Opt(Profiles),
         DecidesItself(onCard) \/ now = before
  PROVE  LET o == Resolve(onCard, Nothing, settings, before)
             d == Resolve(onCard, Nothing, settings, now)
         IN /\ d.engine = o.engine /\ d.model = o.model
            /\ d.profile = o.profile \/ o.engine.source = "card"
  <1>1. /\ onCard.profile # ProfileDefined
        /\ onCard.engine \notin {None, ProfileDefined} =>
             Resolve(onCard, Nothing, settings, before).engine.source = "card"
    <2>1. onCard.profile # ProfileDefined
      BY NamesAssumption, SentinelAssumption DEF CardFields, Opt
    <2>2. onCard.engine \notin {None, ProfileDefined} =>
            Resolve(onCard, Nothing, settings, before).engine =
              [value |-> onCard.engine, source |-> "card"]
      BY CardDecides
    <2> QED
      BY <2>1, <2>2
  <1> QED
    BY <1>1 DEF Resolve, ResolveWithSource, Nothing, DecidesItself

LEMMA ChargedIsCounted ==
  ASSUME OptionsInv, NEW ofInitiative \in Opt(Profiles), DispatchReady(ofInitiative),
         card = scan.card, DecidesItself(card) \/ ofInitiative = scan.ofInitiative,
         DefaultsAgree(scan.config)
  PROVE  LET options == Resolve(scan.card, Nothing, scan.config, scan.ofInitiative)
             charged == Charged(options, scan.config)
             counted == Counted(card', scan.config)
         IN /\ charged.engine = counted.engine
            /\ options.engine.source = options.model.source => charged.model = counted.model
  <1> DEFINE o == Resolve(scan.card, Nothing, scan.config, scan.ofInitiative)
             d == Resolve(scan.card, Nothing, scan.config, ofInitiative)
  <1>1. scan.config \in Settings /\ card \in CardFields /\ scan.ofInitiative \in Opt(Profiles)
    BY ConfigsAssumption DEF OptionsInv, TypeOK, DispatchReady, NoScan
  <1>2. Resolved(d) /\ card' = CardAfter(d)
    BY DEF DispatchReady, Send
  <1>3. /\ d.profile.value \in Opt(Profiles) /\ d.engine.value \in Opt(Engines)
        /\ d.model.value \in Opt(Models)
        /\ ProfileDefined \notin Opt(Engines) \cup Opt(Models)
    <2>1. Nothing \in Choices
      BY InputsAssumption
    <2> QED
      BY <1>1, <2>1, ResolvedType, NamesAssumption, SentinelAssumption DEF Opt
  <1>4. /\ d.engine.source \in {"card", "config"}
        /\ d.engine.source = "config" => d.engine.value = scan.config.engine
        /\ d.model.source \in {"card", "config"}
        /\ d.model.source = "config" => d.model.value = scan.config.model
        /\ d.profile.source \in {"card", "initiative", "config"}
        /\ d.profile.source = "config" => d.profile.value = scan.config.profile
    BY <1>2 DEF Resolved, Resolve, ResolveWithSource, Nothing
  <1>5. /\ d.engine = o.engine /\ d.model = o.model
        /\ d.profile = o.profile \/ o.engine.source = "card"
    BY <1>1, InitiativeHasNoSay
  <1>6. /\ Charged(o, scan.config).engine = Charged(d, scan.config).engine
        /\ o.engine.source = o.model.source =>
             Charged(o, scan.config).model = Charged(d, scan.config).model
    <2> HIDE DEF o, d
    <2> QED
      BY <1>5 DEF Charged
  <1>7. CASE ShouldPassEngineFlags(d)
    <2>1. card'.engine = d.engine.value /\ card'.model = d.model.value
      BY <1>2, <1>7 DEF CardAfter
    <2>2. /\ Counted(card', scan.config).engine = d.engine.value
          /\ Counted(card', scan.config).model = d.model.value
      BY <1>3, <2>1 DEF Counted
    <2>3. d.engine.source = "config" => d.profile.source = "config"
      BY <1>4, <1>7 DEF ShouldPassEngineFlags
    <2> HIDE DEF o, d
    <2>4. Charged(d, scan.config).engine = d.engine.value
      BY <1>4, <2>3 DEF Charged, DefaultsAgree
    <2>5. d.engine.source = d.model.source => Charged(d, scan.config).model = d.model.value
      BY <1>4, <2>3 DEF Charged, DefaultsAgree
    <2> QED
      BY <1>5, <1>6, <2>2, <2>4, <2>5 DEF o
  <1>8. CASE ~ShouldPassEngineFlags(d)
    <2>1. d.engine.source = "config"
      BY <1>8 DEF ShouldPassEngineFlags
    <2>2. card'.engine = ProfileDefined /\ card'.model = ProfileDefined /\ card'.profile = d.profile.value
      BY <1>2, <1>8 DEF CardAfter
    <2>3. d.profile.value # None
      BY <1>2 DEF Resolved
    <2> HIDE DEF o, d
    <2>4. /\ Charged(d, scan.config).engine = Counted(card', scan.config).engine
          /\ d.engine.source = d.model.source =>
               Charged(d, scan.config).model = Counted(card', scan.config).model
      BY <2>1, <2>2, <2>3 DEF Charged, Counted
    <2> QED
      BY <1>5, <1>6, <2>4 DEF o
  <1> QED
    BY <1>7, <1>8

\* The cap of the right engine is checked, for every card and all settings in
\* which the default profile stands for the default engine and model, as long as
\* the card does not change and the initiative does not either or has no say
\* (dispatchReadyTicketsFromDocs, dispatchTicket, addCardToEngineWeight).
THEOREM OptionsCap == Spec => CapIsCheckedWhereCounted
  <1>1. OptionsInv /\ [Next]_vars =>
          [\A ofInitiative \in Opt(Profiles) :
             /\ DispatchReady(ofInitiative)
             /\ card = scan.card
             /\ DecidesItself(card) \/ ofInitiative = scan.ofInitiative
             /\ DefaultsAgree(scan.config)
             => LET options == Resolve(scan.card, Nothing, scan.config, scan.ofInitiative)
                    charged == Charged(options, scan.config)
                    counted == Counted(card', scan.config)
                IN /\ charged.engine = counted.engine
                   /\ options.engine.source = options.model.source =>
                        charged.model = counted.model]_vars
    BY ChargedIsCounted
  <1> QED
    BY <1>1, OptionsInvariant, PTL DEF Spec, CapIsCheckedWhereCounted
=============================================================================
