------------------------------ MODULE MCOptions ------------------------------
(* Two profiles, engines and models and one effort; settings in which the   *)
(* other profile has an engine of its own, in which the default profile     *)
(* has, and in which the default engine is missing; flags that name         *)
(* nothing, a profile, an engine, or a model and an effort; edits that      *)
(* clear the card, name an engine, a model or a profile alone, or all of    *)
(* them.                                                                    *)
EXTENDS Options

CONSTANTS p, q, e, f, m, n, high

MCProfiles == {p, q}
MCEngines == {e, f}
MCModels == {m, n}
MCEfforts == {high}

Plain == [profile |-> p, engine |-> e, model |-> m, effort |-> None,
          profileEngine |-> [x \in MCProfiles |-> None], profileModel |-> [x \in MCProfiles |-> None]]
Mapped == [Plain EXCEPT !.profileEngine[q] = f, !.profileModel[q] = n]
Swapped == [Plain EXCEPT !.profile = q, !.engine = f, !.model = n, !.effort = high]
MCConfigs ==
  {Plain, Mapped, Swapped, [Plain EXCEPT !.profileEngine[p] = f],
   [Plain EXCEPT !.engine = None]}

MCFlags ==
  {Nothing, [Nothing EXCEPT !.profile = q], [Nothing EXCEPT !.engine = f],
   [Nothing EXCEPT !.model = n, !.effort = high]}
MCEdits ==
  {Nothing, [Nothing EXCEPT !.engine = f], [Nothing EXCEPT !.model = n],
   [Nothing EXCEPT !.profile = q, !.effort = high],
   [profile |-> q, engine |-> f, model |-> n, effort |-> high],
   [profile |-> None, engine |-> ProfileDefined, model |-> ProfileDefined, effort |-> None]}
=============================================================================
