------------------------------- MODULE Params -------------------------------
(***************************************************************************)
(* The gameplay parameters of one player and the rule that changes them:   *)
(* realtime-server/src/params.rs over the types of types.rs.  The module   *)
(* is pure: what a change does is a function of the stored parameters, the *)
(* time at which the next change is allowed, the request and the clock.    *)
(***************************************************************************)
EXTENDS Integers

CONSTANT Cooldown   \* PARAM_CHANGE_COOLDOWN_SECS

ASSUME CooldownAssumption == Cooldown \in Nat

ParamKind == {"gravity", "friction", "speed"}
ParamDirection == {"increase", "decrease"}

U8 == 0 .. 255
DefaultLevel == 2

\* param_level_bounds: two levels of friction, three of everything else.
Bounds(param) == 1 .. (IF param = "friction" THEN 2 ELSE 3)

DefaultParams == [param \in ParamKind |-> DefaultLevel]

\* The parameter vectors every player must stay in.
PlayerParams == {params \in [ParamKind -> 1 .. 3] :
                    \A param \in ParamKind : params[param] \in Bounds(param)}

\* u8 saturating_add(1) and saturating_sub(1).
Candidate(level, direction) ==
  CASE direction = "increase" -> IF level = 255 THEN 255 ELSE level + 1
    [] direction = "decrease" -> IF level = 0 THEN 0 ELSE level - 1

\* Mutant: the cooldown ends a second early.
ChangeAcceptedEarly(params, nextChange, param, direction, time) ==
  /\ time + 1 >= nextChange
  /\ Candidate(params[param], direction) \in Bounds(param)

\* Mutant: the range is not checked.
ChangeAcceptedAnyLevel(params, nextChange, param, direction, time) ==
  time >= nextChange

\* apply_param_change returns Ok: the cooldown first, then the range.
ChangeAccepted(params, nextChange, param, direction, time) ==
  /\ time >= nextChange
  /\ Candidate(params[param], direction) \in Bounds(param)

ChangedParams(params, param, direction) ==
  [params EXCEPT ![param] = Candidate(@, direction)]

\* Mutant: the cooldown is not added.
NextChangeNow(time) == time

NextChangeAfter(time) == time + Cooldown

-----------------------------------------------------------------------------
\* How many single steps separate two parameter vectors.
Apart(level, other) == IF level >= other THEN level - other ELSE other - level

ParamDistance(params, others) ==
  Apart(params["gravity"], others["gravity"])
    + Apart(params["friction"], others["friction"])
    + Apart(params["speed"], others["speed"])
=============================================================================
