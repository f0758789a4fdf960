------------------------------ MODULE RuleFiring ------------------------------
(***************************************************************************)
(* rules/engine.py, evaluate: for each event the enabled rules, by         *)
(* priority, whose conditions hold and that are not cooling down for the   *)
(* event's subject (its worker, else its camera) fire, and start cooling   *)
(* down for that subject.  A condition on an absent field or with an       *)
(* unknown operator fails: which rules' conditions hold is chosen freely.  *)
(***************************************************************************)
EXTENDS Integers, Sequences, FiniteSets, TLC

CONSTANTS
  RuleIds,       \* in a behaviour; ids are never drawn twice
  RuleSubjects,  \* workers and cameras
  RuleCooldown,  \* cooldown_s
  RuleMaxTime    \* bound on the clock

ASSUME RuleAssumption == RuleCooldown \in Nat /\ RuleMaxTime \in Nat

VARIABLES
  ruleEnabled,   \* the rules an operator has switched on
  ruleLast,      \* _last_fired: <<rule, subject>> -> time
  ruleNow,
  ruleFired,     \* history: <<rule, subject, time>> of this process's firings
  ruleEvent      \* history: the last event: [subject, matched, fired, due]

ruleVars == <<ruleEnabled, ruleLast, ruleNow, ruleFired, ruleEvent>>

RuleInit ==
  /\ ruleEnabled = RuleIds
  /\ ruleLast = <<>>
  /\ ruleNow = 0
  /\ ruleFired = {}
  /\ ruleEvent = [subject |-> "none", matched |-> {}, due |-> {}, fired |-> {}]

\* Mutant of RuleKey: one cooldown per rule.
RuleKeyOfRule(r, s) == <<r, "any">>

RuleKey(r, s) == <<r, s>>

\* Mutant of RuleCooling: a firing at the last instant is let through.
RuleCoolingShort(r, s) ==
  RuleKey(r, s) \in DOMAIN ruleLast /\ ruleNow - ruleLast[RuleKey(r, s)] < RuleCooldown - 1

RuleCooling(r, s) ==
  RuleKey(r, s) \in DOMAIN ruleLast /\ ruleNow - ruleLast[RuleKey(r, s)] < RuleCooldown

RuleFires(s, matched) == {r \in ruleEnabled \cap matched : ~ RuleCooling(r, s)}

RuleRested(r, s) == \A f \in ruleFired : f[1] = r /\ f[2] = s => ruleNow - f[3] >= RuleCooldown

RuleEvaluate(s, matched) ==
  LET fired == RuleFires(s, matched)
      keys == {RuleKey(r, s) : r \in fired}
  IN /\ ruleLast' = [k \in DOMAIN ruleLast \cup keys |-> IF k \in keys THEN ruleNow ELSE ruleLast[k]]
     /\ ruleFired' = ruleFired \cup {<<r, s, ruleNow>> : r \in fired}
     /\ ruleEvent' = [subject |-> s, matched |-> matched, fired |-> fired,
                      due |-> {r \in ruleEnabled \cap matched : RuleRested(r, s)}]
     /\ UNCHANGED <<ruleEnabled, ruleNow>>

\* PUT /rules/{id}: the rule is replaced under its id, its cooldowns stay
RuleSwitch(r) ==
  /\ ruleEnabled' = IF r \in ruleEnabled THEN ruleEnabled \ {r} ELSE ruleEnabled \cup {r}
  /\ UNCHANGED <<ruleLast, ruleNow, ruleFired, ruleEvent>>

\* a new process remembers no firing
RuleRestart ==
  /\ ruleLast' = <<>> /\ ruleFired' = {}
  /\ ruleEvent' = [ruleEvent EXCEPT !.subject = "none", !.matched = {}, !.fired = {}, !.due = {}]
  /\ UNCHANGED <<ruleEnabled, ruleNow>>

RuleTick ==
  /\ ruleNow < RuleMaxTime
  /\ ruleNow' = ruleNow + 1
  /\ UNCHANGED <<ruleEnabled, ruleLast, ruleFired, ruleEvent>>

RuleNext ==
  \/ \E s \in RuleSubjects, matched \in SUBSET RuleIds : RuleEvaluate(s, matched)
  \/ \E r \in RuleIds : RuleSwitch(r)
  \/ RuleRestart \/ RuleTick

RuleSpec == RuleInit /\ [][RuleNext]_ruleVars

-----------------------------------------------------------------------------
(* Within one process a rule fires for one subject at most once per        *)
(* cooldown, through switching it off and on again.                        *)
RuleOncePerCooldown ==
  \A f, g \in ruleFired : f[1] = g[1] /\ f[2] = g[2] /\ f[3] < g[3] => g[3] - f[3] >= RuleCooldown

(* "so one noisy worker can't starve others": a rule that matches and has  *)
(* rested for this subject fires, whoever else it fired for, and whatever  *)
(* events that did not match came before.                                  *)
RuleNobodyStarves == ruleEvent.due \subseteq ruleEvent.fired

(* A rule that matches fires for a subject when, and only when, it has     *)
(* rested for that subject.                                                *)
RuleFiresWhenRested ==
  RuleOncePerCooldown /\ RuleNobodyStarves
=============================================================================
