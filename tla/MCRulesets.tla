----------------------------- MODULE MCRulesets -----------------------------
(***************************************************************************)
(* An instance of Rulesets for TLC: two of the seeded keys, the first with *)
(* two drafts of a second version beside the one in force, and two drafts  *)
(* that no broker could meet.                                              *)
(***************************************************************************)
EXTENDS Rulesets, TLC

CONSTANTS v1, v2, v3, w1, q1, q2, q3, referrer, equipment

Is(o, n, cs) == [op |-> o, value |-> n, conditions |-> cs]
Always     == Is("always", 0, {})
Newcomer   == Is("lt", 2, {})
Seasoned   == Is("gte", 2, {})
EitherWay  == Is("any_of", 0, {Newcomer, Seasoned})
Nothing    == Is("all_of", 0, {})

Conditions == {Always, Newcomer, Seasoned, EitherWay, Nothing}

Mentored == [subjectType |-> "broker_business", appliesWhen |-> Newcomer,
             satisfiedBy |-> {"resume"}]
Counted  == [subjectType |-> "broker_profile", appliesWhen |-> EitherWay,
             satisfiedBy |-> {"resume", "degree_certificate"}]
Unmet    == [subjectType |-> "broker_profile", appliesWhen |-> Seasoned, satisfiedBy |-> {}]
Vacuous  == [subjectType |-> "broker_profile", appliesWhen |-> Nothing,
             satisfiedBy |-> {"degree_certificate"}]

Referrer  == WestpacSeeds.westpac_commercial_referrer
Equipment == NabSeeds.nab_equipment_finance_broker

Groups == Referrer \union Equipment \union {Mentored, Counted, Unmet, Vacuous}

Drafts == {Referrer \union {Counted}, {Unmet}, {Vacuous}, Malformed}

Drafted(n, definition) ==
  [key |-> referrer, number |-> n, status |-> "draft", definition |-> definition,
   superseded_by |-> NoRow]

Versions == ( v1 :> Seeded(referrer, Referrer)
           @@ v2 :> Drafted(2, Referrer \union {Mentored})
           @@ v3 :> Drafted(3, Referrer \union {Counted})
           @@ w1 :> Seeded(equipment, Equipment) )

Calls == Permutations(Request)
=============================================================================
