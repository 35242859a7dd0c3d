--------------------------- MODULE MCGroupRules ---------------------------
(* GroupRules on a small instance.                                         *)
EXTENDS GroupRules, TLC

CONSTANTS f, g1, s1, d1

\* One field, four values: absent, the one looked for, one that includes it,
\* and one that reads like it but is no string.
Missing == [kind |-> "missing", text |-> "", parts |-> {}]
Exact   == [kind |-> "string", text |-> "vip", parts |-> {"", "vip"}]
Longer  == [kind |-> "string", text |-> "vip-b2b", parts |-> {"", "vip", "vip-b2b"}]
Number  == [kind |-> "scalar", text |-> "vip", parts |-> {}]
Values  == {Missing, Exact, Longer, Number}

MCPayloads == [{f} -> Values]

Condition(op) == [field |-> f, operator |-> op, value |-> "vip"]

TwoConditions == {<<Condition("not_equals"), Condition("includes")>>}

OneGroup == {{}, {g1}}

OneEvent == {"order.created"}

Symmetry == Permutations(Ids)
=============================================================================
