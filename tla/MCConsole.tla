------------------------------ MODULE MCConsole ------------------------------
EXTENDS Console, TLC

CONSTANTS c1, c2, c3, r1, r2, t1, a1, a2, w1, w2, w3, e1, e2

MCDateOf == [c \in Case |-> IF c = c3 THEN 2 ELSE 1]

MCInputs == {{<<c1, r1>>}}

(* Changed rules give the finding of c1 another key and drop that of c2. *)
MCOutcomes == {{<<c1, r1>>, <<c2, r1>>, <<c3, r1>>}, {<<c1, r2>>, <<c3, r1>>}}

(* Findings that tie in the score, one without an estimate. *)
MCScoreOf == [k \in FindingKey |-> 1]
MCDamageOf == [k \in FindingKey |-> IF k = <<c2, r1>> THEN None ELSE 5]
MCRankOf == 
  [k \in FindingKey |-> (CASE k[1] = c1 -> 0 [] k[1] = c2 -> 2 [] OTHER -> 4)
                          + (IF k[2] = r1 THEN 0 ELSE 1)]

(* One client on two days. *)
MCEntityOf == [c \in Case |-> IF c = c2 THEN e2 ELSE e1]

MCSelections == {FindingKey, {k \in FindingKey : k[2] = r1}}

(* Every kind of window; pages of one and one page for all. *)
Asked(x, s, e, among, o, n) ==
  [status |-> x, start |-> s, end |-> e, among |-> among, sort |-> o, size |-> n]

MCFilters ==
  {Asked("all", None, None, FindingKey, "risk_desc", 0),
   Asked("unhandled", 1, 2, FindingKey, "detected_asc", 1),
   Asked("all", None, 2, {k \in FindingKey : k[2] = r1}, "damage_desc", 1),
   Asked("white", 1, 2, FindingKey, "damage_asc", 201)}

Sym == Permutations(Admin) \union Permutations(Locked)
=============================================================================
