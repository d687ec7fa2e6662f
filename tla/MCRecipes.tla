----------------------------- MODULE MCRecipes -----------------------------
EXTENDS Recipes

V(id, v, name, evals, fixtures) ==
  [id |-> id, v |-> v, name |-> name, evals |-> evals, fixtures |-> fixtures]
A1 == V("r", 1, "n", 1, {<<"f", "x">>})
A2 == V("r", 2, "old", 1, {<<"f", "x">>})
\* Says something else of version 1, with another fixture or another content.
B1 == V("r", 1, "n", 1, {<<"f", "x">>, <<"g", "x">>})
C1 == V("r", 1, "n", 0, {<<"f", "y">>})
Other == V("q", 1, "old", 1, {<<"f", "x">>})

MCBundles == {<<A1, A2>>, <<A2, A1>>, <<B1>>, <<C1>>, <<A2, B1>>, <<A1, B1>>, <<Other>>}
MCLegacy == {V("old", 1, "old", 0, {})}
MCChecks == <<"c1", "c2">>
MCNeeds == [c \in {"c1", "c2"} |-> IF c = "c1" THEN {"a"} ELSE {"b"}]

\* Imports and evaluations share no state, so a behaviour has one or the other.
Only(actors, bound) ==
  InitWith([p \in Importers \cup Evaluators |-> IF p \in actors THEN bound ELSE 0])
MCInit == Only(Importers, MaxImports) \/ Only(Evaluators, MaxEvaluations)
MCSpec == MCInit /\ [][Next]_vars /\ Fairness
=============================================================================
