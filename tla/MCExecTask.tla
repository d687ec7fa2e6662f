---------------------------- MODULE MCExecTask ----------------------------
EXTENDS ExecTask

\* One task, two, two tests of one name, which are one task, and too many.
FewPlans == {<<"a">>, <<"a", "b">>, <<"a", "a">>, <<"a", "b", "a">>}

\* Only a task of its own dies twice.
Deaths == [p \in FewPlans |-> IF p = <<"a">> THEN 2 ELSE 1]

\* A task of its own may lose the sandboxes of all its attempts.
Losses == [p \in FewPlans |-> IF p = <<"a">> THEN 3 ELSE 0]
=============================================================================
