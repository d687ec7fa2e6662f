------------------------------ MODULE MCBoards ------------------------------
EXTENDS Boards, TLC

\* One recipe has versions 1 and 2, the other only 1.
TwoRecipes == "compile" :> {"v1", "v2"} @@ "other" :> {"v1"}
=============================================================================
