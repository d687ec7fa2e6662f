-------------------------- MODULE MCReversiblePatch --------------------------
EXTENDS ReversiblePatch, TLC

To(p, t) == [path |-> p, post |-> t]

\* Two runs that patch the same file, each with a file of its own as well.
TwoRuns == {"r1", "r2"}
TwoRunPlans == "r1" :> {<<To("a", "x1"), To("b", "x2")>>}
                 @@ "r2" :> {<<To("a", "y1"), To("b", "y2")>>, <<To("b", "y2")>>}

AllTexts == {"empty", "old", "edit", "x1", "x2", "y1", "y2"}

\* The theorems that ask something of the plans speak of this instance.
ASSUME HypothesesHold == FreshTexts /\ PatchesOnce
=============================================================================
