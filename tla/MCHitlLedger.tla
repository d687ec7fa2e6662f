---------------------------- MODULE MCHitlLedger ----------------------------
EXTENDS HitlLedger, TLC

CONSTANTS q1, q2, q3
RequestSymmetry == Permutations({q1, q2, q3})

Msg(g, l, k, p) == [gate |-> g, lane |-> l, key |-> k, payload |-> p]
Legacy == "g1" :> "legacy1" @@ "g2" :> "legacy2"

\* Every gate's answers have keys of their own; on g1 two clients use one key.
OwnKeys == {Msg("g1", "human", "k1", "yes"), Msg("g1", "human", "k1", "no"),
            Msg("g2", "human", "k2", "yes"),
            Msg("g2", "sys", "k3", "yes"), Msg("g2", "sys", "k3", "no")}

\* The theorems that ask something of the clients speak of this instance.
ASSUME HypothesesHold == KeysOfOneTopic
=============================================================================
