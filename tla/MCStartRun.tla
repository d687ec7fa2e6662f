----------------------------- MODULE MCStartRun -----------------------------
EXTENDS StartRun, TLC

CONSTANTS q1, q2, q3
RequestSymmetry == Permutations({q1, q2, q3})

Start(i, r, d, k) == [intent |-> i, recipe |-> r, ident |-> d, dedup |-> k]

\* Two recipes lead to the hashed intent ih, which a client may also name; it
\* has no recipe and may be started with ih's deduplication id.  "keyless" has
\* no partition key, and its request no deduplication id.
MixedOffers == {Start("ih", "r1", "a", "ih"), Start("ih", "r2", "a", "ih"),
                Start("ih", "r1", "b", "ih"), Start("ih", "plain", "a", "k"),
                Start("it", "plain", "a", "ih"), Start("it", "plain", "keyless", "none")}
=============================================================================
