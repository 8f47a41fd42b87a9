--------------------------- MODULE MCCheckpoints ----------------------------
EXTENDS Checkpoints, TLC

CONSTANTS a, b, c1, c2

Swaps == Permutations({a, b}) \cup Permutations({c1, c2})

=============================================================================
