-------------------------- MODULE MCTokenLifecycle --------------------------
(* Small instances of TokenLifecycle.                                        *)
EXTENDS TokenLifecycle, TLC

Symmetry == Permutations(Browsers) \cup Permutations(Sessions)
            \cup Permutations(Tokens) \cup Permutations(Requests)

=============================================================================
