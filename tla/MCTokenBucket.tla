--------------------------- MODULE MCTokenBucket ---------------------------
(* Small instances of TokenBucket.                                           *)
EXTENDS TokenBucket

MCTimes == 0..6

=============================================================================
