-------------------------- MODULE MCCircuitBreaker --------------------------
(* Small instances of CircuitBreaker.                                        *)
EXTENDS CircuitBreaker

=============================================================================
