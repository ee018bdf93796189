-------------------------- MODULE MCAuthSession --------------------------
(* Small instances of AuthSession: every constant is given its value by the  *)
(* configuration files.                                                      *)
EXTENDS AuthSession

===========================================================================
