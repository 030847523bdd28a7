------------------------------- MODULE MC_Auth -------------------------------
(* Model-checking instance of Auth: two identities, a threshold of two     *)
(* failures and a lockout of two seconds, so that a lockout is armed,      *)
(* observed in force and observed expired within MaxTime.                  *)
EXTENDS Auth, TLC

CONSTANTS u1, u2

MCUsers == {u1, u2}

UserSymmetry == Permutations(MCUsers)
=============================================================================
