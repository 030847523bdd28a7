---------------------------- MODULE MC_Controller ----------------------------
(* Model-checking instance of Controller: two identities of which one has  *)
(* an account, up to two sessions, a threshold of two failures and a       *)
(* lockout of two seconds, so that lockouts arm and expire in a run.       *)
EXTENDS Controller, TLC

CONSTANTS u1, u2

MCUsers == {u1, u2}

MCAccounts == {u1}
=============================================================================
