----------------------------- MODULE MC_Launcher -----------------------------
(* A target identity with uid/gid 1000 in group 27 (sudo), launched by a  *)
(* manager with supplementary groups {0, 4} that root started, or that    *)
(* user 1001 started as a setuid-root program.                            *)
EXTENDS Launcher, TLC
=============================================================================
