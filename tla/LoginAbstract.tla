---------------------------- MODULE LoginAbstract ----------------------------
(***************************************************************************)
(* What the login manager promises, without its screens, buffers or the   *)
(* lockout policy (spec.md 1 and 4): after start-up it either gives up or *)
(* offers a login; an identity is granted a session only by the identity  *)
(* provider's acceptance or by the autologin configuration; a grant is    *)
(* used for at most one launch, or dropped when the launch fails before   *)
(* the fork; while the manager supervises a session it belongs to the     *)
(* granted identity; when supervision ends the manager exits (clean exit) *)
(* or offers a login again.                                               *)
(***************************************************************************)
CONSTANTS Users, NoUser

VARIABLES
    phase,        \* "setup", "login", "granted", "supervise" or "exit"
    granted,      \* the identity a launch may use, NoUser when none
    sessionUser   \* the identity of the supervised session, NoUser when none

vars == <<phase, granted, sessionUser>>

Phases == {"setup", "login", "granted", "supervise", "exit"}

TypeOK ==
    /\ phase \in Phases
    /\ granted \in Users \cup {NoUser}
    /\ sessionUser \in Users \cup {NoUser}

Init == phase = "setup" /\ granted = NoUser /\ sessionUser = NoUser

\* Start-up completes and the login screen is offered.
Ready == phase = "setup" /\ phase' = "login" /\ UNCHANGED <<granted, sessionUser>>

\* Start-up fails fatally.
GiveUp ==
    /\ phase = "setup"
    /\ phase' = "exit"
    /\ UNCHANGED <<granted, sessionUser>>

\* An identity is granted a session (autologin at start-up, or acceptance).
Grant(u) ==
    /\ phase \in {"setup", "login"}
    /\ phase' = "granted" /\ granted' = u
    /\ UNCHANGED sessionUser

\* The session of the granted identity is launched; the grant is used up.
Launch ==
    /\ phase = "granted"
    /\ phase' = "supervise" /\ sessionUser' = granted /\ granted' = NoUser

\* The launch fails before the session exists; the login screen returns.
Abandon ==
    /\ phase = "granted"
    /\ phase' = "login" /\ granted' = NoUser
    /\ UNCHANGED sessionUser

\* Supervision ends: a clean end exits the manager, any other returns to
\* the login screen.
End(clean) ==
    /\ phase = "supervise"
    /\ phase' = IF clean THEN "exit" ELSE "login"
    /\ sessionUser' = NoUser
    /\ UNCHANGED granted

Next ==
    \/ Ready \/ GiveUp \/ (\E u \in Users : Grant(u))
    \/ Launch \/ Abandon \/ (\E clean \in BOOLEAN : End(clean))

Spec == Init /\ [][Next]_vars
=============================================================================
