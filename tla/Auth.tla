-------------------------------- MODULE Auth --------------------------------
(***************************************************************************)
(* The Authenticator as a component (src/src/auth.c): a caller invokes    *)
(* auth_authenticate, auth_is_locked_out and auth_reset_attempts on one   *)
(* auth_state_t in any order, while the wall clock that time(NULL) reads  *)
(* moves on.  The clock may also be set back by up to MaxClockStepBack    *)
(* seconds (an RTC/NTP correction); 0 makes it monotonic.                 *)
(***************************************************************************)
EXTENDS AuthOps

CONSTANTS
    MaxTime,          \* bound on the clock, so that runs are finite
    MaxClockStepBack  \* how far one clock correction may move time back

ASSUME MaxTimeAssumption == MaxTime \in Nat \ {0}
ASSUME MaxClockStepBackAssumption == MaxClockStepBack \in Nat

VARIABLES
    auth,     \* the caller's auth_state_t
    now,      \* what time(NULL) returns
    lastCall  \* the last API call: its operation, identity, provider contact

vars == <<auth, now, lastCall>>

Calls == [op : {"none", "authenticate", "is_locked_out", "reset"},
          user : Names, called : BOOLEAN, rc : Codes \cup {"none"}]

NoCall == [op |-> "none", user |-> NoUser, called |-> FALSE, rc |-> "none"]

TypeOK ==
    /\ auth \in AuthStates
    /\ now \in 1..MaxTime
    /\ lastCall \in Calls

Init ==
    /\ auth = InitAuthState
    /\ now = 1
    /\ lastCall = NoCall

\* auth_authenticate(u, ...), with the provider answering pam.  The
\* identity may be empty: the function only rejects NULL pointers.
Authenticate(u, pam) ==
    LET r == AuthAuthenticate(auth, u, now, pam)
    IN  /\ auth' = r.st
        /\ lastCall' = [op |-> "authenticate", user |-> u,
                        called |-> r.called, rc |-> r.rc]
        /\ UNCHANGED now

\* auth_is_locked_out(&state).
CheckLockedOut ==
    /\ auth' = AfterLockoutCheck(auth, now)
    /\ lastCall' = [op |-> "is_locked_out", user |-> NoUser, called |-> FALSE, rc |-> "none"]
    /\ UNCHANGED now

\* auth_reset_attempts(&state).
Reset ==
    /\ auth' = ResetAttempts(auth)
    /\ lastCall' = [op |-> "reset", user |-> NoUser, called |-> FALSE, rc |-> "none"]
    /\ UNCHANGED now

\* One second passes.
Tick ==
    /\ now < MaxTime
    /\ now' = now + 1
    /\ UNCHANGED <<auth, lastCall>>

\* The wall clock is corrected backwards.
ClockStepBack ==
    /\ \E d \in 1..MaxClockStepBack :
          /\ now - d >= 1
          /\ now' = now - d
    /\ UNCHANGED <<auth, lastCall>>

Next ==
    \/ \E u \in Names, pam \in PamOutcomes : Authenticate(u, pam)
    \/ CheckLockedOut
    \/ Reset
    \/ Tick
    \/ ClockStepBack

Spec == Init /\ [][Next]_vars

-----------------------------------------------------------------------------
(* Properties *)

\* The failure counter of the tracked identity never passes max_attempts,
\* and a lockout deadline is armed exactly when it has reached it: the
\* counter, the deadline and the tracked name are updated together on every
\* path of auth_authenticate and auth_is_locked_out.
LockoutInv == LockoutConsistent(auth)
=============================================================================
