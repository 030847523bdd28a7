------------------------------ MODULE AuthOps ------------------------------
(***************************************************************************)
(* The lockout policy of the Authenticator (src/src/auth.c), as operators *)
(* on an auth_state_t value.  They are pure: the component spec (Auth)    *)
(* and the login controller (Controller) both apply them to their own     *)
(* copy of the state.  The identity provider (PAM) is external: its       *)
(* verdict on one call is an input, one of PamOutcomes.                   *)
(***************************************************************************)
EXTENDS Naturals

CONSTANTS
    Users,            \* identity names the TUI or a caller can supply
    NoUser,           \* the empty string "" (a zeroed username buffer)
    MaxAttempts,      \* config->max_attempts
    LockoutDuration   \* config->lockout_duration, in seconds

\* config_load/config_validate only ever store max_attempts in [1,10] and
\* lockout_duration in [0,3600] (src/src/config.c:128, 140, 229).
ASSUME MaxAttemptsAssumption == MaxAttempts \in 1..10
ASSUME LockoutDurationAssumption == LockoutDuration \in 0..3600
ASSUME NoUserAssumption == NoUser \notin Users

Names == Users \cup {NoUser}

\* The verdicts of one call into the identity provider: pam_start fails,
\* pam_authenticate rejects, pam_acct_mgmt rejects, or both accept.
PamOutcomes == {"start_fail", "auth_fail", "acct_fail", "ok"}

\* The return codes of auth_authenticate (src/include/config.h).
Codes == {"KIA_SUCCESS", "KIA_ERROR_AUTH", "KIA_ERROR_PAM"}

\* auth_state_t: tracked username, failed_attempts, lockout_until (0 = unset).
AuthStates == [username : Names, failed_attempts : Nat, lockout_until : Nat]

\* The zeroed auth state that controller_init's memset leaves.
InitAuthState == [username |-> NoUser, failed_attempts |-> 0, lockout_until |-> 0]

\* The verdict of auth_is_locked_out at time t.
IsLockedOut(st, t) == st.lockout_until # 0 /\ t < st.lockout_until

\* auth_reset_attempts: a state with the counter and the deadline cleared.
ResetAttempts(st) ==
    [username |-> st.username, failed_attempts |-> 0, lockout_until |-> 0]

\* The side effect of auth_is_locked_out at time t: an expired lockout
\* clears both the deadline and the counter.
AfterLockoutCheck(st, t) ==
    IF st.lockout_until # 0 /\ t >= st.lockout_until
    THEN ResetAttempts(st)
    ELSE st

\* A different identity than the tracked one gets a clean counter.
TrackUser(st, u) ==
    IF st.username # u
    THEN [username |-> u, failed_attempts |-> 0, lockout_until |-> 0]
    ELSE st

\* Mutant: the lockout is armed only past the threshold (> for >=).
RecordFailureLateLockout(st, t) ==
    LET f == st.failed_attempts + 1
    IN  [username |-> st.username,
         failed_attempts |-> f,
         lockout_until |-> IF f > MaxAttempts THEN t + LockoutDuration
                                               ELSE st.lockout_until]

\* Mutant: the deadline is computed as now - lockout_duration.
RecordFailureWrongSign(st, t) ==
    LET f == st.failed_attempts + 1
    IN  [username |-> st.username,
         failed_attempts |-> f,
         lockout_until |-> IF f >= MaxAttempts THEN t - LockoutDuration
                                               ELSE st.lockout_until]

\* One provider rejection at time t: count it, and arm the lockout when
\* the counter reaches max_attempts.
RecordFailure(st, t) ==
    LET f == st.failed_attempts + 1
    IN  [username |-> st.username,
         failed_attempts |-> f,
         lockout_until |-> IF f >= MaxAttempts THEN t + LockoutDuration
                                               ELSE st.lockout_until]

\* auth_authenticate(u, password, config, st) at time t, when the provider
\* answers pam: the return code, the new state, and whether the provider
\* was asked to check the credentials.
AuthAuthenticate(st, u, t, pam) ==
    IF IsLockedOut(st, t)
    THEN [rc |-> "KIA_ERROR_AUTH", st |-> st, called |-> FALSE]
    ELSE LET s1 == TrackUser(AfterLockoutCheck(st, t), u)
         IN  CASE pam = "start_fail" ->
                    [rc |-> "KIA_ERROR_PAM", st |-> s1, called |-> FALSE]
               [] pam = "ok" ->
                    [rc |-> "KIA_SUCCESS", st |-> ResetAttempts(s1), called |-> TRUE]
               [] OTHER ->
                    [rc |-> "KIA_ERROR_AUTH", st |-> RecordFailure(s1, t), called |-> TRUE]

\* The lockout policy's state invariant: the counter never passes the
\* threshold, and a deadline is armed exactly when it is at the threshold.
LockoutConsistent(st) ==
    /\ st.failed_attempts <= MaxAttempts
    /\ (st.lockout_until # 0) <=> (st.failed_attempts = MaxAttempts)
=============================================================================
