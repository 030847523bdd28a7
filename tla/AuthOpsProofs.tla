--------------------------- MODULE AuthOpsProofs ---------------------------
(***************************************************************************)
(* Lemmas about the lockout-policy operators of AuthOps: each operation    *)
(* returns an auth_state_t, and each preserves LockoutConsistent as long  *)
(* as the clock reads a positive time.  The component proofs (AuthProofs) *)
(* and the controller proofs (ControllerProofs) cite them.                *)
(***************************************************************************)
EXTENDS AuthOps, TLAPS

\* The type of an auth_authenticate verdict.
Verdicts == [rc : Codes, st : AuthStates, called : BOOLEAN]

LEMMA AfterLockoutCheckType ==
    ASSUME NEW st \in AuthStates, NEW t \in Nat
    PROVE  AfterLockoutCheck(st, t) \in AuthStates
BY DEF AfterLockoutCheck, ResetAttempts, AuthStates

LEMMA ResetAttemptsType ==
    ASSUME NEW st \in AuthStates
    PROVE  ResetAttempts(st) \in AuthStates
BY DEF ResetAttempts, AuthStates

LEMMA TrackUserType ==
    ASSUME NEW st \in AuthStates, NEW u \in Names
    PROVE  TrackUser(st, u) \in AuthStates
BY DEF TrackUser, AuthStates

LEMMA RecordFailureType ==
    ASSUME NEW st \in AuthStates, NEW t \in Nat
    PROVE  RecordFailure(st, t) \in AuthStates
BY LockoutDurationAssumption DEF RecordFailure, AuthStates

LEMMA AuthAuthenticateType ==
    ASSUME NEW st \in AuthStates, NEW u \in Names, NEW t \in Nat,
           NEW pam \in PamOutcomes
    PROVE  AuthAuthenticate(st, u, t, pam) \in Verdicts
<1> DEFINE s1 == TrackUser(AfterLockoutCheck(st, t), u)
<1>1. s1 \in AuthStates
  BY AfterLockoutCheckType, TrackUserType
<1>2. ResetAttempts(s1) \in AuthStates /\ RecordFailure(s1, t) \in AuthStates
  BY <1>1, ResetAttemptsType, RecordFailureType
<1>3. QED
  BY <1>1, <1>2 DEF AuthAuthenticate, Verdicts, Codes

-----------------------------------------------------------------------------
(* Each operation keeps the policy consistent at a positive time. *)

LEMMA AfterLockoutCheckConsistent ==
    ASSUME NEW st \in AuthStates, NEW t \in Nat, LockoutConsistent(st)
    PROVE  LockoutConsistent(AfterLockoutCheck(st, t))
BY MaxAttemptsAssumption DEF AfterLockoutCheck, ResetAttempts, LockoutConsistent, AuthStates

LEMMA ResetAttemptsConsistent ==
    ASSUME NEW st \in AuthStates
    PROVE  LockoutConsistent(ResetAttempts(st))
BY MaxAttemptsAssumption DEF ResetAttempts, LockoutConsistent, AuthStates

\* A cleared deadline means the counter is below the threshold, so one more
\* failure reaches it at most, and arms a nonzero deadline when it does.
LEMMA RecordFailureConsistent ==
    ASSUME NEW st \in AuthStates, NEW t \in Nat \ {0},
           LockoutConsistent(st), st.lockout_until = 0
    PROVE  LockoutConsistent(RecordFailure(st, t))
BY MaxAttemptsAssumption, LockoutDurationAssumption
   DEF RecordFailure, LockoutConsistent, AuthStates

\* Past the lockout check, auth_authenticate works on a state whose deadline
\* is cleared, and its result is consistent.
LEMMA AuthAuthenticateConsistent ==
    ASSUME NEW st \in AuthStates, NEW u \in Names, NEW t \in Nat \ {0},
           NEW pam \in PamOutcomes, LockoutConsistent(st)
    PROVE  LockoutConsistent(AuthAuthenticate(st, u, t, pam).st)
<1> DEFINE s0 == AfterLockoutCheck(st, t)
           s1 == TrackUser(s0, u)
<1>1. CASE IsLockedOut(st, t)
  BY <1>1 DEF AuthAuthenticate
<1>2. CASE ~IsLockedOut(st, t)
  <2>1. s0 \in AuthStates /\ LockoutConsistent(s0)
    BY AfterLockoutCheckType, AfterLockoutCheckConsistent
  <2>5. s0.lockout_until = 0
    BY <1>2 DEF IsLockedOut, AfterLockoutCheck, ResetAttempts, AuthStates
  <2>2. s1 \in AuthStates /\ LockoutConsistent(s1) /\ s1.lockout_until = 0
    BY <2>1, <2>5, MaxAttemptsAssumption DEF TrackUser, LockoutConsistent, AuthStates
  <2>3. LockoutConsistent(ResetAttempts(s1)) /\ LockoutConsistent(RecordFailure(s1, t))
    BY <2>2, ResetAttemptsConsistent, RecordFailureConsistent
  <2>4. QED
    BY <1>2, <2>2, <2>3 DEF AuthAuthenticate
<1>3. QED
  BY <1>1, <1>2

\* auth_authenticate returns KIA_SUCCESS only when the provider accepted:
\* the locked-out path and every provider failure return an error.
LEMMA AuthAuthenticateSuccess ==
    ASSUME NEW st, NEW u, NEW t, NEW pam \in PamOutcomes,
           AuthAuthenticate(st, u, t, pam).rc = "KIA_SUCCESS"
    PROVE  pam = "ok"
BY DEF AuthAuthenticate, PamOutcomes

=============================================================================
