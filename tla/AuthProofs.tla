----------------------------- MODULE AuthProofs -----------------------------
(***************************************************************************)
(* Proofs about the Authenticator component (Auth): the type invariant   *)
(* and the lockout invariant LockoutInv, for every value of the constants *)
(* allowed by their assumptions, with or without clock corrections.       *)
(***************************************************************************)
EXTENDS Auth, AuthOpsProofs, TLAPS

LEMMA LastCallType ==
    ASSUME NEW u \in Names, NEW r \in Verdicts
    PROVE  [op |-> "authenticate", user |-> u, called |-> r.called, rc |-> r.rc]
               \in Calls
BY DEF Verdicts, Calls, Codes

\* The type invariant of the component.
THEOREM TypeCorrect == Spec => []TypeOK
<1>1. Init => TypeOK
  BY MaxTimeAssumption DEF Init, TypeOK, InitAuthState, AuthStates, Names,
                           NoCall, Calls
<1>2. TypeOK /\ [Next]_vars => TypeOK'
  <2> SUFFICES ASSUME TypeOK, [Next]_vars PROVE TypeOK'
    OBVIOUS
  <2>1. ASSUME NEW u \in Names, NEW pam \in PamOutcomes, Authenticate(u, pam)
        PROVE  TypeOK'
    <3>1. AuthAuthenticate(auth, u, now, pam) \in Verdicts
      BY AuthAuthenticateType DEF TypeOK
    <3>2. QED
      BY <2>1, <3>1, LastCallType DEF Authenticate, TypeOK, Verdicts
  <2>2. CASE CheckLockedOut
    BY <2>2, AfterLockoutCheckType DEF CheckLockedOut, TypeOK, Calls, Names
  <2>3. CASE Reset
    BY <2>3, ResetAttemptsType DEF Reset, TypeOK, Calls, Names
  <2>4. CASE Tick
    BY <2>4, MaxTimeAssumption DEF Tick, TypeOK
  <2>5. CASE ClockStepBack
    BY <2>5, MaxTimeAssumption, MaxClockStepBackAssumption DEF ClockStepBack, TypeOK
  <2>6. CASE UNCHANGED vars
    BY <2>6 DEF vars, TypeOK
  <2>7. QED
    BY <2>1, <2>2, <2>3, <2>4, <2>5, <2>6 DEF Next
<1>3. QED
  BY <1>1, <1>2, PTL DEF Spec

\* The inductive invariant: the type invariant and the lockout invariant.
\* LockoutInv is inductive once the clock is known to read a positive time
\* (TypeOK), since a deadline now + lockout_duration must be nonzero.
IInv == TypeOK /\ LockoutInv

\* The lockout invariant holds in every reachable state.
THEOREM LockoutInvariant == Spec => []LockoutInv
<1>1. Init => IInv
  BY MaxTimeAssumption, MaxAttemptsAssumption
     DEF Init, IInv, TypeOK, LockoutInv, LockoutConsistent, InitAuthState,
         AuthStates, Names, NoCall, Calls
<1>2. IInv /\ [Next]_vars => LockoutInv'
  <2> SUFFICES ASSUME IInv, [Next]_vars PROVE LockoutInv'
    OBVIOUS
  <2>0. auth \in AuthStates /\ now \in Nat \ {0} /\ LockoutConsistent(auth)
    BY DEF IInv, TypeOK, LockoutInv
  <2>1. ASSUME NEW u \in Names, NEW pam \in PamOutcomes, Authenticate(u, pam)
        PROVE  LockoutInv'
    BY <2>0, <2>1, AuthAuthenticateConsistent DEF Authenticate, LockoutInv
  <2>2. CASE CheckLockedOut
    BY <2>0, <2>2, AfterLockoutCheckConsistent DEF CheckLockedOut, LockoutInv
  <2>3. CASE Reset
    BY <2>0, <2>3, ResetAttemptsConsistent DEF Reset, LockoutInv
  <2>4. CASE Tick \/ ClockStepBack \/ UNCHANGED vars
    BY <2>0, <2>4 DEF Tick, ClockStepBack, vars, LockoutInv, LockoutConsistent
  <2>5. QED
    BY <2>1, <2>2, <2>3, <2>4 DEF Next
<1>3. QED
  BY <1>1, <1>2, TypeCorrect, PTL DEF Spec, IInv
=============================================================================
