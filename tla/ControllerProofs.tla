--------------------------- MODULE ControllerProofs ---------------------------
(***************************************************************************)
(* Proofs about the login controller (Controller): the type invariant, the *)
(* lockout invariant of ctx->auth_state, and the two launch invariants    *)
(* NoSecretAtLaunch and LaunchRequiresAcceptance, for every set of        *)
(* identities and accounts and every value of the constants allowed by    *)
(* their assumptions.                                                     *)
(***************************************************************************)
EXTENDS Controller, AuthOpsProofs, TLAPS

\* The verdict handle_authenticate acts on is well typed, and consistent
\* when the auth state it starts from is.
LEMMA AnsweredVerdict ==
    ASSUME NEW st \in AuthStates, NEW u \in Names, NEW t \in Nat \ {0},
           NEW pam \in PamOutcomes
    PROVE  LET r == AuthAuthenticate(AfterLockoutCheck(st, t), u, t, pam)
           IN  /\ r \in Verdicts
               /\ ResetAttempts(r.st) \in AuthStates
               /\ LockoutConsistent(st) =>
                    /\ LockoutConsistent(r.st)
                    /\ LockoutConsistent(ResetAttempts(r.st))
<1>1. AfterLockoutCheck(st, t) \in AuthStates
  BY AfterLockoutCheckType
<1>2. AuthAuthenticate(AfterLockoutCheck(st, t), u, t, pam) \in Verdicts
  BY <1>1, AuthAuthenticateType
<1>3. ResetAttempts(AuthAuthenticate(AfterLockoutCheck(st, t), u, t, pam).st)
        \in AuthStates
  BY <1>2, ResetAttemptsType DEF Verdicts
<1>4. LockoutConsistent(st) =>
        LockoutConsistent(AuthAuthenticate(AfterLockoutCheck(st, t), u, t, pam).st)
  BY <1>1, AfterLockoutCheckConsistent, AuthAuthenticateConsistent
<1>5. LockoutConsistent(ResetAttempts(AuthAuthenticate(AfterLockoutCheck(st, t), u, t, pam).st))
  BY <1>2, ResetAttemptsConsistent DEF Verdicts
<1>6. QED
  BY <1>2, <1>3, <1>4, <1>5

\* The type invariant of the controller.
THEOREM ControllerTypeCorrect == Spec => []TypeOK
<1>1. Init => TypeOK
  <2> SUFFICES ASSUME Init PROVE TypeOK
    OBVIOUS
  <2>1. config \in Configs /\ auth \in AuthStates /\ authorized \in Names
    BY DEF Init, Configs, Names, InitAuthState, AuthStates
  <2>2. sessionCount \in 0..MaxSessions /\ selected \in -1..MaxSessions
          /\ now \in 1..MaxTime
    BY MaxSessionsAssumption, ControllerMaxTimeAssumption DEF Init
  <2>3. QED
    BY <2>1, <2>2 DEF Init, TypeOK, States, Names, Results, Children, Orphans
<1>2. TypeOK /\ [Next]_vars => TypeOK'
  <2> SUFFICES ASSUME TypeOK, [Next]_vars PROVE TypeOK'
    OBVIOUS
  <2>1. CASE HandleInit
    BY <2>1 DEF HandleInit, Goto, TypeOK, States, Results
  <2>2. CASE HandleLoadConfig
    BY <2>2, MaxSessionsAssumption DEF HandleLoadConfig, Goto, TypeOK, States, Results
  <2>3. CASE HandleCheckAutologin
    BY <2>3, MaxSessionsAssumption DEF HandleCheckAutologin, Goto, TypeOK, States, Results, Configs
  <2>4. CASE HandleShowLogin
    BY <2>4 DEF HandleShowLogin, Goto, TypeOK, States, Results
  <2>5. CASE HandleGetCredentials
    BY <2>5 DEF HandleGetCredentials, Goto, TypeOK, States, Results, Names
  <2>6. CASE HandleSelectSession
    BY <2>6, MaxSessionsAssumption DEF HandleSelectSession, Goto, TypeOK, States, Results
  <2>7. CASE HandleAuthenticate
    <3>1. CASE IsLockedOut(auth, now) /\ Goto("SHOW_LOGIN", "KIA_SUCCESS")
               /\ UNCHANGED <<auth, authorized>>
      BY <2>7, <3>1 DEF HandleAuthenticate, ZeroSecret, Goto, TypeOK, States, Results
    <3>2. ASSUME NEW pam \in PamOutcomes, AuthenticateAnswered(pam)
          PROVE  TypeOK'
      <4>1. LET r == AuthAuthenticate(AfterLockoutCheck(auth, now), username, now, pam)
            IN  r \in Verdicts /\ ResetAttempts(r.st) \in AuthStates
        BY AnsweredVerdict DEF TypeOK
      <4>2. QED
        BY <2>7, <3>2, <4>1 DEF HandleAuthenticate, AuthenticateAnswered,
                                ZeroSecret, Goto, TypeOK, States, Results, Verdicts
    <3>3. QED
      BY <2>7, <3>1, <3>2 DEF HandleAuthenticate
  <2>8. CASE HandleStartSession
    BY <2>8 DEF HandleStartSession, Goto, TypeOK, States, Results, Children, Names
  <2>9. CASE ChildExit
    BY <2>9 DEF ChildExit, TypeOK, Children
  <2>10. CASE WaitReturn
    BY <2>10 DEF WaitReturn, Goto, TypeOK, States, Results, Children
  <2>11. CASE Signal
    <3>1. CASE InterruptCredentials
      BY <2>11, <3>1 DEF Signal, InterruptCredentials, Goto, TypeOK, States,
                         Results, Names
    <3>2. CASE InterruptSelection
      BY <2>11, <3>2, MaxSessionsAssumption DEF Signal, InterruptSelection, Goto, TypeOK, States,
                         Results
    <3>3. CASE InterruptWait
      BY <2>11, <3>3 DEF Signal, InterruptWait, Goto, TypeOK, States,
                         Results, Children, Orphans
    <3>4. CASE UNCHANGED <<state, result, username, password, selected, child,
                           orphan>>
      BY <2>11, <3>4 DEF Signal, TypeOK
    <3>5. QED
      BY <2>11, <3>1, <3>2, <3>3, <3>4 DEF Signal
  <2>12. CASE OrphanExit
    BY <2>12 DEF OrphanExit, TypeOK, Orphans
  <2>13. CASE Tick
    BY <2>13, ControllerMaxTimeAssumption DEF Tick, TypeOK
  <2>14. CASE UNCHANGED vars
    BY <2>14 DEF vars, TypeOK
  <2>15. QED
    BY <2>1, <2>2, <2>3, <2>4, <2>5, <2>6, <2>7, <2>8, <2>9, <2>10, <2>11,
       <2>12, <2>13, <2>14 DEF Next
<1>3. QED
  BY <1>1, <1>2, PTL DEF Spec

-----------------------------------------------------------------------------
(* The lockout invariant *)

\* handle_authenticate's own lockout check, auth_authenticate and the extra
\* auth_reset_attempts on success keep ctx->auth_state consistent across
\* the whole login loop: the counter never passes max_attempts and the
\* deadline is armed exactly when it is at max_attempts.
THEOREM ControllerLockoutInvariant == Spec => []LockoutInv
<1>1. Init => LockoutInv
  BY MaxAttemptsAssumption DEF Init, LockoutInv, LockoutConsistent, InitAuthState
<1>2. TypeOK /\ LockoutInv /\ [Next]_vars => LockoutInv'
  <2> SUFFICES ASSUME TypeOK, LockoutInv, [Next]_vars PROVE LockoutInv'
    OBVIOUS
  <2>1. CASE HandleAuthenticate
    <3>1. CASE IsLockedOut(auth, now) /\ Goto("SHOW_LOGIN", "KIA_SUCCESS")
               /\ UNCHANGED <<auth, authorized>>
      BY <3>1 DEF LockoutInv
    <3>2. ASSUME NEW pam \in PamOutcomes, AuthenticateAnswered(pam)
          PROVE  LockoutInv'
      <4>1. LET r == AuthAuthenticate(AfterLockoutCheck(auth, now), username, now, pam)
            IN  LockoutConsistent(r.st) /\ LockoutConsistent(ResetAttempts(r.st))
        BY AnsweredVerdict DEF TypeOK, LockoutInv
      <4>2. QED
        BY <3>2, <4>1 DEF AuthenticateAnswered, LockoutInv
    <3>3. QED
      BY <2>1, <3>1, <3>2 DEF HandleAuthenticate
  <2>2. CASE ~HandleAuthenticate
    <3>1. auth' = auth
      BY <2>2 DEF Next, vars, HandleInit, HandleLoadConfig, HandleCheckAutologin,
                  HandleShowLogin, HandleGetCredentials, HandleSelectSession,
                  HandleStartSession, ChildExit, WaitReturn, Signal, OrphanExit,
                  Tick
    <3>2. QED
      BY <3>1 DEF LockoutInv, LockoutConsistent
  <2>3. QED
    BY <2>1, <2>2
<1>3. QED
  BY <1>1, <1>2, ControllerTypeCorrect, PTL DEF Spec


-----------------------------------------------------------------------------
(* The secret is zeroed before a launch *)

\* Where the typed secret can be held.  A secret is held from a successful
\* prompt until handle_authenticate zeroes it, and a cancelled selection
\* keeps it on the way back to the prompt (SecretHeldOnlyWhileNeeded fails),
\* but no path reaches START_SESSION or EXIT without passing the zeroing.
SecretInv ==
    password = Secret =>
        state \in {"SHOW_LOGIN", "GET_CREDENTIALS", "SELECT_SESSION", "AUTHENTICATE"}

\* No session is launched, and the manager never exits, while the secret
\* typed at the prompt is still in ctx->password.
THEOREM NoSecretAtLaunchHolds == Spec => []NoSecretAtLaunch
<1>1. Init => SecretInv
  BY DEF Init, SecretInv, Empty, Secret
<1>2. SecretInv /\ [Next]_vars => SecretInv'
  <2> SUFFICES ASSUME SecretInv, [Next]_vars PROVE SecretInv'
    OBVIOUS
  <2>0. Empty # Secret
    BY DEF Empty, Secret
  <2>1. CASE HandleInit \/ HandleLoadConfig \/ HandleShowLogin
    BY <2>1 DEF HandleInit, HandleLoadConfig, HandleShowLogin, Goto, SecretInv
  <2>2. CASE HandleCheckAutologin
    BY <2>2 DEF HandleCheckAutologin, Goto, SecretInv
  <2>3. CASE HandleGetCredentials
    BY <2>0, <2>3 DEF HandleGetCredentials, Goto, SecretInv
  <2>4. CASE HandleSelectSession
    BY <2>4 DEF HandleSelectSession, Goto, SecretInv
  <2>5. CASE HandleAuthenticate
    BY <2>0, <2>5 DEF HandleAuthenticate, ZeroSecret, SecretInv
  <2>6. CASE HandleStartSession \/ WaitReturn
    BY <2>6 DEF HandleStartSession, WaitReturn, Goto, SecretInv
  <2>7. CASE Signal
    BY <2>0, <2>7 DEF Signal, InterruptCredentials, InterruptSelection,
                      InterruptWait, Goto, SecretInv
  <2>8. CASE ChildExit \/ OrphanExit \/ Tick \/ UNCHANGED vars
    BY <2>8 DEF ChildExit, OrphanExit, Tick, vars, SecretInv
  <2>9. QED
    BY <2>1, <2>2, <2>3, <2>4, <2>5, <2>6, <2>7, <2>8 DEF Next
<1>3. TypeOK /\ SecretInv => NoSecretAtLaunch
  BY DEF TypeOK, SecretInv, NoSecretAtLaunch
<1>4. QED
  BY <1>1, <1>2, <1>3, ControllerTypeCorrect, PTL DEF Spec


-----------------------------------------------------------------------------
(* A fork only for the accepted identity *)

\* The strengthening of LaunchRequiresAcceptance: between the prompt and
\* the authentication call ctx->username holds a name the TUI returned
\* (never the zeroed buffer), so an acceptance recorded for it names a
\* real identity.
LaunchInv ==
    /\ state \in {"SELECT_SESSION", "AUTHENTICATE"} => username \in Users
    /\ LaunchRequiresAcceptance

\* Every step of the loop preserves LaunchInv.
LEMMA LaunchInvStep == TypeOK /\ LaunchInv /\ [Next]_vars => LaunchInv'
  <2> SUFFICES ASSUME TypeOK, LaunchInv, [Next]_vars PROVE LaunchInv'
    OBVIOUS
  <2>1. CASE HandleInit \/ HandleLoadConfig \/ HandleShowLogin
    BY <2>1 DEF HandleInit, HandleLoadConfig, HandleShowLogin, Goto, LaunchInv,
                LaunchRequiresAcceptance
  <2>2. CASE HandleCheckAutologin
    BY <2>2 DEF HandleCheckAutologin, Goto, LaunchInv, LaunchRequiresAcceptance
  <2>3. CASE HandleGetCredentials
    BY <2>3 DEF HandleGetCredentials, Goto, LaunchInv, LaunchRequiresAcceptance
  <2>4. CASE HandleSelectSession
    BY <2>4 DEF HandleSelectSession, Goto, LaunchInv, LaunchRequiresAcceptance
  <2>5. CASE HandleAuthenticate
    <3>0. username \in Users /\ username # NoUser
      BY <2>5, NoUserAssumption DEF HandleAuthenticate, LaunchInv
    <3>1. CASE IsLockedOut(auth, now) /\ Goto("SHOW_LOGIN", "KIA_SUCCESS")
               /\ UNCHANGED <<auth, authorized>>
      BY <3>1 DEF Goto, LaunchInv, LaunchRequiresAcceptance
    <3>2. ASSUME NEW pam \in PamOutcomes, AuthenticateAnswered(pam)
          PROVE  LaunchInv'
      <4> DEFINE r == AuthAuthenticate(AfterLockoutCheck(auth, now), username, now, pam)
      <4>1. CASE r.rc = "KIA_SUCCESS"
        <5>1. pam = "ok"
          BY <4>1, AuthAuthenticateSuccess
        <5>2. QED
          BY <2>5, <3>0, <3>2, <4>1, <5>1
             DEF HandleAuthenticate, AuthenticateAnswered, Goto, LaunchInv,
                 LaunchRequiresAcceptance
      <4>2. CASE r.rc # "KIA_SUCCESS"
        BY <3>2, <4>2 DEF AuthenticateAnswered, Goto, LaunchInv,
                          LaunchRequiresAcceptance
      <4>3. QED
        BY <4>1, <4>2
    <3>3. QED
      BY <2>5, <3>1, <3>2 DEF HandleAuthenticate
  <2>6. CASE HandleStartSession
    BY <2>6 DEF HandleStartSession, Goto, LaunchInv, LaunchRequiresAcceptance
  <2>7. CASE ChildExit
    BY <2>7 DEF ChildExit, LaunchInv, LaunchRequiresAcceptance
  <2>8. CASE WaitReturn
    BY <2>8 DEF WaitReturn, Goto, LaunchInv, LaunchRequiresAcceptance
  <2>9. CASE Signal
    BY <2>9 DEF Signal, InterruptCredentials, InterruptSelection,
                InterruptWait, Goto, LaunchInv, LaunchRequiresAcceptance
  <2>10. CASE OrphanExit \/ Tick \/ UNCHANGED vars
    BY <2>10 DEF OrphanExit, Tick, vars, LaunchInv, LaunchRequiresAcceptance
  <2>11. QED
    BY <2>1, <2>2, <2>3, <2>4, <2>5, <2>6, <2>7, <2>8, <2>9, <2>10 DEF Next

\* session_start is reached only with the identity the provider accepted on
\* the way into START_SESSION (or autologin configured), and each acceptance
\* is used by one fork at most.
THEOREM LaunchRequiresAcceptanceHolds == Spec => []LaunchRequiresAcceptance
<1>1. Init => LaunchInv
  BY DEF Init, LaunchInv, LaunchRequiresAcceptance
<1>2. QED
  BY <1>1, LaunchInvStep, ControllerTypeCorrect, PTL DEF Spec, LaunchInv

-----------------------------------------------------------------------------
(* Refinement of the abstract login manager *)

\* The forked child is only ever tracked in START_SESSION: waitpid's return
\* and its interruption both leave that state and forget the child.
ChildInv == child # "none" => state = "START_SESSION"

RefineInv == LaunchInv /\ ChildInv

LEMMA RefineInvariant == Spec => []RefineInv
<1>1. Init => RefineInv
  BY DEF Init, RefineInv, LaunchInv, LaunchRequiresAcceptance, ChildInv
<1>2. TypeOK /\ RefineInv /\ [Next]_vars => ChildInv'
  <2> SUFFICES ASSUME TypeOK, RefineInv, [Next]_vars PROVE ChildInv'
    OBVIOUS
  <2>1. CASE HandleInit \/ HandleLoadConfig \/ HandleShowLogin
             \/ HandleCheckAutologin \/ HandleGetCredentials
             \/ HandleSelectSession
    BY <2>1 DEF HandleInit, HandleLoadConfig, HandleShowLogin,
                HandleCheckAutologin, HandleGetCredentials,
                HandleSelectSession, Goto, RefineInv, ChildInv
  <2>2. CASE HandleAuthenticate
    BY <2>2 DEF HandleAuthenticate, AuthenticateAnswered, Goto, RefineInv, ChildInv
  <2>3. CASE HandleStartSession \/ ChildExit \/ WaitReturn
    BY <2>3 DEF HandleStartSession, ChildExit, WaitReturn, Goto, RefineInv, ChildInv
  <2>4. CASE Signal
    BY <2>4 DEF Signal, InterruptCredentials, InterruptSelection,
                InterruptWait, Goto, RefineInv, ChildInv
  <2>5. CASE OrphanExit \/ Tick \/ UNCHANGED vars
    BY <2>5 DEF OrphanExit, Tick, vars, RefineInv, ChildInv
  <2>6. QED
    BY <2>1, <2>2, <2>3, <2>4, <2>5 DEF Next
<1>3. TypeOK /\ RefineInv /\ [Next]_vars => RefineInv'
  BY <1>2, LaunchInvStep DEF RefineInv
<1>4. QED
  BY <1>1, <1>3, ControllerTypeCorrect, PTL DEF Spec

\* The login controller implements the abstract login manager: every
\* handler of controller_run, every signal path and every child event is a
\* step of LoginAbstract under the mapping of Controller, or leaves the
\* abstract state unchanged.
THEOREM ImplementsLoginHolds == Spec => ImplementsLogin
<1>1. Init => Login!Init
  BY DEF Init, Login!Init, LoginPhase, LoginGranted, LoginSessionUser
<1>2. TypeOK /\ RefineInv /\ [Next]_vars => [Login!Next]_Login!vars
  <2> SUFFICES ASSUME TypeOK, RefineInv, [Next]_vars PROVE [Login!Next]_Login!vars
    OBVIOUS
  <2> USE DEF LoginPhase, LoginGranted, LoginSessionUser, Login!vars
  <2>1. CASE HandleInit
    BY <2>1 DEF HandleInit, Goto, RefineInv, ChildInv, Login!Next, Login!GiveUp
  <2>2. CASE HandleLoadConfig
    BY <2>2 DEF HandleLoadConfig, Goto, RefineInv, ChildInv, Login!Next, Login!GiveUp
  <2>3. CASE HandleCheckAutologin
    <3>0. state = "CHECK_AUTOLOGIN" /\ child = "none" /\ UNCHANGED child
      BY <2>3 DEF HandleCheckAutologin, RefineInv, ChildInv
    <3>1. CASE config.autologin_enabled /\ config.autologin_user # NoUser
                                       /\ config.autologin_user \in Accounts
      <4>1. config.autologin_user \in Users
        BY <3>1, AccountsAssumption
      <4>2. state' = "START_SESSION" /\ authorized' = config.autologin_user
        BY <2>3, <3>1 DEF HandleCheckAutologin, Goto
      <4>3. Login!Grant(config.autologin_user)
        BY <3>0, <4>2 DEF Login!Grant
      <4>4. QED
        BY <4>1, <4>3 DEF Login!Next
    <3>2. CASE ~(config.autologin_enabled /\ config.autologin_user # NoUser
                                         /\ config.autologin_user \in Accounts)
      <4>1. Login!Ready
        BY <2>3, <3>0, <3>2 DEF HandleCheckAutologin, Goto, Login!Ready
      <4>2. QED
        BY <4>1 DEF Login!Next
    <3>3. QED
      BY <3>1, <3>2
  <2>4. CASE HandleShowLogin \/ HandleGetCredentials \/ HandleSelectSession
    BY <2>4 DEF HandleShowLogin, HandleGetCredentials, HandleSelectSession,
                Goto, RefineInv, ChildInv
  <2>5. CASE HandleAuthenticate
    <3>0. username \in Users /\ child = "none"
      BY <2>5 DEF HandleAuthenticate, RefineInv, LaunchInv, ChildInv
    <3>1. CASE IsLockedOut(auth, now) /\ Goto("SHOW_LOGIN", "KIA_SUCCESS")
               /\ UNCHANGED <<auth, authorized>>
      BY <2>5, <3>1 DEF HandleAuthenticate, Goto
    <3>2. ASSUME NEW pam \in PamOutcomes, AuthenticateAnswered(pam)
          PROVE  [Login!Next]_Login!vars
      <4> DEFINE r == AuthAuthenticate(AfterLockoutCheck(auth, now), username, now, pam)
      <4>1. CASE r.rc = "KIA_SUCCESS"
        <5>1. pam = "ok"
          BY <4>1, AuthAuthenticateSuccess
        <5>2. /\ state' = "START_SESSION" /\ authorized' = username
              /\ state = "AUTHENTICATE" /\ UNCHANGED child
          BY <2>5, <3>2, <4>1, <5>1 DEF HandleAuthenticate, AuthenticateAnswered, Goto
        <5>4. Login!Grant(username)
          BY <3>0, <5>2 DEF Login!Grant
        <5>3. QED
          BY <3>0, <5>4 DEF Login!Next
      <4>2. CASE r.rc # "KIA_SUCCESS"
        BY <2>5, <3>0, <3>2, <4>2 DEF HandleAuthenticate, AuthenticateAnswered, Goto
      <4>3. QED
        BY <4>1, <4>2
    <3>3. QED
      BY <2>5, <3>1, <3>2 DEF HandleAuthenticate
  <2>6. CASE HandleStartSession
    <3>1. authorized # NoUser /\ username = authorized
      BY <2>6 DEF HandleStartSession, RefineInv, LaunchInv, LaunchRequiresAcceptance
    <3>2. CASE ValidIndex(selected) /\ username \in Accounts /\ child' = "running"
      <4>0. /\ state = "START_SESSION" /\ child = "none" /\ UNCHANGED <<state, username>>
            /\ authorized' = NoUser
        BY <2>6, <3>2 DEF HandleStartSession, ValidIndex
      <4>1. Login!Launch
        BY <3>1, <3>2, <4>0 DEF Login!Launch
      <4>2. QED
        BY <4>1 DEF Login!Next
    <3>3. CASE ~(ValidIndex(selected) /\ username \in Accounts /\ child' = "running")
      <4>0. /\ state = "START_SESSION" /\ child = "none" /\ state' = "SHOW_LOGIN"
            /\ UNCHANGED child
        BY <2>6, <3>3 DEF HandleStartSession, Goto
      <4>1. Login!Abandon
        BY <4>0 DEF Login!Abandon
      <4>2. QED
        BY <4>1 DEF Login!Next
    <3>4. QED
      BY <3>2, <3>3
  <2>7. CASE ChildExit
    BY <2>7 DEF ChildExit, RefineInv, ChildInv
  <2>8. CASE WaitReturn
    BY <2>8 DEF WaitReturn, Goto, Login!Next, Login!End
  <2>9. CASE Signal
    <3>1. CASE InterruptCredentials \/ InterruptSelection
      BY <2>9, <3>1 DEF Signal, InterruptCredentials, InterruptSelection,
                        Goto, RefineInv, ChildInv
    <3>2. CASE InterruptWait
      <4>1. Login!End(FALSE)
        BY <2>9, <3>2 DEF Signal, InterruptWait, Goto, Login!End
      <4>2. QED
        BY <4>1 DEF Login!Next
    <3>3. CASE UNCHANGED <<state, result, username, password, selected, child,
                          orphan>>
      BY <2>9, <3>3 DEF Signal
    <3>4. QED
      BY <2>9, <3>1, <3>2, <3>3 DEF Signal
  <2>10. CASE OrphanExit \/ Tick \/ UNCHANGED vars
    BY <2>10 DEF OrphanExit, Tick, vars
  <2>11. QED
    BY <2>1, <2>2, <2>3, <2>4, <2>5, <2>6, <2>7, <2>8, <2>9, <2>10 DEF Next
<1>3. QED
  BY <1>1, <1>2, ControllerTypeCorrect, RefineInvariant, PTL
  DEF Spec, ImplementsLogin, Login!Spec

=============================================================================
