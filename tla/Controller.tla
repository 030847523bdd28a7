----------------------------- MODULE Controller -----------------------------
(***************************************************************************)
(* The login controller (src/src/controller.c): the state loop of         *)
(* controller_run with one action per state handler.  The TUI, the config *)
(* file, the session catalog, the account database (getpwnam), the        *)
(* identity provider and the launched session are its environment: what   *)
(* each returns is chosen from the values the code can receive.  The      *)
(* session launch is split at waitpid: HandleStartSession forks the child *)
(* and the parent then blocks until WaitReturn; meanwhile the child can   *)
(* end (ChildExit) and a SIGTERM/SIGINT can arrive (Signal).              *)
(***************************************************************************)
EXTENDS AuthOps, Integers

CONSTANTS
    Accounts,      \* identities getpwnam resolves
    MaxSessions,   \* bound on the number of discovered sessions
    MaxTime        \* bound on the clock

ASSUME AccountsAssumption == Accounts \subseteq Users
ASSUME MaxSessionsAssumption == MaxSessions \in Nat \ {0}
ASSUME ControllerMaxTimeAssumption == MaxTime \in Nat \ {0}

VARIABLES
    state,        \* ctx->state
    config,       \* the autologin part of ctx->config
    sessionCount, \* ctx->sessions.count
    username,     \* ctx->username
    password,     \* ctx->password: "" or a typed secret
    selected,     \* ctx->selected_session
    auth,         \* ctx->auth_state
    result,       \* the last handler's return value (controller_run's result)
    now,          \* time(NULL)
    child,        \* the forked session process, as the parent's waitpid sees it
    orphan,       \* a forked session the parent no longer waits for
    shutdown,     \* g_shutdown_requested (src/src/main.c:24)
    authorized    \* ghost: the identity last accepted for a launch, until it is used

vars == <<state, config, sessionCount, username, password, selected, auth,
          result, now, child, orphan, shutdown, authorized>>

States == {"INIT", "LOAD_CONFIG", "CHECK_AUTOLOGIN", "SHOW_LOGIN",
           "GET_CREDENTIALS", "SELECT_SESSION", "AUTHENTICATE",
           "START_SESSION", "EXIT"}

\* The contents of the password buffer: zeroed, or a non-empty secret.
Empty == "empty"
Secret == "secret"

\* What config_load can leave in the autologin fields (defaults included).
Configs == [autologin_enabled : BOOLEAN, autologin_user : Names]

\* The forked child: not forked or already reaped, running, or exited with
\* status 0 or with a nonzero status / a signal.
Children == {"none", "running", "exit0", "exitN"}

\* A session process that session_start stopped waiting for: none, still
\* running, or ended and never reaped.
Orphans == {"none", "running", "zombie"}

Results == {"KIA_SUCCESS", "KIA_ERROR_SYSTEM", "KIA_ERROR_SESSION"}

TypeOK ==
    /\ state \in States
    /\ config \in Configs
    /\ sessionCount \in 0..MaxSessions
    /\ username \in Names
    /\ password \in {Empty, Secret}
    /\ selected \in -1..MaxSessions
    /\ auth \in AuthStates
    /\ result \in Results
    /\ now \in 1..MaxTime
    /\ child \in Children
    /\ orphan \in Orphans
    /\ shutdown \in BOOLEAN
    /\ authorized \in Names

\* controller_init: the context is zeroed, selected_session is -1.
Init ==
    /\ state = "INIT"
    /\ config = [autologin_enabled |-> FALSE, autologin_user |-> NoUser]
    /\ sessionCount = 0
    /\ username = NoUser
    /\ password = Empty
    /\ selected = -1
    /\ auth = InitAuthState
    /\ result = "KIA_SUCCESS"
    /\ now = 1
    /\ child = "none"
    /\ orphan = "none"
    /\ shutdown = FALSE
    /\ authorized = NoUser

\* The handler of the current state moves to s and returns r.
Goto(s, r) == state' = s /\ result' = r

\* A session index is usable.
ValidIndex(i) == i >= 0 /\ i < sessionCount

-----------------------------------------------------------------------------
(* The state handlers *)

\* handle_init: auth_init always succeeds; tui_init (initscr) may fail.
HandleInit ==
    /\ state = "INIT"
    /\ \E tuiOk \in BOOLEAN :
          IF tuiOk THEN Goto("LOAD_CONFIG", "KIA_SUCCESS")
                   ELSE Goto("EXIT", "KIA_ERROR_SYSTEM")
    /\ UNCHANGED <<config, sessionCount, username, password, selected, auth,
                   now, child, orphan, shutdown, authorized>>

\* Mutant: an empty catalog is retried instead of being fatal.
HandleLoadConfigRetry ==
    /\ state = "LOAD_CONFIG"
    /\ \E cfg \in Configs, n \in 0..MaxSessions :
          /\ config' = cfg
          /\ sessionCount' = n
          /\ IF n = 0 THEN Goto("LOAD_CONFIG", "KIA_ERROR_SESSION")
                      ELSE Goto("CHECK_AUTOLOGIN", "KIA_SUCCESS")
    /\ UNCHANGED <<username, password, selected, auth, now, child, orphan,
                   shutdown, authorized>>

\* handle_load_config: the configuration (defaults on any failure) and the
\* catalog; a failed discovery or an empty catalog is fatal.
HandleLoadConfig ==
    /\ state = "LOAD_CONFIG"
    /\ \E cfg \in Configs, n \in 0..MaxSessions :
          /\ config' = cfg
          /\ sessionCount' = n
          /\ IF n = 0 THEN Goto("EXIT", "KIA_ERROR_SESSION")
                      ELSE Goto("CHECK_AUTOLOGIN", "KIA_SUCCESS")
    /\ UNCHANGED <<username, password, selected, auth, now, child, orphan,
                   shutdown, authorized>>

\* handle_check_autologin: a configured, existing autologin identity goes
\* straight to START_SESSION with the default session, which
\* find_default_session always resolves to an index of the catalog.
HandleCheckAutologin ==
    /\ state = "CHECK_AUTOLOGIN"
    /\ IF config.autologin_enabled /\ config.autologin_user # NoUser
                                   /\ config.autologin_user \in Accounts
       THEN \E i \in 0..(sessionCount - 1) :
              /\ username' = config.autologin_user
              /\ selected' = i
              /\ authorized' = config.autologin_user
              /\ Goto("START_SESSION", "KIA_SUCCESS")
       ELSE /\ Goto("SHOW_LOGIN", "KIA_SUCCESS")
            /\ UNCHANGED <<username, selected, authorized>>
    /\ UNCHANGED <<config, sessionCount, password, auth, now, child, orphan, shutdown>>

\* handle_show_login: draw the banner.
HandleShowLogin ==
    /\ state = "SHOW_LOGIN"
    /\ Goto("GET_CREDENTIALS", "KIA_SUCCESS")
    /\ UNCHANGED <<config, sessionCount, username, password, selected, auth,
                   now, child, orphan, shutdown, authorized>>

\* handle_get_credentials.  tui_get_credentials fails before it clears the
\* buffers (terminal too small) or after (getch/refresh error); otherwise
\* it returns a non-empty name of at most 20 characters and a possibly
\* empty secret.  An empty secret loops back to SHOW_LOGIN.
HandleGetCredentials ==
    /\ state = "GET_CREDENTIALS"
    /\ \/ /\ Goto("SHOW_LOGIN", "KIA_ERROR_SYSTEM")
          /\ UNCHANGED <<username, password>>
       \/ /\ Goto("SHOW_LOGIN", "KIA_ERROR_SYSTEM")
          /\ username' = NoUser
          /\ password' = Empty
       \/ \E u \in Users, p \in {Empty, Secret} :
            /\ username' = u
            /\ password' = p
            /\ IF p = Empty THEN Goto("SHOW_LOGIN", "KIA_SUCCESS")
                            ELSE Goto("SELECT_SESSION", "KIA_SUCCESS")
    /\ UNCHANGED <<config, sessionCount, selected, auth, now, child, orphan,
                   shutdown, authorized>>

\* handle_select_session: tui_select_session returns an index of the
\* catalog or -1 (Escape, or a curses error).
HandleSelectSession ==
    /\ state = "SELECT_SESSION"
    /\ \E i \in -1..(sessionCount - 1) :
          /\ selected' = i
          /\ IF ValidIndex(i) THEN Goto("AUTHENTICATE", "KIA_SUCCESS")
                              ELSE Goto("SHOW_LOGIN", "KIA_ERROR_SESSION")
    /\ UNCHANGED <<config, sessionCount, username, password, auth, now, child,
                   orphan, shutdown, authorized>>

\* Mutant: the clearing loop is optimised away as a dead store.
ZeroSecretElided == UNCHANGED password

\* secure_memzero(ctx->password, ...): the secret buffer is cleared.
ZeroSecret == password' = Empty

\* Mutant: every result but KIA_ERROR_AUTH is taken for a success, so a
\* failed pam_start (KIA_ERROR_PAM) starts the session.
AuthenticateAnsweredPamErrorAccepted(pam) ==
    LET r == AuthAuthenticate(AfterLockoutCheck(auth, now), username, now, pam)
    IN  /\ authorized' = IF pam = "ok" THEN username ELSE authorized
        /\ IF r.rc # "KIA_ERROR_AUTH"
           THEN /\ auth' = ResetAttempts(r.st)
                /\ Goto("START_SESSION", "KIA_SUCCESS")
           ELSE /\ auth' = r.st
                /\ Goto("SHOW_LOGIN", "KIA_SUCCESS")

\* auth_authenticate's verdict when the provider answers pam, and the
\* transition handle_authenticate takes on it: a success resets the
\* attempts once more and starts the session.  The ghost records a
\* provider acceptance of the identity, whatever the code makes of it.
AuthenticateAnswered(pam) ==
    LET r == AuthAuthenticate(AfterLockoutCheck(auth, now), username, now, pam)
    IN  /\ authorized' = IF pam = "ok" THEN username ELSE authorized
        /\ IF r.rc = "KIA_SUCCESS"
           THEN /\ auth' = ResetAttempts(r.st)
                /\ Goto("START_SESSION", "KIA_SUCCESS")
           ELSE /\ auth' = r.st
                /\ Goto("SHOW_LOGIN", "KIA_SUCCESS")

\* handle_authenticate: a locked-out attempt goes back to the login screen
\* without calling the Authenticator; either way the secret is zeroed.
HandleAuthenticate ==
    /\ state = "AUTHENTICATE"
    /\ ZeroSecret
    /\ \/ /\ IsLockedOut(auth, now)
          /\ Goto("SHOW_LOGIN", "KIA_SUCCESS")
          /\ UNCHANGED <<auth, authorized>>
       \/ /\ ~IsLockedOut(auth, now)
          /\ \E pam \in PamOutcomes : AuthenticateAnswered(pam)
    /\ UNCHANGED <<config, sessionCount, username, selected, now, child,
                   orphan, shutdown>>

\* Mutant: a failed launch (unknown identity, no home, fork failure) is
\* taken as fatal and ends the manager instead of returning to the login.
HandleStartSessionFailFatal ==
    /\ state = "START_SESSION"
    /\ child = "none"
    /\ \E homeOk, forkOk \in BOOLEAN :
          IF ValidIndex(selected) /\ username \in Accounts /\ homeOk /\ forkOk
          THEN /\ child' = "running"
               /\ authorized' = NoUser
               /\ UNCHANGED <<state, result>>
          ELSE /\ Goto("EXIT", "KIA_ERROR_SESSION")
               /\ UNCHANGED <<child, authorized>>
    /\ UNCHANGED <<config, sessionCount, username, password, selected, auth,
                   now, orphan, shutdown>>

\* handle_start_session up to the fork of session_start: an invalid index,
\* an unknown identity, a missing home directory or a failed fork returns
\* to SHOW_LOGIN; otherwise the child runs and the parent waits for it.
HandleStartSession ==
    /\ state = "START_SESSION"
    /\ child = "none"
    /\ \E homeOk, forkOk \in BOOLEAN :
          IF ValidIndex(selected) /\ username \in Accounts /\ homeOk /\ forkOk
          THEN /\ child' = "running"
               /\ authorized' = NoUser
               /\ UNCHANGED <<state, result>>
          ELSE /\ Goto("SHOW_LOGIN", "KIA_ERROR_SESSION")
               /\ UNCHANGED <<child, authorized>>
    /\ UNCHANGED <<config, sessionCount, username, password, selected, auth,
                   now, orphan, shutdown>>

\* The session process ends: status 0, or a nonzero status or a signal
\* (a failed setenv/chdir/setgid/setuid/verification/exec included).
ChildExit ==
    /\ child = "running"
    /\ \E c \in {"exit0", "exitN"} : child' = c
    /\ UNCHANGED <<state, config, sessionCount, username, password, selected,
                   auth, result, now, orphan, shutdown, authorized>>

\* waitpid returns the child's status: exit 0 ends the manager, anything
\* else is a launch failure.
WaitReturn ==
    /\ state = "START_SESSION"
    /\ child \in {"exit0", "exitN"}
    /\ child' = "none"
    /\ IF child = "exit0" THEN Goto("EXIT", "KIA_SUCCESS")
                          ELSE Goto("SHOW_LOGIN", "KIA_ERROR_SESSION")
    /\ UNCHANGED <<config, sessionCount, username, password, selected, auth,
                   now, orphan, shutdown, authorized>>

\* SIGTERM/SIGINT: signal_handler sets the flag (src/src/main.c:30-33).
\* It is installed without SA_RESTART, so the blocking call the loop is
\* in fails with EINTR: getch in tui_get_credentials (after the buffers
\* were cleared) or in tui_select_session, or the waitpid of
\* session_start, which then reports a launch failure and never waits for
\* that child again.  No state of the loop reads the flag.
InterruptCredentials ==
    /\ state = "GET_CREDENTIALS"
    /\ Goto("SHOW_LOGIN", "KIA_ERROR_SYSTEM")
    /\ username' = NoUser
    /\ password' = Empty
    /\ UNCHANGED <<selected, child, orphan>>

InterruptSelection ==
    /\ state = "SELECT_SESSION"
    /\ Goto("SHOW_LOGIN", "KIA_ERROR_SESSION")
    /\ selected' = -1
    /\ UNCHANGED <<username, password, child, orphan>>

InterruptWait ==
    /\ state = "START_SESSION"
    /\ child # "none"
    /\ Goto("SHOW_LOGIN", "KIA_ERROR_SESSION")
    /\ child' = "none"
    /\ orphan' = IF child = "running" THEN "running" ELSE "zombie"
    /\ UNCHANGED <<username, password, selected>>

Signal ==
    /\ state # "EXIT"
    /\ shutdown' = TRUE
    /\ \/ InterruptCredentials
       \/ InterruptSelection
       \/ InterruptWait
       \/ /\ ~shutdown
          /\ UNCHANGED <<state, result, username, password, selected, child,
                         orphan>>
    /\ UNCHANGED <<config, sessionCount, auth, now, authorized>>

\* An abandoned session process ends and stays a zombie.
OrphanExit ==
    /\ orphan = "running"
    /\ orphan' = "zombie"
    /\ UNCHANGED <<state, config, sessionCount, username, password, selected,
                   auth, result, now, child, shutdown, authorized>>

\* One second passes.
Tick ==
    /\ now < MaxTime
    /\ now' = now + 1
    /\ UNCHANGED <<state, config, sessionCount, username, password, selected,
                   auth, result, child, orphan, shutdown, authorized>>

Next ==
    \/ HandleInit
    \/ HandleLoadConfig
    \/ HandleCheckAutologin
    \/ HandleShowLogin
    \/ HandleGetCredentials
    \/ HandleSelectSession
    \/ HandleAuthenticate
    \/ HandleStartSession
    \/ ChildExit
    \/ WaitReturn
    \/ Signal
    \/ OrphanExit
    \/ Tick

\* The handlers that run without waiting for the user complete: the loop is
\* single-threaded and each of them returns.  waitpid returns once the
\* child has ended.  The user, the session and the clock get no fairness.
Fairness ==
    /\ WF_vars(HandleInit)
    /\ WF_vars(HandleLoadConfig)
    /\ WF_vars(HandleCheckAutologin)
    /\ WF_vars(HandleShowLogin)
    /\ WF_vars(HandleStartSession)
    /\ WF_vars(WaitReturn)

Spec == Init /\ [][Next]_vars

FairSpec == Spec /\ Fairness

-----------------------------------------------------------------------------
(* Properties *)

\* The lockout policy's invariant holds of the controller's auth_state_t
\* across the whole login loop: handle_authenticate's own lockout check,
\* auth_authenticate and the extra auth_reset_attempts on success keep the
\* counter at or below max_attempts and the deadline armed exactly at it.
LockoutInv == LockoutConsistent(auth)

\* A session is forked only for the identity that the provider accepted
\* (or that autologin configured) on the way into START_SESSION, and each
\* acceptance is used by at most one fork: no path through the loop
\* reaches session_start with another name in ctx->username or with no
\* acceptance at all.
LaunchRequiresAcceptance ==
    (state = "START_SESSION" /\ child = "none") =>
        /\ authorized # NoUser
        /\ username = authorized

\* The secret typed at the login screen has been zeroed before a session is
\* launched and before the manager exits (spec.md 3, RunContext).
NoSecretAtLaunch ==
    state \in {"START_SESSION", "EXIT"} => password = Empty

\* Start-up completes: from INIT the loop reaches the credential prompt, an
\* autologin launch, or the fatal exit, without any input from the user.
StartupCompletes ==
    (state \in {"INIT", "LOAD_CONFIG", "CHECK_AUTOLOGIN", "SHOW_LOGIN"})
        ~> (state \in {"GET_CREDENTIALS", "START_SESSION", "EXIT"})

\* The controller implements the abstract login manager (LoginAbstract):
\* the loop's states map to its phases, a pending launch is the identity in
\* ctx->username that the provider or autologin accepted, and the
\* supervised session is the forked child that waitpid has not yet
\* reported.  Every handler, the signal paths included, is a step of the
\* abstract manager or leaves its view unchanged.  In particular the
\* manager exits only on a start-up failure or a clean end of the session:
\* a launch that fails before the fork is a recoverable LaunchError that
\* returns to the login screen (spec.md 6).
LoginPhase ==
    CASE state \in {"INIT", "LOAD_CONFIG", "CHECK_AUTOLOGIN"} -> "setup"
      [] state \in {"SHOW_LOGIN", "GET_CREDENTIALS", "SELECT_SESSION",
                    "AUTHENTICATE"} -> "login"
      [] state = "START_SESSION" /\ child = "none" -> "granted"
      [] state = "START_SESSION" /\ child # "none" -> "supervise"
      [] state = "EXIT" -> "exit"

LoginGranted ==
    IF state = "START_SESSION" /\ child = "none" THEN authorized ELSE NoUser

LoginSessionUser ==
    IF state = "START_SESSION" /\ child # "none" THEN username ELSE NoUser

Login == INSTANCE LoginAbstract
    WITH phase <- LoginPhase, granted <- LoginGranted,
         sessionUser <- LoginSessionUser

ImplementsLogin == Login!Spec

\* spec.md 3: the pending secret "must be actively zeroed on every path
\* that stops needing it": it is held only from the credential prompt to
\* the authentication call.
SecretHeldOnlyWhileNeeded ==
    password = Secret => state \in {"SELECT_SESSION", "AUTHENTICATE"}

\* spec.md 5: a requested shutdown "is observed only at the top of the
\* state loop between handler invocations": once requested, the manager
\* eventually exits.
ShutdownHonoured == shutdown ~> (state = "EXIT")

\* spec.md 4.3: "In the parent, block until the child terminates": the
\* login screen is never back while a session the manager launched is
\* still running.
NoSessionBehindLogin ==
    state \in {"SHOW_LOGIN", "GET_CREDENTIALS"} => orphan # "running"
=============================================================================
