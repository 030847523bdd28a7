# TLA+ models of the kia login manager

This directory holds TLA+ models of the C sources under `src/`. They are
model-checked with TLC. The lockout policy, the controller, the privilege
drop and the configuration ranges also have TLAPS proofs.
Every definition is translated from the source lines that `PROJECT.json`
("map") names.

## The system and its parts

kia is a single-threaded login/display manager that runs as root. `main`
(src/src/main.c) does the following:

- checks `geteuid() == 0`;
- installs a SIGTERM/SIGINT handler that sets `g_shutdown_requested`;
- runs the controller loop.

The controller (src/src/controller.c) is a state machine over `app_state_t`
(INIT, LOAD_CONFIG, CHECK_AUTOLOGIN, SHOW_LOGIN, GET_CREDENTIALS,
SELECT_SESSION, AUTHENTICATE, START_SESSION, EXIT). Each state has one
handler, and the handlers call these components:

| Part | Source | Module(s) | Status |
|---|---|---|---|
| Controller | controller.c | `Controller`, abstract promise `LoginAbstract` | partly (teardown not modelled) |
| Authenticator | auth.c | `AuthOps` (pure operators), `Auth` (atomic component), `AuthCall` (the call step by step) | modelled |
| Session Launcher, parent side | session.c:228-283, 364-386 | `Controller` | modelled |
| Session Launcher, child side | session.c:284-362 | `Launcher` | modelled |
| Session Catalog | session.c:21-226 | `Catalog` | modelled |
| Config Provider | config.c | `Config` | modelled |
| TUI | tui.c | its outcomes only, in `Controller` | not modelled (ncurses I/O) |
| Logger | logger.c | none | not modelled (pure I/O) |
| Bootstrap | main.c | `Controller` (`Signal`), `Launcher` (`ManagerCreds`) | partly |

How the parts interact, and how the models meet:

- **Shared lockout policy.** `Controller` and `Auth` both EXTEND `AuthOps`. They
  apply the same operators (`AuthAuthenticate`, `AfterLockoutCheck`,
  `ResetAttempts`) to their own `auth_state_t`, so the two modules share one
  definition of the policy.
- **Environment outcomes.** `Controller` receives each component's result as
  an input drawn from the values the component can return:
  - the catalog size is a number in `0..MaxSessions`;
  - the configuration's autologin fields are a member of `Configs`;
  - the PAM verdict is one of `PamOutcomes`;
  - the child's fate is `exit0` or `exitN`.
- **Component modules.** `Config`, `Catalog` and `Launcher` each check the
  component behind one of those inputs on its own. Composing them into
  `Controller` by refinement is left for later work (see "What is not done").
- **Refinements.** `AuthCall`, the step-by-step `auth_authenticate`,
  implements the atomic `Auth`. `Controller` implements `LoginAbstract`,
  the five-phase promise of the login manager.

## The modules

### AuthOps / Auth (auth.c)

`auth_state_t` is a record `[username, failed_attempts, lockout_until]`. The
operators map to the code as follows:

| Operator | Code |
|---|---|
| `IsLockedOut` | the verdict of `auth_is_locked_out` |
| `AfterLockoutCheck` | the side effect of `auth_is_locked_out`: an expired lockout clears the counter and the deadline |
| `TrackUser` | the username comparison at auth.c:148-154 |
| `RecordFailure` | the increment and the lockout at auth.c:186-193 and 205-215 |
| `ResetAttempts` | `auth_reset_attempts` |
| `AuthAuthenticate` | the whole function, on all paths (locked out, `pam_start` failure, authenticate/acct failure, success) |

The `pam` argument is the provider's verdict on the call.

`Auth` is the component on its own:

- a caller issues `Authenticate(u, pam)`, `CheckLockedOut` and `Reset` in any
  order, for two identities and for the empty name `NoUser`;
- the clock moves forward by `Tick` and backward by up to `MaxClockStepBack`
  seconds (`ClockStepBack`, an NTP/RTC correction);
- the ghost variable `lastCall` records the last call and whether it reached
  the provider.

### AuthCall (auth.c, the call step by step)

`AuthCall` splits one `auth_authenticate` call into the steps it takes, with
`pc` naming the step:

| Action | Code |
|---|---|
| `Begin(u)` | the lockout check (auth.c:130-146) and the identity switch (148-154) |
| `TtyLock` | `tty_lock`: open `/dev/tty`, then `VT_LOCKSWITCH`; either may fail, which is only logged |
| `PamStart` | `pam_start`; a failure unlocks and returns KIA_ERROR_PAM |
| `PamConverse` | the PAM stack calls `pam_conversation` with one of `Conversations` |
| `ConvEnter`, `ConvMessage`, `ConvDone` | `pam_conversation`: the count check and `calloc`, one message per step (a `strdup` of the secret per prompt, which may fail), the final PAM_SUCCESS |
| `FreeResponses(i, code)` | the error exits at auth.c:93 and 112: free every copy and the array, `*resp = NULL` |
| `PamAuthFail`, `PamAcct` | the failure and acct_mgmt paths with `pam_end` and `tty_unlock` |
| `CheckLockedOut`, `Reset`, `Tick`, `ClockStepBack` | the caller's other calls and the clock, between calls |

The heap is abstracted to what matters:

- `resp` is the response array (`RespNull` for `*resp = NULL`), one slot per
  message, holding the secret or nothing;
- `live` is the set of slots whose copy has not been freed, and `arrLive`
  says whether the array is allocated;
- the ghost `residue` records whether a copy was ever freed without being
  cleared.

`AuthBar` is the `auth_state_t` a caller sees: the state when idle, and the
state at call entry while a call runs. Under it each call maps to one
atomic `Authenticate` of `Auth`. A clock correction is only taken between
calls here. That keeps the mapping a function of the state. `Auth` alone
covers a step back at any time.

### LoginAbstract (what the controller promises)

`LoginAbstract` has three variables:

- `phase` is one of setup, login, granted, supervise, exit;
- `granted` is the identity whose login was accepted;
- `sessionUser` is the identity whose session runs.

Its steps are:

- `Ready` and `GiveUp` end setup;
- `Grant(u)` accepts an identity;
- `Launch` starts the session of the granted identity and consumes the
  grant;
- `Abandon` drops a grant without a session;
- `End` ends the session, back to login or to exit.

`Controller` maps onto it as follows:

- `LoginPhase` maps `ctx->state`, and START_SESSION is split by whether a
  child runs;
- `LoginGranted` is the ghost `authorized` before the fork;
- `LoginSessionUser` is `username` while the child runs.

### Controller (controller.c, the parent side of session.c, main.c's signal handler)

There is one action per handler. Each handler action includes every call it
makes, for example:

- `HandleAuthenticate` runs the lockout check, `auth_authenticate`,
  `secure_memzero` and the extra `auth_reset_attempts` on success;
- `HandleGetCredentials` covers the three outcomes of `tui_get_credentials`:
  failing before it clears the buffers, failing after, or returning a 1-20
  character name.

`session_start` is split at `waitpid`:

- `HandleStartSession` forks;
- `ChildExit` ends the child;
- `WaitReturn` reaps it and classifies its status.

The signal handler is installed without `SA_RESTART`, so `Signal` sets
`shutdown` and interrupts the blocking call the loop is in:

- `getch` in the credential prompt or in the session list;
- `waitpid`. The child is then abandoned and is tracked in `orphan`.

The ghost variable `authorized` records the identity the provider accepted
(or autologin chose), until a fork uses it.

### Config (config.c)

`config_load` reads the file one line per step (`ReadLine`), starting from the
defaults. `Finish` runs `config_validate` and the revert to defaults. The
abstractions are:

- **Lines.** A line is its class: empty or comment, no `=`, empty key,
  truncated, or key = value.
- **Numerals.** A numeral is `high * 2^32 + low`. `atoi`, which is
  `(int)strtol`, keeps `low`; `AtoI` models that narrowing.

### Launcher (session.c:284-362)

These are the child's steps, and any system call may fail:

- setenv;
- chdir;
- setgid;
- setuid;
- verification of the four ids;
- execlp, for X11 startx then sh, otherwise sh.

`SetGidResult` and `SetUidResult` follow POSIX:

- with euid 0, the call sets the real, effective and saved ids;
- otherwise it may set only the effective id, and only to the real or saved
  one.

Neither touches the supplementary groups. `ManagerCreds` holds the credentials
`check_root_privileges` accepts: root, or a setuid-root program started by
another user.

### Catalog (session.c:21-226)

This module models the opendir/readdir/closedir steps of the X11 scan and then
the Wayland scan.

- **Entries.** A directory entry is whether its name contains ".desktop", plus
  what `parse_desktop_file` finds: whether the file opens, whether it has a
  usable Name= line and Exec= line, and whether a read error happens before it
  has both.
- **Failures.** `realloc` may fail and readdir may report an error. Either one
  frees the list (`Abort`).
- **Property.** `CatalogIsUnion` says what a successful `session_discover`
  returns. The set of slots listed equals `UsableSlotSet`, the usable entries
  of both directories. The list is strictly ordered by `ScanOrder`: X11
  before Wayland, and readdir order within a directory. The list is not
  empty.
  - A strictly ordered sequence is fixed by its set of elements. The property
    therefore says the same as "the catalog is the usable X11 entries
    followed by the usable Wayland ones, in order". An earlier form said it
    with `SelectSeq`. TLC compared the two forms on every reachable state of
    `MC_Catalog`, for all catalogs up to length 3, and found them equal.
  - The set-and-order form can be proved. `SelectSeq` is a recursive
    function the provers cannot unfold.

## Runs

Every run is listed in `PROJECT.json`. The passing runs are:

- **auth_pass** (`MC_Auth.cfg`) checks `TypeOK` and `LockoutInv`.
  - Bounds: 2 users plus the empty name, max_attempts = 2, duration = 2, time
    in 1..6, clock steps back of up to 2 seconds.
  - With these bounds, lockouts are armed, expire, are observed expired, are
    re-armed after an identity switch, and are seen across a clock step back.
  - User symmetry is sound: the users are interchangeable model values.
- **authcall_pass** (`MC_AuthCall.cfg`) checks `TypeOK`,
  `VtUnlockedBetweenCalls`, `ConversationAnswers`, `ConversationCleansUp`
  and `ImplementsAuth`.
  - Bounds: 2 users, max_attempts = 2, duration = 2, time in 1..4, clock
    steps back of 1 second, up to 2 conversations per call, and
    PAM_MAX_NUM_MSG = 2.
  - The conversations are: empty, one prompt, info then prompt, prompt then
    an unknown style, and three messages. Between them they reach every
    branch of `pam_conversation`: a count over the limit, a failed
    `calloc`, a failed `strdup` after an answered prompt, and an unknown
    style after an answered prompt.
  - About 113k states are reached.
- **controller_pass** (`MC_Controller.cfg`, `FairSpec`) checks `TypeOK`,
  `LaunchRequiresAcceptance`, `NoSecretAtLaunch`, `StartupCompletes` and
  `ImplementsLogin`.
  - The controller's lockout state is not checked again here. It changes
    only through the `AuthOps` operators that auth_pass checks, and
    `ControllerLockoutInvariant` proves it for the loop.
  - `ImplementsLogin` says more than `LaunchRequiresAcceptance`. A launch
    that fails before the fork must return to the login screen, because it
    is a recoverable LaunchError (spec.md 6). The manager may exit only
    when start-up fails or the session ends cleanly.
  - Bounds: 2 users, one of them with an account; up to 2 sessions; time
    1..5.
  - About 250k states are reached, including every handler outcome,
    autologin, a signal in each blocking call, and a failed or abandoned
    child.
- **config_pass** checks `TypeOK` and `ConfigWithinRanges`.
  - It covers every file of up to 3 lines drawn from 20 line shapes.
  - The line shapes include numerals at and beyond both ends of each range,
    and numerals past 2^32.
- **launcher_pass** checks `TypeOK` and `SessionCannotRegainRoot`.
  - It covers both manager credentials, both session types, and every failure
    point.
- **catalog_pass** checks `TypeOK` and `CatalogIsUnion`.
  - Each of the two directories holds up to 2 entries drawn from 5 entry
    kinds, or is missing.

`CHECK_DEADLOCK FALSE` appears only where the system really stops: EXIT, a
finished `config_load` or discovery, a child that has exec'd or exited.

Each property of a passing run has a mutant, listed in `PROJECT.json`. A
mutant is a plausible bug in the mapped code, and TLC finds it violating that
property:

- a deadline computed as now - duration;
- `>` for `>=`;
- a pam_start error taken for success;
- an elided memzero;
- an empty catalog retried instead of being fatal;
- a truncated line swallowing the next line;
- a dropped 3600 cap;
- X11 variables set for a Wayland session;
- setresuid keeping the saved uid;
- a stale slot index;
- rejected descriptors kept in the catalog;
- a `pam_start` failure returning without `tty_unlock`;
- an account rejection by `pam_acct_mgmt` not counted as a failure;
- a cleanup loop that stops one response short;
- informational messages answered with the secret;
- a failed launch taken as fatal, so the manager exits instead of showing
  the login screen again, which breaks the refinement.

Each violation run checks one statement of the spec that the code breaks:

| Run | Property | What TLC shows |
|---|---|---|
| controller_secret_on_cancel | `SecretHeldOnlyWhileNeeded` | a cancelled selection keeps the secret in memory |
| controller_shutdown | `ShutdownHonoured` | the loop never reads `g_shutdown_requested` |
| controller_wait_interrupted | `NoSessionBehindLogin` | EINTR in `waitpid` abandons a running session behind the login screen |
| config_atoi_wrap | `StoredValueWasWritten` | `max_attempts=4294967298` is stored as 2 |
| launcher_groups | `SessionHasOnlyTargetGroups` | the session keeps root's supplementary groups |
| authcall_residue | `SecretNeverFreedUncleared` | on a conversation error the strdup'ed copies of the secret are freed without being cleared |

## Fairness

`FairSpec` has weak fairness on the handlers that run without waiting for
anyone: init, load config, check autologin, show login and start session. It
also has weak fairness on `WaitReturn` once the child has ended. The reasons:

- the loop is single-threaded;
- each of those handlers returns;
- `waitpid` returns once the child has exited.

Nothing is fair for the user (the credential and selection prompts), the
session's lifetime, signals or the clock. Under this fairness:

- `StartupCompletes` holds;
- `ShutdownHonoured` does not: the loop may wait at the prompt forever after
  a signal.

## Proofs (TLAPS)

`AuthOpsProofs` holds lemmas about the policy operators:

- each operator returns an `auth_state_t`;
- each one preserves `LockoutConsistent` at a positive time.

The key lemma is `AuthAuthenticateConsistent`, and it rests on one fact: past
the lockout check, `AfterLockoutCheck` leaves the deadline cleared, so one
more failure reaches max_attempts at most.

`AuthProofs` proves two theorems for the component spec `Auth`. They hold
for every set of users, every max_attempts in 1..10, every lockout_duration in
0..3600, and any clock step-back bound:

- `TypeCorrect`: `Spec => []TypeOK`;
- `LockoutInvariant`: `Spec => []LockoutInv`. The inductive invariant is
  `IInv == TypeOK /\ LockoutInv`. `LockoutInv` is not inductive alone,
  because arming a nonzero deadline `now + duration` needs `now >= 1`, which
  is part of `TypeOK`.

The proofs use the assumptions `MaxAttemptsAssumption`,
`LockoutDurationAssumption`, `MaxTimeAssumption` and
`MaxClockStepBackAssumption`. The config ranges are exactly what
`ConfigWithinRanges` checks `config_load` delivers.

`ControllerProofs` proves four theorems for `Controller`. They hold for
every set of identities and accounts, and every value of the constants
allowed by their assumptions:

- `ControllerTypeCorrect`: `Spec => []TypeOK`.
- `ControllerLockoutInvariant`: `Spec => []LockoutInv`, from `TypeOK`.
  - The only step that changes `auth` is `HandleAuthenticate`.
  - Its answered branch is covered by the lemma `AnsweredVerdict`:
    `AuthAuthenticate` after `AfterLockoutCheck` is consistent, and so is
    the extra `ResetAttempts` on success.
- `NoSecretAtLaunchHolds`, with the inductive invariant `SecretInv`: a
  secret is held only in SHOW_LOGIN, GET_CREDENTIALS, SELECT_SESSION or
  AUTHENTICATE.
  - The invariant has to admit SHOW_LOGIN and GET_CREDENTIALS, because a
    cancelled selection keeps the secret (the `SecretHeldOnlyWhileNeeded`
    finding).
  - Only `HandleAuthenticate`, which zeroes the secret, leaves that set
    for START_SESSION.
- `LaunchRequiresAcceptanceHolds`, with the inductive invariant
  `LaunchInv`.
  - `LaunchInv` adds one fact: in SELECT_SESSION and AUTHENTICATE,
    `username` is a name the TUI returned, never the zeroed buffer.
  - The lemma `AuthAuthenticateSuccess` says a KIA_SUCCESS verdict implies
    that the provider accepted.
  - Together they show that the ghost `authorized` equals `username`, and
    that it is non-empty on entry to START_SESSION.

`ControllerProofs` also proves `ImplementsLoginHolds`:
`Spec => ImplementsLogin`. `Controller` refines `LoginAbstract`.

- The invariant is `RefineInv == LaunchInv /\ ChildInv`. `ChildInv` says a
  child exists only in START_SESSION.
  - `ChildInv` is needed because the mapping reads the child only in
    START_SESSION. A child alive in another state would be a session the
    mapping cannot see.
  - `LaunchInv` gives `authorized = username` at the fork, so `Launch`
    starts the session of the granted identity.
- Each controller step is shown to be one abstract step or a stutter:
  - an accepted `HandleAuthenticate` is `Grant(username)`;
  - autologin is `Grant` of the autologin name;
  - a failing init or config load is `GiveUp`;
  - the fork is `Launch`;
  - a failed or refused fork is `Abandon`;
  - `WaitReturn`, and a signal in `waitpid`, are `End`;
  - every other step leaves the mapped variables alone.

`LauncherProofs` proves two theorems for the child side of `session_start`.
They hold for every target uid and gid other than 0 and for both manager
credentials:

- `LauncherTypeCorrect`: `Spec => []TypeOK`. The lemmas
  `SetGidResultType` and `SetUidResultType` say the POSIX outcomes stay
  credential records.
- `SessionCannotRegainRootHolds`: `Spec => []SessionCannotRegainRoot`,
  with the inductive invariant `CredInv`. `CredInv` fixes the credentials
  at each step:
  - the effective uid is 0 until `setuid`;
  - the three gids are the target's once `setgid` succeeded;
  - the three uids are the target's once `setuid` succeeded.

  The property alone is not inductive. What makes the verification step
  sound is that `setgid` runs while euid is still 0, and so sets all three
  gids.

`ConfigProofs` proves two theorems for `config_load`. They hold for every
bound on the file length and every set of lines:

- `ConfigTypeCorrect`: `Spec => [](TypeOK /\ RangeInv)`. `RangeInv` says
  the configuration has the six fields, max_attempts in [1,10] and
  lockout_duration in [0,3600], after every line and not only at the end.
  - This is stronger than `ConfigWithinRanges` and is needed, because
    `Finish` keeps a configuration that `config_validate` accepts, and
    `config_validate` does not check the upper bound 3600.
  - The lemma `ParseKeepsRanges` says `parse_config_line` stores a number
    only after its own range check.
- `ConfigWithinRangesHolds`: `Spec => []ConfigWithinRanges`.

`AuthCallProofs` proves five theorems for `AuthCall`, the step-by-step
`auth_authenticate`. They hold for every set of identities, every set of
conversations `Conversations \subseteq Seq(Styles)` and every value of the
bounds. All rest on `AuthCallInvariant`: `Spec => []IInv`, where `IInv` is
`TypeOK` and six conjuncts, each tied to a `pc`:

- `TtyInv`: at `idle` and `lock` the tty is closed and unlocked;
- `HeapInv`: outside the conversation loop kia owns no response array and no
  strdup'd copy of the secret;
- `ConvRetInv`: before `pam_authenticate` (`idle`, `lock`, `start`) the
  conversation result is `"none"`;
- `RespNullInv`: on entry to `pam_conversation`, and after its error exits,
  `*resp` is NULL;
- `LoopInv`: inside the loop the array has one slot per message, the first
  `ci` slots hold what `ExpectedResponses` asks for, and the live copies are
  among the first `ci` messages;
- `CallInv`: during a call the state was not locked out when the call began.
  The caller's `st` is `TrackUser(AfterLockoutCheck(st0, now), user)`.

The properties alone are not inductive, for these reasons:

- `ConversationCleansUp` needs `LoopInv`: `FreeResponses(ci, ...)` frees
  only messages `1..ci`.
- It also needs `HeapInv` and `RespNullInv`: the message count check and the
  failed calloc return without freeing anything.
- `VtUnlockedBetweenCalls` needs `TtyInv` at `lock`: `Begin` does not touch
  the tty.

`CallInv` is kept through `Tick` by the lemma `NotLockedOutLater`. An
expired deadline stays expired, so the lockout check gives the same result a
second later.

The theorems:

- `AuthCallTypeCorrect`;
- `VtUnlockedBetweenCallsHolds`;
- `ConversationAnswersHolds`;
- `ConversationCleansUpHolds`;
- `ImplementsAuthHolds`: `Spec => ImplementsAuth`. Its proof, `RefineStep`,
  shows that every step is either a step of `Auth` or a stutter under
  `AuthBar`:
  - a return maps to `Authenticate(user, pam)`, where the verdict `pam` is
    read off the return path (`start_fail`, `auth_fail`, `acct_fail`, `ok`);
  - the lockout rejection in `Begin` maps to `Authenticate` with any
    verdict;
  - every inner step stutters;
  - `Tick` and the between-call entry points map to their namesakes.

  `CallInv` is what shows that the state the return computes equals what
  one atomic call on `st0` at the return's time would compute.

`CatalogProofs` proves three theorems for `session_discover`. They hold for
every set of entry kinds and every bound `MaxEntries` on a directory's size.
All rest on `CatalogInvariant`: `Spec => []IInv`, where `IInv` is `TypeOK`
and four conjuncts:

- `DirInv`: each directory has at most `MaxEntries` entries, and a missing
  one has none;
- `Sorted`: the catalog is strictly ordered by `ScanOrder`, at every step
  and not only at the end;
- `ScanInv`: while scanning, no return value is set, a directory not yet
  opened has had no entry read, and `Listed = Scanned`. `Scanned` is the
  usable entries met so far: the first `idx` of the current directory, and
  all of the X11 directory once the Wayland one is read;
- `DoneInv`: a successful end lists every usable entry, and at least one.

The property alone is not inductive, because it says nothing until the
scan ends. `ScanInv` carries the set of listed slots through the scan. The
lemma `UsableUpToStep` says one readdir meets one slot more. `ScannedBefore`
says every slot met so far comes before the next entry in `ScanOrder`, so
the append in `ReadEntry` keeps `Sorted`. `DirInv` shows that the new slot's
position is within `1..MaxEntries`.

The theorems:

- `CatalogInvariant`;
- `CatalogTypeCorrect`: `Spec => []TypeOK`;
- `CatalogIsUnionHolds`: `Spec => []CatalogIsUnion`.

`SecretNeverFreedUncleared` is not proved, because it does not hold: see
the run `authcall_residue`.

Each inductive invariant was checked with TLC as an invariant of its run
before it was proved:

- `SecretInv`, `LaunchInv` and `RefineInv` on `MC_Controller` (252,530
  states);
- `CredInv` on `MC_Launcher`;
- `RangeInv` on `MC_Config`;
- `AuthCallProofs!IInv` on `MC_AuthCall` (113,512 states);
- `CatalogProofs!IInv` on `MC_Catalog`, with up to 2 and up to 3 entries
  per directory.

Some things stay with TLC:

- the liveness properties (`StartupCompletes`, `ShutdownHonoured`), which
  the provers cannot handle;
- the findings of the violation runs.

The liveness properties need fairness and ENABLED, which the provers do not
handle. A violation run's property does not hold, so there is nothing to
prove.

## What is not modelled, and why

- **The PAM stack.** Its modules are not in this repository. `AuthCall`
  lets the stack send any of `Conversations`, and lets the verdict be any
  value consistent with what the conversation returned.
- **The heap.** Only the blocks `pam_conversation` allocates are modelled,
  as sets of slots.
- **TUI drawing, the logger, argument parsing, the first `config_load` in
  `main`, and `controller_cleanup`.** These are I/O, or they run once outside
  the loop.
- **Dead branches.** The model keeps their guards but finds them unreachable:
  - the autologin name-length check;
  - the empty and over-long username checks after `tui_get_credentials`;
  - the filename and path length checks of the catalog scan.

## What is not done

- **Composition.** Refinement mappings from `Config`, `Catalog` and
  `Launcher` onto the inputs `Controller` takes as environment are planned.
- **Clock corrections during a call.** `AuthCall` takes them only between
  calls. A correction while PAM runs would make the deadline armed at the
  end depend on a clock the caller never saw. No property checks this yet;
  see the hazard at auth.c:239 in `PROJECT.json`.
  - `ImplementsAuthHolds` depends on this choice through `CallInv`.
  - A lockout that had expired when the call began could be in force again
    at the return time.
  - The return could then not be matched by one atomic call at that time.
- **Partial catalog failures.** The hazard that one readdir/realloc error
  discards descriptors already parsed (session.c:205) is covered by
  `CatalogIsUnion`. That property states the code's behaviour. No property
  states a promise that the code breaks.
