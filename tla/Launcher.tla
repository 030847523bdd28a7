------------------------------ MODULE Launcher ------------------------------
(***************************************************************************)
(* The child side of session_start (src/src/session.c:284-362): after the *)
(* fork, the child of the privileged manager sets the session environment,*)
(* changes to the home directory, drops the group and then the user       *)
(* identity, verifies the drop and executes the session.  Each system     *)
(* call may fail; a failure exits the child with EXIT_FAILURE.  setgid and *)
(* setuid follow their POSIX semantics: with effective uid 0 they set the *)
(* real, effective and saved ids; otherwise they may only set the         *)
(* effective id to the real or saved one.  Neither touches the            *)
(* supplementary group list.                                              *)
(***************************************************************************)
EXTENDS Naturals

CONSTANTS
    TargetUid,      \* pw->pw_uid
    TargetGid,      \* pw->pw_gid
    TargetGroups,   \* the target identity's supplementary groups (/etc/group)
    RootGroups,     \* the supplementary groups the manager runs with
    InvokerUid,     \* the real uid of whoever started a setuid-root manager
    InvokerGid      \* and that user's gid

ASSUME TargetAssumption == TargetUid \in Nat \ {0} /\ TargetGid \in Nat \ {0}
ASSUME GroupsAssumption == TargetGroups \subseteq Nat /\ RootGroups \subseteq Nat
ASSUME InvokerAssumption == InvokerUid \in Nat /\ InvokerGid \in Nat

VARIABLES
    pc,       \* the next step of the child
    cred,     \* the process credentials
    env,      \* the environment variables the child has set
    cwd,      \* the working directory
    program,  \* what runs in the process after exec, or "none"
    stype     \* session->type of the session being started

vars == <<pc, cred, env, cwd, program, stype>>

Steps == {"setenv", "chdir", "setgid", "setuid", "verify", "exec",
          "session", "failed"}

Creds == [ruid : Nat, euid : Nat, suid : Nat,
          rgid : Nat, egid : Nat, sgid : Nat, groups : SUBSET Nat]

\* The variables the child sets before the privilege drop.
SessionEnv(t) ==
    {"HOME", "USER", "LOGNAME", "SHELL", "XDG_SESSION_TYPE"} \cup
    (IF t = "x11" THEN {"DISPLAY"} ELSE {"WAYLAND_DISPLAY"})

TypeOK ==
    /\ pc \in Steps
    /\ cred \in Creds
    /\ env \subseteq SessionEnv(stype)
    /\ cwd \in {"manager", "home"}
    /\ program \in {"none", "startx", "sh"}
    /\ stype \in {"x11", "wayland"}

\* The credentials main accepts: check_root_privileges (src/src/main.c:77-83)
\* tests only geteuid() == 0, so the manager runs as root or as a
\* setuid-root program started by another user.
ManagerCreds ==
    { [ruid |-> 0, euid |-> 0, suid |-> 0,
       rgid |-> 0, egid |-> 0, sgid |-> 0, groups |-> RootGroups],
      [ruid |-> InvokerUid, euid |-> 0, suid |-> 0,
       rgid |-> InvokerGid, egid |-> InvokerGid, sgid |-> InvokerGid,
       groups |-> RootGroups] }

\* The child inherits the manager's credentials.
Init ==
    /\ pc = "setenv"
    /\ cred \in ManagerCreds
    /\ stype \in {"x11", "wayland"}
    /\ env = {}
    /\ cwd = "manager"
    /\ program = "none"

\* exit(EXIT_FAILURE).
Fail == pc' = "failed"

\* setgid(g): privileged, it sets all three group ids; unprivileged, only
\* the effective one and only to the real or saved id.  ok is FALSE when
\* the call fails (EINVAL, EPERM, or a security module's refusal).
SetGidResult(c, g, ok) ==
    CASE ~ok -> c
      [] c.euid = 0 -> [c EXCEPT !.rgid = g, !.egid = g, !.sgid = g]
      [] c.euid # 0 /\ g \in {c.rgid, c.sgid} -> [c EXCEPT !.egid = g]
      [] OTHER -> c

SetGidSucceeds(c, g, ok) == ok /\ (c.euid = 0 \/ g \in {c.rgid, c.sgid})

\* Mutant: the drop is written setresuid(uid, uid, -1), which keeps the
\* saved user id.
SetUidResultKeepSaved(c, u, ok) ==
    CASE ~ok -> c
      [] c.euid = 0 -> [c EXCEPT !.ruid = u, !.euid = u]
      [] c.euid # 0 /\ u \in {c.ruid, c.suid} -> [c EXCEPT !.euid = u]
      [] OTHER -> c

\* setuid(u), with the same distinction (EAGAIN under RLIMIT_NPROC, EPERM).
SetUidResult(c, u, ok) ==
    CASE ~ok -> c
      [] c.euid = 0 -> [c EXCEPT !.ruid = u, !.euid = u, !.suid = u]
      [] c.euid # 0 /\ u \in {c.ruid, c.suid} -> [c EXCEPT !.euid = u]
      [] OTHER -> c

SetUidSucceeds(c, u, ok) == ok /\ (c.euid = 0 \/ u \in {c.ruid, c.suid})

\* The check of session.c:341-342: real and effective uid and gid.
PrivilegesDropped(c) ==
    /\ c.ruid = TargetUid /\ c.euid = TargetUid
    /\ c.rgid = TargetGid /\ c.egid = TargetGid

\* Mutant: the X11 variables are set whatever the session type.
SetEnvX11Always ==
    /\ pc = "setenv"
    /\ \/ env' = SessionEnv("x11") /\ pc' = "chdir"
       \/ \E partial \in SUBSET SessionEnv(stype) : env' = partial /\ Fail
    /\ UNCHANGED <<cred, cwd, program, stype>>

\* The setenv calls of session.c:288-320; any of them may fail (ENOMEM).
SetEnv ==
    /\ pc = "setenv"
    /\ \/ env' = SessionEnv(stype) /\ pc' = "chdir"
       \/ \E partial \in SUBSET SessionEnv(stype) : env' = partial /\ Fail
    /\ UNCHANGED <<cred, cwd, program, stype>>

\* chdir(pw->pw_dir).
Chdir ==
    /\ pc = "chdir"
    /\ \/ cwd' = "home" /\ pc' = "setgid"
       \/ Fail /\ UNCHANGED cwd
    /\ UNCHANGED <<cred, env, program, stype>>

\* setgid(pw->pw_gid); a failure exits the child.
SetGid ==
    /\ pc = "setgid"
    /\ \E ok \in BOOLEAN :
          /\ cred' = SetGidResult(cred, TargetGid, ok)
          /\ IF SetGidSucceeds(cred, TargetGid, ok) THEN pc' = "setuid" ELSE Fail
    /\ UNCHANGED <<env, cwd, program, stype>>

\* setuid(pw->pw_uid); a failure exits the child.
SetUid ==
    /\ pc = "setuid"
    /\ \E ok \in BOOLEAN :
          /\ cred' = SetUidResult(cred, TargetUid, ok)
          /\ IF SetUidSucceeds(cred, TargetUid, ok) THEN pc' = "verify" ELSE Fail
    /\ UNCHANGED <<env, cwd, program, stype>>

\* getuid/geteuid/getgid/getegid against the target identity.
Verify ==
    /\ pc = "verify"
    /\ IF PrivilegesDropped(cred) THEN pc' = "exec" ELSE Fail
    /\ UNCHANGED <<cred, env, cwd, program, stype>>

\* execlp: for X11 startx, then sh -c; for Wayland sh -c.  An exec that
\* returns has failed.
Exec ==
    /\ pc = "exec"
    /\ \/ stype = "x11" /\ program' = "startx" /\ pc' = "session"
       \/ program' = "sh" /\ pc' = "session"
       \/ Fail /\ UNCHANGED program
    /\ UNCHANGED <<cred, env, cwd, stype>>

Next == SetEnv \/ Chdir \/ SetGid \/ SetUid \/ Verify \/ Exec

Spec == Init /\ [][Next]_vars

-----------------------------------------------------------------------------
(* Properties *)

\* The executed session can never get root back: none of the real,
\* effective or saved user and group ids is 0.  session.c:341-342 checks
\* only the real and effective ids; the saved ids are right only because
\* setgid and setuid run with effective uid 0, in that order.
SessionCannotRegainRoot ==
    pc = "session" =>
        0 \notin {cred.ruid, cred.euid, cred.suid, cred.rgid, cred.egid, cred.sgid}

\* spec.md 1: the session runs "with the identity's own (unprivileged)
\* credentials": its group list is the target identity's.
SessionHasOnlyTargetGroups ==
    pc = "session" => cred.groups \subseteq TargetGroups \cup {TargetGid}
=============================================================================
