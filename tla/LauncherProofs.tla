---------------------------- MODULE LauncherProofs ----------------------------
(***************************************************************************)
(* Proofs about the child side of session_start (Launcher): it is well   *)
(* typed, and the session it executes can never regain root, for every   *)
(* target identity with non-zero ids and both manager credentials main   *)
(* accepts.  The inductive invariant CredInv says what the credentials   *)
(* are at each step: effective uid 0 until setuid; all three group ids   *)
(* the target's once setgid succeeded; all three user ids the target's   *)
(* once setuid succeeded.                                                *)
(***************************************************************************)
EXTENDS Launcher, TLAPS

CredInv ==
    /\ pc \in {"setenv", "chdir", "setgid"} => cred.euid = 0
    /\ pc = "setuid" =>
          /\ cred.euid = 0
          /\ cred.rgid = TargetGid /\ cred.egid = TargetGid /\ cred.sgid = TargetGid
    /\ pc \in {"verify", "exec", "session"} =>
          /\ cred.ruid = TargetUid /\ cred.euid = TargetUid /\ cred.suid = TargetUid
          /\ cred.rgid = TargetGid /\ cred.egid = TargetGid /\ cred.sgid = TargetGid

\* setgid and setuid keep the credentials a credential record.
LEMMA SetGidResultType ==
    ASSUME NEW c \in Creds, NEW g \in Nat, NEW ok \in BOOLEAN
    PROVE  SetGidResult(c, g, ok) \in Creds
BY DEF SetGidResult, Creds

LEMMA SetUidResultType ==
    ASSUME NEW c \in Creds, NEW u \in Nat, NEW ok \in BOOLEAN
    PROVE  SetUidResult(c, u, ok) \in Creds
BY DEF SetUidResult, Creds

\* Every state of the child is well typed.
THEOREM LauncherTypeCorrect == Spec => []TypeOK
<1>1. Init => TypeOK
  <2>1. ManagerCreds \subseteq Creds
    BY InvokerAssumption, GroupsAssumption DEF ManagerCreds, Creds
  <2>2. QED
    BY <2>1 DEF Init, TypeOK, Steps
<1>2. TypeOK /\ [Next]_vars => TypeOK'
  <2> SUFFICES ASSUME TypeOK, [Next]_vars PROVE TypeOK'
    OBVIOUS
  <2>1. CASE SetEnv
    BY <2>1 DEF SetEnv, Fail, TypeOK, Steps
  <2>2. CASE Chdir
    BY <2>2 DEF Chdir, Fail, TypeOK, Steps
  <2>3. CASE SetGid
    BY <2>3, SetGidResultType, TargetAssumption DEF SetGid, Fail, TypeOK, Steps
  <2>4. CASE SetUid
    BY <2>4, SetUidResultType, TargetAssumption DEF SetUid, Fail, TypeOK, Steps
  <2>5. CASE Verify \/ Exec \/ UNCHANGED vars
    BY <2>5 DEF Verify, Exec, Fail, TypeOK, Steps, vars
  <2>6. QED
    BY <2>1, <2>2, <2>3, <2>4, <2>5 DEF Next
<1>3. QED
  BY <1>1, <1>2, PTL DEF Spec

\* The session that session_start executes can never regain root: none of
\* its six user and group ids is 0, because setgid and then setuid run
\* while the effective uid is still 0, and the verification of
\* session.c:341-342 lets only the fully dropped child exec.
THEOREM SessionCannotRegainRootHolds == Spec => []SessionCannotRegainRoot
<1>1. Init => CredInv
  BY DEF Init, CredInv, ManagerCreds
<1>2. TypeOK /\ CredInv /\ [Next]_vars => CredInv'
  <2> SUFFICES ASSUME TypeOK, CredInv, [Next]_vars PROVE CredInv'
    OBVIOUS
  <2>1. CASE SetEnv \/ Chdir
    BY <2>1 DEF SetEnv, Chdir, Fail, CredInv
  <2>2. CASE SetGid
    BY <2>2 DEF SetGid, SetGidResult, SetGidSucceeds, Fail, CredInv, TypeOK, Creds
  <2>3. CASE SetUid
    BY <2>3 DEF SetUid, SetUidResult, SetUidSucceeds, Fail, CredInv, TypeOK, Creds
  <2>4. CASE Verify
    BY <2>4 DEF Verify, PrivilegesDropped, Fail, CredInv
  <2>5. CASE Exec \/ UNCHANGED vars
    BY <2>5 DEF Exec, Fail, CredInv, vars
  <2>6. QED
    BY <2>1, <2>2, <2>3, <2>4, <2>5 DEF Next
<1>3. CredInv => SessionCannotRegainRoot
  BY TargetAssumption DEF CredInv, SessionCannotRegainRoot
<1>4. QED
  BY <1>1, <1>2, <1>3, LauncherTypeCorrect, PTL DEF Spec
=============================================================================
