------------------------------- MODULE AuthCall -------------------------------
(***************************************************************************)
(* auth_authenticate as the sequence of steps it takes (src/src/auth.c):  *)
(* the lockout check and the identity switch, tty_lock, pam_start, then   *)
(* pam_authenticate, during which the PAM stack calls pam_conversation    *)
(* any number of times up to MaxConvs, pam_acct_mgmt, pam_end and         *)
(* tty_unlock.  pam_conversation is modelled one message per step, with   *)
(* the heap blocks it allocates: the calloc'd response array and one      *)
(* strdup'd copy of the secret per prompt.  Between calls the caller may  *)
(* also call auth_is_locked_out or auth_reset_attempts, and the clock     *)
(* moves on; a clock correction is only taken between calls.              *)
(***************************************************************************)
EXTENDS AuthOps, Sequences

CONSTANTS
    MaxTime,           \* bound on the clock
    MaxClockStepBack,  \* how far one clock correction may move time back
    MaxNumMsg,         \* PAM_MAX_NUM_MSG
    Conversations,     \* the message-style sequences the PAM stack may send
    MaxConvs           \* bound on the conversations of one pam_authenticate

ASSUME MaxTimeAssumption == MaxTime \in Nat \ {0}
ASSUME MaxClockStepBackAssumption == MaxClockStepBack \in Nat
ASSUME MaxNumMsgAssumption == MaxNumMsg \in Nat \ {0}
ASSUME MaxConvsAssumption == MaxConvs \in Nat

\* struct pam_message's msg_style: the two prompts, the two informational
\* styles, and any other (PAM_RADIO_TYPE, PAM_BINARY_PROMPT).
Prompts == {"echo_off", "echo_on"}
Infos == {"error_msg", "text_info"}
Styles == Prompts \cup Infos \cup {"other"}

ASSUME ConversationsAssumption == Conversations \subseteq Seq(Styles)

VARIABLES
    pc,        \* where auth_authenticate is, "idle" between calls
    user,      \* the username argument of the call in progress
    st,        \* *state, the caller's auth_state_t
    st0,       \* ghost: *state when the call began
    now,       \* what time(NULL) returns
    lastCall,  \* ghost: the last API call, as in Auth
    ttyFd,     \* tty_fd: "closed" (-1) or "open"
    vtLocked,  \* VT switching is locked (VT_LOCKSWITCH)
    convs,     \* the conversations of this pam_authenticate so far
    msgs,      \* the messages of the conversation in progress
    ci,        \* pam_conversation's loop index i
    resp,      \* *resp: NULL or the response slots, one per message
    live,      \* the strdup'd secret copies not yet freed, by message index
    arrLive,   \* the calloc'd response array is allocated and owned by kia
    convRet,   \* the last return value of pam_conversation
    residue    \* ghost: a copy of the secret was freed without being zeroed

vars == <<pc, user, st, st0, now, lastCall, ttyFd, vtLocked, convs, msgs,
          ci, resp, live, arrLive, convRet, residue>>
convVars == <<msgs, ci, resp, live, arrLive, convRet, residue>>

Calls == [op : {"none", "authenticate", "is_locked_out", "reset"},
          user : Names, called : BOOLEAN, rc : Codes \cup {"none"}]
NoCall == [op |-> "none", user |-> NoUser, called |-> FALSE, rc |-> "none"]

\* The contents of one pam_response slot: resp left NULL or the secret.
Slots == {"null", "secret"}
\* *resp = NULL, as the empty function (an allocated array is never empty).
RespNull == <<>>
ConvCodes == {"none", "PAM_SUCCESS", "PAM_CONV_ERR", "PAM_BUF_ERR"}

TypeOK ==
    /\ pc \in {"idle", "lock", "start", "auth", "conv", "conv_loop", "acct"}
    /\ user \in Names
    /\ st \in AuthStates /\ st0 \in AuthStates
    /\ now \in 1..MaxTime
    /\ lastCall \in Calls
    /\ ttyFd \in {"closed", "open"}
    /\ vtLocked \in BOOLEAN
    /\ convs \in 0..MaxConvs
    /\ msgs \in Conversations \cup {<<>>}
    /\ ci \in 0..Len(msgs)
    /\ resp \in {RespNull} \cup [1..Len(msgs) -> Slots]
    /\ live \subseteq 1..Len(msgs)
    /\ arrLive \in BOOLEAN
    /\ convRet \in ConvCodes
    /\ residue \in BOOLEAN

Init ==
    /\ pc = "idle" /\ user = NoUser
    /\ st = InitAuthState /\ st0 = InitAuthState
    /\ now = 1 /\ lastCall = NoCall
    /\ ttyFd = "closed" /\ vtLocked = FALSE
    /\ convs = 0 /\ msgs = <<>> /\ ci = 0 /\ resp = RespNull /\ live = {}
    /\ arrLive = FALSE /\ convRet = "none" /\ residue = FALSE

\* auth_authenticate returns rc; called records whether pam_start succeeded.
Return(rc, called) ==
    /\ pc' = "idle"
    /\ lastCall' = [op |-> "authenticate", user |-> user, called |-> called, rc |-> rc]

\* tty_unlock: with the descriptor open, VT_UNLOCKSWITCH (which cannot
\* fail for the process that took the lock) and close.
TtyUnlock == ttyFd' = "closed" /\ vtLocked' = FALSE

-----------------------------------------------------------------------------
(* auth_authenticate *)

\* The call: auth_is_locked_out (with its side effect on an expired
\* lockout) rejects a locked-out identity at once; otherwise a different
\* identity replaces the tracked one with a clean counter.
Begin(u) ==
    /\ pc = "idle"
    /\ user' = u
    /\ st0' = st
    /\ IF IsLockedOut(st, now)
       THEN /\ lastCall' = [op |-> "authenticate", user |-> u, called |-> FALSE,
                            rc |-> "KIA_ERROR_AUTH"]
            /\ UNCHANGED <<pc, st>>
       ELSE /\ st' = TrackUser(AfterLockoutCheck(st, now), u)
            /\ pc' = "lock"
            /\ UNCHANGED lastCall
    /\ UNCHANGED <<now, ttyFd, vtLocked, convs, convVars>>

\* tty_lock: open("/dev/tty") and VT_LOCKSWITCH; either may fail, which is
\* only logged.  A failed ioctl closes the descriptor again.
TtyLock ==
    /\ pc = "lock"
    /\ \E opened, locked \in BOOLEAN :
          /\ ttyFd' = IF opened /\ locked THEN "open" ELSE "closed"
          /\ vtLocked' = (opened /\ locked)
    /\ pc' = "start"
    /\ UNCHANGED <<user, st, st0, now, lastCall, convs, convVars>>

\* Mutant: the pam_start failure path returns without tty_unlock.
PamStartNoUnlock ==
    /\ pc = "start"
    /\ \E ok \in BOOLEAN :
          IF ok THEN pc' = "auth" /\ convs' = 0 /\ UNCHANGED <<ttyFd, vtLocked, lastCall>>
                ELSE Return("KIA_ERROR_PAM", FALSE) /\ UNCHANGED <<convs, ttyFd, vtLocked>>
    /\ UNCHANGED <<user, st, st0, now, convVars>>

\* pam_start: a failure unlocks the tty and returns KIA_ERROR_PAM.
PamStart ==
    /\ pc = "start"
    /\ \E ok \in BOOLEAN :
          IF ok THEN pc' = "auth" /\ convs' = 0 /\ UNCHANGED <<ttyFd, vtLocked, lastCall>>
                ELSE TtyUnlock /\ Return("KIA_ERROR_PAM", FALSE) /\ UNCHANGED convs
    /\ UNCHANGED <<user, st, st0, now, convVars>>

\* Inside pam_authenticate the stack sends a conversation.
PamConverse ==
    /\ pc = "auth"
    /\ convs < MaxConvs
    /\ convRet \notin {"PAM_CONV_ERR", "PAM_BUF_ERR"}
    /\ \E m \in Conversations : msgs' = m
    /\ convs' = convs + 1
    /\ pc' = "conv"
    /\ resp' = RespNull /\ ci' = 0
    /\ UNCHANGED <<user, st, st0, now, lastCall, ttyFd, vtLocked, live,
                   arrLive, convRet, residue>>

\* pam_authenticate fails (a rejected secret, or a failed conversation):
\* count the failure, arm the lockout at the threshold, pam_end, unlock.
PamAuthFail ==
    /\ pc = "auth"
    /\ st' = RecordFailure(st, now)
    /\ TtyUnlock
    /\ Return("KIA_ERROR_AUTH", TRUE)
    /\ convRet' = "none"
    /\ UNCHANGED <<user, st0, now, convs, msgs, ci, resp, live, arrLive, residue>>

\* Mutant: an account rejected by pam_acct_mgmt is not counted.
PamAcctRejectNotCounted ==
    /\ pc = "auth"
    /\ convRet \notin {"PAM_CONV_ERR", "PAM_BUF_ERR"}
    /\ \E ok \in BOOLEAN :
          IF ok THEN st' = ResetAttempts(st) /\ Return("KIA_SUCCESS", TRUE)
                ELSE st' = st /\ Return("KIA_ERROR_AUTH", TRUE)
    /\ TtyUnlock
    /\ convRet' = "none"
    /\ UNCHANGED <<user, st0, now, convs, msgs, ci, resp, live, arrLive, residue>>

\* pam_authenticate succeeds, which no stack does after a failed
\* conversation; pam_acct_mgmt then decides.  A rejection counts as a
\* failure; an acceptance resets the attempts.  pam_end, unlock.
PamAcct ==
    /\ pc = "auth"
    /\ convRet \notin {"PAM_CONV_ERR", "PAM_BUF_ERR"}
    /\ \E ok \in BOOLEAN :
          IF ok THEN st' = ResetAttempts(st) /\ Return("KIA_SUCCESS", TRUE)
                ELSE st' = RecordFailure(st, now) /\ Return("KIA_ERROR_AUTH", TRUE)
    /\ TtyUnlock
    /\ convRet' = "none"
    /\ UNCHANGED <<user, st0, now, convs, msgs, ci, resp, live, arrLive, residue>>

-----------------------------------------------------------------------------
(* pam_conversation *)

\* The responses pam_conversation must hand back for messages m: the secret
\* for each prompt, nothing for an informational message.
ExpectedResponses(m) ==
    [k \in 1..Len(m) |-> IF m[k] \in Prompts THEN "secret" ELSE "null"]

\* Mutant: the cleanup loop stops one short (j < i - 1).
FreeResponsesOneShort(i, code) ==
    /\ live' = live \ (1..(i - 1))
    /\ residue' = (residue \/ live \cap (1..(i - 1)) # {})
    /\ arrLive' = FALSE
    /\ resp' = RespNull
    /\ convRet' = code
    /\ pc' = "auth"

\* The error exit after messages 1..i were answered: free each response
\* string (free does not clear it) and the array, *resp = NULL.
FreeResponses(i, code) ==
    /\ live' = live \ (1..i)
    /\ residue' = (residue \/ live \cap (1..i) # {})
    /\ arrLive' = FALSE
    /\ resp' = RespNull
    /\ convRet' = code
    /\ pc' = "auth"

\* Entry: the message count check, then calloc of the response array.
ConvEnter ==
    /\ pc = "conv"
    /\ IF Len(msgs) = 0 \/ Len(msgs) > MaxNumMsg
       THEN convRet' = "PAM_CONV_ERR" /\ pc' = "auth" /\ UNCHANGED <<ci, resp, arrLive>>
       ELSE \E ok \in BOOLEAN :
              IF ok THEN /\ resp' = [k \in 1..Len(msgs) |-> "null"]
                         /\ arrLive' = TRUE /\ ci' = 0 /\ pc' = "conv_loop"
                         /\ UNCHANGED convRet
                    ELSE convRet' = "PAM_BUF_ERR" /\ pc' = "auth" /\ UNCHANGED <<ci, resp, arrLive>>
    /\ UNCHANGED <<user, st, st0, now, lastCall, ttyFd, vtLocked, convs, msgs,
                   live, residue>>

\* Mutant: informational messages are answered with the secret too.
ConvMessageInfoAnswered ==
    /\ pc = "conv_loop"
    /\ ci < Len(msgs)
    /\ LET s == msgs[ci + 1]
       IN  CASE s \in Prompts \cup Infos ->
                  \E ok \in BOOLEAN :
                     IF ok THEN /\ resp' = [resp EXCEPT ![ci + 1] = "secret"]
                                /\ live' = live \cup {ci + 1}
                                /\ ci' = ci + 1
                                /\ UNCHANGED <<pc, arrLive, convRet, residue>>
                           ELSE FreeResponses(ci, "PAM_BUF_ERR") /\ UNCHANGED ci
             [] OTHER -> FreeResponses(ci, "PAM_CONV_ERR") /\ UNCHANGED ci
    /\ UNCHANGED <<user, st, st0, now, lastCall, ttyFd, vtLocked, convs, msgs>>

\* One iteration of the loop over the messages.
ConvMessage ==
    /\ pc = "conv_loop"
    /\ ci < Len(msgs)
    /\ LET s == msgs[ci + 1]
       IN  CASE s \in Prompts ->
                  \E ok \in BOOLEAN :
                     IF ok THEN /\ resp' = [resp EXCEPT ![ci + 1] = "secret"]
                                /\ live' = live \cup {ci + 1}
                                /\ ci' = ci + 1
                                /\ UNCHANGED <<pc, arrLive, convRet, residue>>
                           ELSE FreeResponses(ci, "PAM_BUF_ERR") /\ UNCHANGED ci
             [] s \in Infos ->
                  /\ resp' = [resp EXCEPT ![ci + 1] = "null"]
                  /\ ci' = ci + 1
                  /\ UNCHANGED <<pc, live, arrLive, convRet, residue>>
             [] OTHER -> FreeResponses(ci, "PAM_CONV_ERR") /\ UNCHANGED ci
    /\ UNCHANGED <<user, st, st0, now, lastCall, ttyFd, vtLocked, convs, msgs>>

\* All messages answered: PAM_SUCCESS; the array and the copies now belong
\* to the PAM stack, which clears and frees them.
ConvDone ==
    /\ pc = "conv_loop"
    /\ ci = Len(msgs)
    /\ convRet' = "PAM_SUCCESS"
    /\ pc' = "auth"
    /\ live' = {} /\ arrLive' = FALSE
    /\ UNCHANGED <<user, st, st0, now, lastCall, ttyFd, vtLocked, convs, msgs,
                   ci, resp, residue>>

-----------------------------------------------------------------------------
(* The other entry points and the clock *)

\* auth_is_locked_out and auth_reset_attempts, between calls.
CheckLockedOut ==
    /\ pc = "idle"
    /\ st' = AfterLockoutCheck(st, now)
    /\ lastCall' = [op |-> "is_locked_out", user |-> NoUser, called |-> FALSE, rc |-> "none"]
    /\ UNCHANGED <<pc, user, st0, now, ttyFd, vtLocked, convs, convVars>>

Reset ==
    /\ pc = "idle"
    /\ st' = ResetAttempts(st)
    /\ lastCall' = [op |-> "reset", user |-> NoUser, called |-> FALSE, rc |-> "none"]
    /\ UNCHANGED <<pc, user, st0, now, ttyFd, vtLocked, convs, convVars>>

\* Time passes, also while PAM works.
Tick ==
    /\ now < MaxTime
    /\ now' = now + 1
    /\ UNCHANGED <<pc, user, st, st0, lastCall, ttyFd, vtLocked, convs, convVars>>

ClockStepBack ==
    /\ pc = "idle"
    /\ \E d \in 1..MaxClockStepBack : now - d >= 1 /\ now' = now - d
    /\ UNCHANGED <<pc, user, st, st0, lastCall, ttyFd, vtLocked, convs, convVars>>

Next ==
    \/ \E u \in Names : Begin(u)
    \/ TtyLock \/ PamStart \/ PamConverse \/ PamAuthFail \/ PamAcct
    \/ ConvEnter \/ ConvMessage \/ ConvDone
    \/ CheckLockedOut \/ Reset \/ Tick \/ ClockStepBack

Spec == Init /\ [][Next]_vars

-----------------------------------------------------------------------------
(* Properties *)

\* Every return of auth_authenticate, on each of its paths, leaves the tty
\* unlocked and its descriptor closed: VT switching is never left disabled
\* after a call.
VtUnlockedBetweenCalls == pc = "idle" => (ttyFd = "closed" /\ ~vtLocked)

\* A conversation that answers all messages hands back exactly one copy of
\* the secret per prompt and nothing for an informational message.
ConversationAnswers ==
    (pc = "conv_loop" /\ ci = Len(msgs)) => resp = ExpectedResponses(msgs)

\* A conversation that fails hands nothing back and keeps nothing: every
\* string it duplicated and the array are freed, and *resp is NULL.
ConversationCleansUp ==
    (pc = "auth" /\ convRet \in {"PAM_CONV_ERR", "PAM_BUF_ERR"}) =>
        /\ live = {} /\ ~arrLive /\ resp = RespNull

\* spec.md 9: the secret is cleared with the non-elidable facility "on every
\* code path ... that held the secret": no copy of it is ever freed without
\* being cleared first.
SecretNeverFreedUncleared == ~residue

\* The step-by-step call implements the atomic Authenticator (module Auth):
\* between calls the caller sees the auth_state_t and the call record that
\* one atomic auth_authenticate with the provider's verdict would produce.
AuthBar == IF pc = "idle" THEN st ELSE st0

Atomic == INSTANCE Auth WITH auth <- AuthBar

ImplementsAuth == Atomic!Spec
=============================================================================
