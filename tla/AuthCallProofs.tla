--------------------------- MODULE AuthCallProofs ---------------------------
(***************************************************************************)
(* Proofs about auth_authenticate taken step by step (AuthCall): the type  *)
(* invariant, the tty being unlocked between calls, what pam_conversation *)
(* hands back and what it frees, and that the call implements the atomic  *)
(* Authenticator of module Auth, for every set of identities, every set of *)
(* conversations and every value of the constants.                        *)
(***************************************************************************)
EXTENDS AuthCall, AuthOpsProofs, TLAPS

\* The conversation error codes after which pam_conversation has cleaned up.
ConvErrors == {"PAM_CONV_ERR", "PAM_BUF_ERR"}

\* Outside tty_lock .. tty_unlock the descriptor is closed and VT switching
\* unlocked: Begin does not touch the tty, and every return path unlocks.
TtyInv == pc \in {"idle", "lock"} => ttyFd = "closed" /\ ~vtLocked

\* Outside pam_conversation's loop kia owns no heap block of a conversation:
\* ConvDone hands them to the PAM stack, the error exits free them.
HeapInv ==
    pc \in {"idle", "lock", "start", "auth", "conv"} => live = {} /\ ~arrLive

\* Before pam_authenticate no conversation has run: every return resets
\* the conversation's result.
ConvRetInv == pc \in {"idle", "lock", "start"} => convRet = "none"

\* pam_conversation starts from *resp = NULL, and a failed one leaves it so.
RespNullInv ==
    (pc = "conv" \/ (pc = "auth" /\ convRet \in ConvErrors)) => resp = RespNull

\* Inside the loop: the array is allocated, one slot per message, the
\* answered messages hold what ExpectedResponses asks for, and the only
\* live copies of the secret are among the answered messages.
LoopInv ==
    pc = "conv_loop" =>
        /\ arrLive
        /\ Len(msgs) >= 1
        /\ resp \in [1..Len(msgs) -> Slots]
        /\ live \subseteq 1..ci
        /\ \A k \in 1..ci : resp[k] = ExpectedResponses(msgs)[k]

\* During a call the caller's state is what the lockout check and the
\* identity switch of Begin made of the state the call began with, and
\* that state was not locked out: time passing does not change either.
CallInv ==
    pc # "idle" =>
        /\ ~IsLockedOut(st0, now)
        /\ st = TrackUser(AfterLockoutCheck(st0, now), user)

IInv == TypeOK /\ TtyInv /\ HeapInv /\ ConvRetInv /\ RespNullInv /\ LoopInv /\ CallInv

\* The messages of a conversation are a sequence of styles.
LEMMA MsgsSeq ==
    ASSUME TypeOK
    PROVE  msgs \in Seq(Styles)
<1>1. CASE msgs \in Conversations
  BY <1>1, ConversationsAssumption
<1>2. CASE msgs = <<>>
  BY <1>2
<1>3. QED
  BY <1>1, <1>2 DEF TypeOK

\* The caller's state stays an auth_state_t through the lockout check, the
\* identity switch and the counting of a failure.
LEMMA StepStates ==
    ASSUME NEW s \in AuthStates, NEW u \in Names, NEW t \in Nat
    PROVE  /\ TrackUser(AfterLockoutCheck(s, t), u) \in AuthStates
           /\ RecordFailure(s, t) \in AuthStates
           /\ ResetAttempts(s) \in AuthStates
           /\ AfterLockoutCheck(s, t) \in AuthStates
BY AfterLockoutCheckType, TrackUserType, RecordFailureType, ResetAttemptsType

LEMMA InitIInv == Init => IInv
<1> SUFFICES ASSUME Init PROVE IInv
  OBVIOUS
<1>1. InitAuthState \in AuthStates /\ NoUser \in Names
  BY DEF InitAuthState, AuthStates, Names
<1>2. NoCall \in Calls
  BY <1>1 DEF NoCall, Calls, Codes
<1>3. msgs \in Conversations \cup {<<>>} /\ ci \in 0..Len(msgs)
      /\ resp \in {RespNull} \cup [1..Len(msgs) -> Slots] /\ live \subseteq 1..Len(msgs)
  BY DEF Init, RespNull
<1>4. now \in 1..MaxTime /\ convs \in 0..MaxConvs
  BY MaxTimeAssumption, MaxConvsAssumption DEF Init
<1>5. vtLocked \in BOOLEAN /\ arrLive \in BOOLEAN /\ residue \in BOOLEAN
  BY DEF Init
<1>6. TypeOK
  BY <1>1, <1>2, <1>3, <1>4, <1>5 DEF Init, TypeOK, ConvCodes
<1>7. QED
  BY <1>6 DEF Init, IInv, TtyInv, HeapInv, ConvRetInv, RespNullInv, LoopInv, CallInv

\* auth_authenticate's entry: a locked-out identity returns at once, any
\* other takes the lock with the switched identity.
LEMMA BeginStep ==
    ASSUME IInv, NEW u \in Names, Begin(u)
    PROVE  IInv'
<1> USE DEF IInv, ConvErrors
<1>1. now \in Nat
  BY DEF TypeOK
<1>2. CASE IsLockedOut(st, now)
  <2>0. lastCall' = [op |-> "authenticate", user |-> u, called |-> FALSE,
                      rc |-> "KIA_ERROR_AUTH"]
    BY <1>2 DEF Begin
  <2>1. lastCall' \in Calls
    BY <2>0, Zenon DEF Calls, Codes
  <2>2. TypeOK'
    BY <1>2, <2>1 DEF Begin, TypeOK, convVars
  <2>3. QED
    BY <1>2, <2>2 DEF Begin, convVars, TtyInv, HeapInv, ConvRetInv, RespNullInv,
                      LoopInv, CallInv
<1>3. CASE ~IsLockedOut(st, now)
  <2>0. st' = TrackUser(AfterLockoutCheck(st, now), u)
    BY <1>3 DEF Begin
  <2>1. st' \in AuthStates
    BY <1>1, <2>0, StepStates DEF TypeOK
  <2>2. TypeOK'
    BY <1>3, <2>1 DEF Begin, TypeOK, convVars
  <2>3. CallInv'
    BY <1>3 DEF Begin, CallInv
  <2>4. QED
    BY <1>3, <2>2, <2>3 DEF Begin, convVars, TtyInv, HeapInv, ConvRetInv, RespNullInv,
                           LoopInv
<1>4. QED
  BY <1>2, <1>3

\* tty_lock: the descriptor and the lock change, nothing else.
LEMMA TtyLockStep ==
    ASSUME IInv, TtyLock
    PROVE  IInv'
<1> USE DEF IInv, ConvErrors
<1>1. ttyFd' \in {"closed", "open"} /\ vtLocked' \in BOOLEAN
  BY DEF TtyLock
<1>2. TypeOK'
  BY <1>1 DEF TtyLock, TypeOK, convVars
<1>3. QED
  BY <1>2 DEF TtyLock, convVars, TtyInv, HeapInv, ConvRetInv, RespNullInv,
              LoopInv, CallInv

\* pam_start: a failure returns KIA_ERROR_PAM with the tty unlocked.
LEMMA PamStartStep ==
    ASSUME IInv, PamStart
    PROVE  IInv'
<1> USE DEF IInv, ConvErrors
<1>1. CASE pc' = "auth" /\ convs' = 0 /\ UNCHANGED <<ttyFd, vtLocked, lastCall>>
  <2>1. TypeOK'
    BY <1>1, MaxConvsAssumption DEF PamStart, TypeOK, convVars
  <2>2. QED
    BY <1>1, <2>1 DEF PamStart, convVars, TtyInv, HeapInv, ConvRetInv, RespNullInv,
                      LoopInv, CallInv
<1>2. CASE TtyUnlock /\ Return("KIA_ERROR_PAM", FALSE) /\ UNCHANGED convs
  <2>1. lastCall' = [op |-> "authenticate", user |-> user, called |-> FALSE,
                     rc |-> "KIA_ERROR_PAM"]
    BY <1>2 DEF Return
  <2>2. lastCall' \in Calls
    BY <2>1, Zenon DEF TypeOK, Calls, Codes
  <2>3. TypeOK'
    BY <1>2, <2>2 DEF PamStart, TtyUnlock, Return, TypeOK, convVars
  <2>4. pc = "start" /\ pc' = "idle" /\ UNCHANGED convVars
    BY <1>2 DEF PamStart, Return
  <2>5. TtyInv' /\ CallInv' /\ RespNullInv' /\ LoopInv'
    BY <1>2, <2>4 DEF TtyUnlock, TtyInv, RespNullInv, LoopInv, CallInv
  <2>6. HeapInv' /\ ConvRetInv'
    BY <2>4 DEF convVars, HeapInv, ConvRetInv
  <2>7. QED
    BY <2>3, <2>5, <2>6
<1>3. QED
  BY <1>1, <1>2 DEF PamStart

\* The PAM stack starts a conversation: fresh messages, *resp = NULL.
LEMMA PamConverseStep ==
    ASSUME IInv, PamConverse
    PROVE  IInv'
<1> USE DEF IInv, ConvErrors
<1>1. msgs' \in Conversations /\ msgs' \in Seq(Styles)
  BY ConversationsAssumption DEF PamConverse
<1>2. live = {} /\ ~arrLive
  BY DEF PamConverse, HeapInv
<1>3. ci' \in 0..Len(msgs') /\ live' \subseteq 1..Len(msgs')
  BY <1>1, <1>2 DEF PamConverse
<1>4. convs' \in 0..MaxConvs
  BY MaxConvsAssumption DEF PamConverse, TypeOK
<1>5. TypeOK'
  BY <1>1, <1>3, <1>4 DEF PamConverse, TypeOK
<1>6. QED
  BY <1>2, <1>5 DEF PamConverse, TtyInv, HeapInv, ConvRetInv, RespNullInv,
                    LoopInv, CallInv

\* The return after pam_authenticate and pam_acct_mgmt: the verdict is
\* applied to the caller's state, the tty unlocked and convRet reset.
LEMMA ReturnAfterAuth ==
    ASSUME IInv, pc = "auth", st' \in AuthStates,
           NEW rc \in Codes, Return(rc, TRUE), TtyUnlock, convRet' = "none",
           UNCHANGED <<user, st0, now, convs, msgs, ci, resp, live, arrLive, residue>>
    PROVE  IInv'
<1> USE DEF IInv, ConvErrors
<1>1. lastCall' = [op |-> "authenticate", user |-> user, called |-> TRUE, rc |-> rc]
  BY DEF Return
<1>2. lastCall' \in Calls
  BY <1>1, Zenon DEF TypeOK, Calls
<1>3. TypeOK'
  BY <1>2 DEF Return, TtyUnlock, TypeOK, ConvCodes
<1>4. QED
  BY <1>3 DEF Return, TtyUnlock, TtyInv, HeapInv, ConvRetInv, RespNullInv,
              LoopInv, CallInv

LEMMA PamAuthFailStep ==
    ASSUME IInv, PamAuthFail
    PROVE  IInv'
<1>0. st \in AuthStates /\ now \in Nat /\ st' = RecordFailure(st, now)
  BY DEF PamAuthFail, IInv, TypeOK
<1>1. st' \in AuthStates
  BY <1>0, RecordFailureType
<1>2. QED
  BY <1>1, ReturnAfterAuth DEF PamAuthFail, Codes

LEMMA PamAcctStep ==
    ASSUME IInv, PamAcct
    PROVE  IInv'
<1>0. st \in AuthStates /\ now \in Nat
  BY DEF IInv, TypeOK
<1>1. st' \in AuthStates
  <2>1. PICK ok \in BOOLEAN :
          IF ok THEN st' = ResetAttempts(st) /\ Return("KIA_SUCCESS", TRUE)
                ELSE st' = RecordFailure(st, now) /\ Return("KIA_ERROR_AUTH", TRUE)
    BY DEF PamAcct
  <2>2. CASE ok
    BY <1>0, <2>1, <2>2, ResetAttemptsType
  <2>3. CASE ~ok
    BY <1>0, <2>1, <2>3, RecordFailureType
  <2>4. QED
    BY <2>2, <2>3
<1>2. QED
  BY <1>1, ReturnAfterAuth DEF PamAcct, Codes

\* pam_conversation's entry: a bad count or a failed calloc returns an
\* error with nothing allocated; otherwise the zeroed array is kia's.
LEMMA ConvEnterStep ==
    ASSUME IInv, ConvEnter
    PROVE  IInv'
<1> USE DEF IInv, ConvErrors
<1>1. pc = "conv" /\ live = {} /\ ~arrLive /\ resp = RespNull
  BY DEF ConvEnter, HeapInv, RespNullInv
<1>2. msgs \in Seq(Styles)
  BY MsgsSeq
<1>3. CASE Len(msgs) = 0 \/ Len(msgs) > MaxNumMsg
  <2>1. convRet' = "PAM_CONV_ERR" /\ pc' = "auth" /\ UNCHANGED <<ci, resp, arrLive>>
    BY <1>3 DEF ConvEnter
  <2>2. TypeOK'
    BY <2>1 DEF ConvEnter, TypeOK, ConvCodes
  <2>3. QED
    BY <1>1, <2>1, <2>2 DEF ConvEnter, TtyInv, HeapInv, ConvRetInv, RespNullInv,
                           LoopInv, CallInv
<1>4. CASE ~(Len(msgs) = 0 \/ Len(msgs) > MaxNumMsg)
  <2>1. PICK ok \in BOOLEAN :
          IF ok THEN /\ resp' = [k \in 1..Len(msgs) |-> "null"]
                     /\ arrLive' = TRUE /\ ci' = 0 /\ pc' = "conv_loop"
                     /\ UNCHANGED convRet
                ELSE convRet' = "PAM_BUF_ERR" /\ pc' = "auth" /\ UNCHANGED <<ci, resp, arrLive>>
    BY <1>4 DEF ConvEnter
  <2>2. CASE ok
    <3>1. /\ resp' = [k \in 1..Len(msgs) |-> "null"]
          /\ arrLive' = TRUE /\ ci' = 0 /\ pc' = "conv_loop" /\ UNCHANGED convRet
      BY <2>1, <2>2
    <3>2. resp' \in [1..Len(msgs) -> Slots] /\ Len(msgs) >= 1
      BY <1>2, <1>4, <3>1 DEF Slots
    <3>3. TypeOK'
      BY <1>1, <3>1, <3>2 DEF ConvEnter, TypeOK
    <3>4. LoopInv'
      BY <1>1, <3>1, <3>2 DEF ConvEnter, LoopInv
    <3>5. QED
      BY <3>1, <3>3, <3>4 DEF ConvEnter, TtyInv, HeapInv, ConvRetInv, RespNullInv,
                             CallInv
  <2>3. CASE ~ok
    <3>1. convRet' = "PAM_BUF_ERR" /\ pc' = "auth" /\ UNCHANGED <<ci, resp, arrLive>>
      BY <2>1, <2>3
    <3>2. TypeOK'
      BY <3>1 DEF ConvEnter, TypeOK, ConvCodes
    <3>3. QED
      BY <1>1, <3>1, <3>2 DEF ConvEnter, TtyInv, HeapInv, ConvRetInv, RespNullInv,
                             LoopInv, CallInv
  <2>4. QED
    BY <2>2, <2>3
<1>5. QED
  BY <1>3, <1>4

\* All messages answered: the blocks go to the PAM stack.
LEMMA ConvDoneStep ==
    ASSUME IInv, ConvDone
    PROVE  IInv'
<1> USE DEF IInv, ConvErrors
<1>1. TypeOK'
  BY DEF ConvDone, TypeOK, ConvCodes
<1>2. QED
  BY <1>1 DEF ConvDone, TtyInv, HeapInv, ConvRetInv, RespNullInv, LoopInv, CallInv

\* The error exit of the loop frees every copy made so far and the array.
LEMMA FreeResponsesStep ==
    ASSUME IInv, pc = "conv_loop", NEW code \in ConvErrors, FreeResponses(ci, code),
           UNCHANGED <<ci, user, st, st0, now, lastCall, ttyFd, vtLocked, convs, msgs>>
    PROVE  IInv'
<1> USE DEF IInv, ConvErrors
<1>1. live \subseteq 1..ci
  BY DEF LoopInv
<1>2. live' = {} /\ ~arrLive' /\ resp' = RespNull /\ pc' = "auth" /\ convRet' = code
  BY <1>1 DEF FreeResponses
<1>3. residue' \in BOOLEAN /\ arrLive' \in BOOLEAN
  BY <1>2, Zenon DEF FreeResponses, TypeOK
<1>4. ci' \in 0..Len(msgs') /\ resp' \in {RespNull} \cup [1..Len(msgs') -> Slots]
      /\ live' \subseteq 1..Len(msgs') /\ convRet' \in ConvCodes /\ pc' = "auth"
  BY <1>2 DEF TypeOK, ConvCodes
<1>6. TypeOK'
  BY <1>3, <1>4, Zenon DEF TypeOK
<1>5. QED
  BY <1>2, <1>6 DEF TtyInv, HeapInv, ConvRetInv, RespNullInv, LoopInv, CallInv

\* One iteration of the loop: a prompt gets a copy of the secret, an
\* informational message no response, any other style ends the loop.
LEMMA ConvMessageStep ==
    ASSUME IInv, ConvMessage
    PROVE  IInv'
<1> USE DEF IInv, ConvErrors
<1> DEFINE sty == msgs[ci + 1]
<1>0. /\ pc = "conv_loop" /\ ci < Len(msgs)
      /\ UNCHANGED <<user, st, st0, now, lastCall, ttyFd, vtLocked, convs, msgs>>
  BY DEF ConvMessage
<1>1. msgs \in Seq(Styles) /\ ci \in 0..Len(msgs) - 1
  BY <1>0, MsgsSeq DEF TypeOK
<1>2. sty \in Styles
  BY <1>1 DEF sty
<1>3. CASE sty \in Prompts
  <2>1. PICK ok \in BOOLEAN :
          IF ok THEN /\ resp' = [resp EXCEPT ![ci + 1] = "secret"]
                     /\ live' = live \cup {ci + 1}
                     /\ ci' = ci + 1
                     /\ UNCHANGED <<pc, arrLive, convRet, residue>>
                ELSE FreeResponses(ci, "PAM_BUF_ERR") /\ UNCHANGED ci
    BY <1>3 DEF ConvMessage, sty, Prompts, Infos
  <2>2. CASE ok
    <3>1. /\ resp' = [resp EXCEPT ![ci + 1] = "secret"]
          /\ live' = live \cup {ci + 1}
          /\ ci' = ci + 1
          /\ UNCHANGED <<pc, arrLive, convRet, residue>>
      BY <2>1, <2>2
    <3>2. resp \in [1..Len(msgs) -> Slots] /\ live \subseteq 1..ci
          /\ \A k \in 1..ci : resp[k] = ExpectedResponses(msgs)[k]
      BY <1>0 DEF LoopInv
    <3>3. resp' \in [1..Len(msgs) -> Slots]
      BY <1>1, <3>1, <3>2 DEF Slots
    <3>4. \A k \in 1..ci' : resp'[k] = ExpectedResponses(msgs)[k]
      <4> SUFFICES ASSUME NEW k \in 1..ci' PROVE resp'[k] = ExpectedResponses(msgs)[k]
        OBVIOUS
      <4>1. k \in 1..Len(msgs)
        BY <1>1, <3>1
      <4>2. CASE k = ci + 1
        BY <1>3, <3>1, <3>2, <4>1, <4>2 DEF ExpectedResponses, sty
      <4>3. CASE k # ci + 1
        BY <1>1, <3>1, <3>2, <4>1, <4>3
      <4>4. QED
        BY <4>2, <4>3
    <3>5. ci' \in 0..Len(msgs) /\ live' \subseteq 1..ci' /\ live' \subseteq 1..Len(msgs)
      BY <1>1, <3>1, <3>2
    <3>6. TypeOK'
      BY <1>0, <3>1, <3>3, <3>5 DEF TypeOK
    <3>7. LoopInv'
      BY <1>0, <1>1, <3>1, <3>3, <3>4, <3>5 DEF LoopInv
    <3>8. QED
      BY <1>0, <3>1, <3>6, <3>7 DEF TtyInv, HeapInv, ConvRetInv, RespNullInv, CallInv
  <2>3. CASE ~ok
    BY <1>0, <2>1, <2>3, FreeResponsesStep
  <2>4. QED
    BY <2>2, <2>3
<1>4. CASE sty \in Infos
  <2>1. /\ resp' = [resp EXCEPT ![ci + 1] = "null"]
        /\ ci' = ci + 1
        /\ UNCHANGED <<pc, live, arrLive, convRet, residue>>
    BY <1>4 DEF ConvMessage, sty, Prompts, Infos
  <2>2. resp \in [1..Len(msgs) -> Slots] /\ live \subseteq 1..ci
        /\ \A k \in 1..ci : resp[k] = ExpectedResponses(msgs)[k]
    BY <1>0 DEF LoopInv
  <2>3. resp' \in [1..Len(msgs) -> Slots]
    BY <1>1, <2>1, <2>2 DEF Slots
  <2>4. \A k \in 1..ci' : resp'[k] = ExpectedResponses(msgs)[k]
    <3> SUFFICES ASSUME NEW k \in 1..ci' PROVE resp'[k] = ExpectedResponses(msgs)[k]
      OBVIOUS
    <3>1. k \in 1..Len(msgs)
      BY <1>1, <2>1
    <3>2. CASE k = ci + 1
      BY <1>4, <2>1, <2>2, <3>1, <3>2 DEF ExpectedResponses, sty, Prompts, Infos
    <3>3. CASE k # ci + 1
      BY <1>1, <2>1, <2>2, <3>1, <3>3
    <3>4. QED
      BY <3>2, <3>3
  <2>5. ci' \in 0..Len(msgs) /\ live' \subseteq 1..ci' /\ live' \subseteq 1..Len(msgs)
    BY <1>1, <2>1, <2>2
  <2>6. TypeOK'
    BY <1>0, <2>1, <2>3, <2>5 DEF TypeOK
  <2>7. LoopInv'
    BY <1>0, <1>1, <2>1, <2>3, <2>4, <2>5 DEF LoopInv
  <2>8. QED
    BY <1>0, <2>1, <2>6, <2>7 DEF TtyInv, HeapInv, ConvRetInv, RespNullInv, CallInv
<1>5. CASE sty \notin Prompts \cup Infos
  <2>1. FreeResponses(ci, "PAM_CONV_ERR") /\ UNCHANGED ci
    BY <1>5 DEF ConvMessage, sty
  <2>2. QED
    BY <1>0, <2>1, FreeResponsesStep
<1>6. QED
  BY <1>3, <1>4, <1>5

\* A state that is not locked out at time t stays so a second later, and
\* the lockout check makes the same of it: an expired deadline stays
\* expired.
LEMMA NotLockedOutLater ==
    ASSUME NEW s \in AuthStates, NEW t \in Nat, ~IsLockedOut(s, t)
    PROVE  /\ ~IsLockedOut(s, t + 1)
           /\ AfterLockoutCheck(s, t + 1) = AfterLockoutCheck(s, t)
BY DEF IsLockedOut, AfterLockoutCheck, AuthStates

\* auth_is_locked_out and auth_reset_attempts between calls.
LEMMA IdleCallStep ==
    ASSUME IInv, CheckLockedOut \/ Reset
    PROVE  IInv'
<1> USE DEF IInv, ConvErrors
<1>1. st \in AuthStates /\ now \in Nat /\ pc = "idle"
  BY DEF TypeOK, CheckLockedOut, Reset
<1>2. st' \in AuthStates
  BY <1>1, AfterLockoutCheckType, ResetAttemptsType DEF CheckLockedOut, Reset
<1>3. lastCall' \in Calls
  <2>1. CASE CheckLockedOut
    <3>1. lastCall' = [op |-> "is_locked_out", user |-> NoUser, called |-> FALSE,
                       rc |-> "none"]
      BY <2>1 DEF CheckLockedOut
    <3>2. QED
      BY <3>1, Zenon DEF Calls, Names
  <2>2. CASE Reset
    <3>1. lastCall' = [op |-> "reset", user |-> NoUser, called |-> FALSE, rc |-> "none"]
      BY <2>2 DEF Reset
    <3>2. QED
      BY <3>1, Zenon DEF Calls, Names
  <2>3. QED
    BY <2>1, <2>2
<1>4. TypeOK'
  BY <1>2, <1>3 DEF CheckLockedOut, Reset, TypeOK, convVars
<1>5. QED
  BY <1>1, <1>4 DEF CheckLockedOut, Reset, convVars, TtyInv, HeapInv, ConvRetInv,
                    RespNullInv, LoopInv, CallInv

\* The clock: a second passes at any point, a correction only between calls.
LEMMA ClockStep ==
    ASSUME IInv, Tick \/ ClockStepBack
    PROVE  IInv'
<1> USE DEF IInv, ConvErrors
<1>0. now \in 1..MaxTime /\ MaxTime \in Nat
  BY MaxTimeAssumption DEF TypeOK
<1>1. CASE Tick
  <2>0. now < MaxTime /\ now' = now + 1
    BY <1>1 DEF Tick
  <2>1. now' = now + 1 /\ now' \in 1..MaxTime
    BY <1>0, <2>0
  <2>2. TypeOK'
    BY <1>1, <2>1 DEF Tick, TypeOK, convVars
  <2>3. CallInv'
    <3> SUFFICES ASSUME pc' # "idle" PROVE CallInv'
      BY <1>1 DEF Tick, CallInv
    <3>1. ~IsLockedOut(st0, now) /\ st = TrackUser(AfterLockoutCheck(st0, now), user)
      BY <1>1 DEF Tick, CallInv
    <3>2. st0 \in AuthStates /\ now \in Nat
      BY DEF TypeOK
    <3>3. QED
      BY <1>1, <2>1, <3>1, <3>2, NotLockedOutLater DEF Tick, CallInv
  <2>4. QED
    BY <1>1, <2>2, <2>3 DEF Tick, convVars, TtyInv, HeapInv, ConvRetInv,
                           RespNullInv, LoopInv
<1>2. CASE ClockStepBack
  <2>0. PICK d \in 1..MaxClockStepBack : now - d >= 1 /\ now' = now - d
    BY <1>2 DEF ClockStepBack
  <2>1. now' \in 1..MaxTime /\ pc = "idle"
    BY <1>0, <1>2, <2>0, MaxClockStepBackAssumption DEF ClockStepBack
  <2>2. TypeOK'
    BY <1>2, <2>1 DEF ClockStepBack, TypeOK, convVars
  <2>3. QED
    BY <1>2, <2>1, <2>2 DEF ClockStepBack, convVars, TtyInv, HeapInv, ConvRetInv,
                           RespNullInv, LoopInv, CallInv
<1>3. QED
  BY <1>1, <1>2

LEMMA IInvStep == IInv /\ [Next]_vars => IInv'
<1> SUFFICES ASSUME IInv, [Next]_vars PROVE IInv'
  OBVIOUS
<1>1. CASE \E u \in Names : Begin(u)
  BY <1>1, BeginStep
<1>2. CASE UNCHANGED vars
  BY <1>2 DEF vars, IInv, TypeOK, TtyInv, HeapInv, ConvRetInv, RespNullInv,
              LoopInv, CallInv, ConvErrors
<1>3. QED
  BY <1>1, <1>2, TtyLockStep, PamStartStep, PamConverseStep, PamAuthFailStep,
     PamAcctStep, ConvEnterStep, ConvMessageStep, ConvDoneStep, IdleCallStep,
     ClockStep DEF Next

\* The inductive invariant holds in every reachable state.
THEOREM AuthCallInvariant == Spec => []IInv
BY InitIInv, IInvStep, PTL DEF Spec

\* The type invariant of auth_authenticate's steps.
THEOREM AuthCallTypeCorrect == Spec => []TypeOK
BY AuthCallInvariant, PTL DEF IInv

\* Every return of auth_authenticate (the lockout rejection, the pam_start
\* failure, and the returns after pam_authenticate and pam_acct_mgmt) leaves
\* VT switching unlocked and the tty descriptor closed.
THEOREM VtUnlockedBetweenCallsHolds == Spec => []VtUnlockedBetweenCalls
<1>1. IInv => VtUnlockedBetweenCalls
  BY DEF IInv, TtyInv, VtUnlockedBetweenCalls
<1>2. QED
  BY <1>1, AuthCallInvariant, PTL

\* pam_conversation, once its loop has answered every message, hands back
\* the secret for exactly the prompts and NULL for the informational ones.
THEOREM ConversationAnswersHolds == Spec => []ConversationAnswers
<1>1. IInv => ConversationAnswers
  <2> SUFFICES ASSUME IInv, pc = "conv_loop", ci = Len(msgs)
               PROVE  resp = ExpectedResponses(msgs)
    BY DEF ConversationAnswers
  <2>1. resp \in [1..Len(msgs) -> Slots]
        /\ \A k \in 1..Len(msgs) : resp[k] = ExpectedResponses(msgs)[k]
    BY DEF IInv, LoopInv
  <2>2. QED
    BY <2>1 DEF ExpectedResponses
<1>2. QED
  BY <1>1, AuthCallInvariant, PTL

\* Both error exits of pam_conversation (the message count check and the
\* failed calloc, and the failed strdup or unknown style inside the loop)
\* leave nothing allocated behind and *resp NULL.
THEOREM ConversationCleansUpHolds == Spec => []ConversationCleansUp
<1>1. IInv => ConversationCleansUp
  BY DEF IInv, HeapInv, RespNullInv, ConvErrors, ConversationCleansUp
<1>2. QED
  BY <1>1, AuthCallInvariant, PTL

-----------------------------------------------------------------------------
(* Refinement of the atomic Authenticator *)

\* auth_authenticate on a state that is not locked out: the provider's
\* verdict decides the result, applied to the switched identity's state.
LEMMA AuthenticateUnlocked ==
    ASSUME NEW s, NEW u, NEW t, ~IsLockedOut(s, t)
    PROVE  LET s1 == TrackUser(AfterLockoutCheck(s, t), u)
           IN  /\ AuthAuthenticate(s, u, t, "start_fail")
                    = [rc |-> "KIA_ERROR_PAM", st |-> s1, called |-> FALSE]
               /\ AuthAuthenticate(s, u, t, "auth_fail")
                    = [rc |-> "KIA_ERROR_AUTH", st |-> RecordFailure(s1, t), called |-> TRUE]
               /\ AuthAuthenticate(s, u, t, "acct_fail")
                    = [rc |-> "KIA_ERROR_AUTH", st |-> RecordFailure(s1, t), called |-> TRUE]
               /\ AuthAuthenticate(s, u, t, "ok")
                    = [rc |-> "KIA_SUCCESS", st |-> ResetAttempts(s1), called |-> TRUE]
BY DEF AuthAuthenticate

\* Module Auth's operators are those of AuthOps.
LEMMA AtomicOps ==
    ASSUME NEW s, NEW u, NEW t, NEW pam
    PROVE  Atomic!AuthAuthenticate(s, u, t, pam) = AuthAuthenticate(s, u, t, pam)
BY DEF Atomic!AuthAuthenticate, AuthAuthenticate, Atomic!IsLockedOut, IsLockedOut,
       Atomic!TrackUser, TrackUser, Atomic!AfterLockoutCheck, AfterLockoutCheck,
       Atomic!ResetAttempts, ResetAttempts, Atomic!RecordFailure, RecordFailure

\* A return of auth_authenticate from inside the call is the atomic call
\* with the provider's verdict pam, when it leaves the state and the call
\* record that verdict produces from the state the call began with.
LEMMA ReturnRefines ==
    ASSUME IInv, pc # "idle", pc' = "idle", UNCHANGED <<now, user>>,
           NEW pam \in PamOutcomes,
           st' = AuthAuthenticate(st0, user, now, pam).st,
           lastCall' = [op |-> "authenticate", user |-> user,
                        called |-> AuthAuthenticate(st0, user, now, pam).called,
                        rc |-> AuthAuthenticate(st0, user, now, pam).rc]
    PROVE  Atomic!Next
<1>1. user \in Names
  BY DEF IInv, TypeOK
<1>2. Atomic!Authenticate(user, pam)
  BY AtomicOps DEF Atomic!Authenticate, AuthBar
<1>3. QED
  BY <1>1, <1>2 DEF Atomic!Next, Atomic!Names, Names, Atomic!PamOutcomes, PamOutcomes

\* A step inside the call that neither returns nor moves the clock leaves
\* the state the caller sees, the call record and the clock alone.
LEMMA InnerStutter ==
    ASSUME pc # "idle", pc' # "idle", UNCHANGED <<st0, now, lastCall>>
    PROVE  UNCHANGED Atomic!vars
BY DEF Atomic!vars, AuthBar

\* Every step of auth_authenticate, of the other entry points and of the
\* clock is a step of the atomic Authenticator or leaves what it sees alone.
LEMMA RefineStep == IInv /\ [Next]_vars => [Atomic!Next]_Atomic!vars
<1> SUFFICES ASSUME IInv, [Next]_vars PROVE [Atomic!Next]_Atomic!vars
  OBVIOUS
<1>0. st0 \in AuthStates /\ st \in AuthStates /\ now \in Nat /\ user \in Names
  BY DEF IInv, TypeOK
<1> DEFINE s1 == TrackUser(AfterLockoutCheck(st0, now), user)
<1>1. pc # "idle" => ~IsLockedOut(st0, now) /\ st = s1
  BY DEF IInv, CallInv, s1
<1>2. CASE \E u \in Names : Begin(u)
  <2>1. PICK u \in Names : Begin(u)
    BY <1>2
  <2>2. CASE IsLockedOut(st, now)
    <3>1. pc = "idle" /\ pc' = "idle" /\ UNCHANGED <<st, now>>
          /\ lastCall' = [op |-> "authenticate", user |-> u, called |-> FALSE,
                          rc |-> "KIA_ERROR_AUTH"]
      BY <2>1, <2>2 DEF Begin
    <3>2. AuthAuthenticate(st, u, now, "ok")
            = [rc |-> "KIA_ERROR_AUTH", st |-> st, called |-> FALSE]
      BY <2>2 DEF AuthAuthenticate
    <3>3. Atomic!AuthAuthenticate(st, u, now, "ok")
            = [rc |-> "KIA_ERROR_AUTH", st |-> st, called |-> FALSE]
      BY <3>2, AtomicOps
    <3>4. AuthBar = st /\ AuthBar' = st
      BY <3>1 DEF AuthBar
    <3>5. Atomic!AuthAuthenticate(AuthBar, u, now, "ok")
            = [rc |-> "KIA_ERROR_AUTH", st |-> st, called |-> FALSE]
      BY <3>3, <3>4
    <3>9. AuthBar' = Atomic!AuthAuthenticate(AuthBar, u, now, "ok").st
      BY <3>4, <3>5
    <3>10. lastCall' = [op |-> "authenticate", user |-> u,
                        called |-> Atomic!AuthAuthenticate(AuthBar, u, now, "ok").called,
                        rc |-> Atomic!AuthAuthenticate(AuthBar, u, now, "ok").rc]
      <4>1. Atomic!AuthAuthenticate(AuthBar, u, now, "ok").called = FALSE
        BY <3>5
      <4>2. Atomic!AuthAuthenticate(AuthBar, u, now, "ok").rc = "KIA_ERROR_AUTH"
        BY <3>5
      <4>3. QED
        BY <3>1, <4>1, <4>2, Zenon
    <3>8. /\ AuthBar' = Atomic!AuthAuthenticate(AuthBar, u, now, "ok").st
          /\ lastCall' = [op |-> "authenticate", user |-> u,
                          called |-> Atomic!AuthAuthenticate(AuthBar, u, now, "ok").called,
                          rc |-> Atomic!AuthAuthenticate(AuthBar, u, now, "ok").rc]
          /\ now' = now
      BY <3>1, <3>9, <3>10
    <3>7. Atomic!Authenticate(u, "ok")
      BY <3>8 DEF Atomic!Authenticate
    <3>6. QED
      BY <2>1, <3>7 DEF Atomic!Next, Atomic!Names, Names, Atomic!PamOutcomes, PamOutcomes
  <2>3. CASE ~IsLockedOut(st, now)
    <3>1. pc = "idle" /\ pc' = "lock" /\ st0' = st /\ UNCHANGED <<now, lastCall>>
      BY <2>1, <2>3 DEF Begin
    <3>2. QED
      BY <3>1 DEF Atomic!vars, AuthBar
  <2>4. QED
    BY <2>2, <2>3
<1>3. CASE TtyLock \/ PamConverse \/ ConvEnter \/ ConvMessage \/ ConvDone
  <2>1. pc # "idle" /\ pc' # "idle" /\ UNCHANGED <<st0, now, lastCall>>
    BY <1>3 DEF TtyLock, PamConverse, ConvEnter, ConvMessage, ConvDone,
                FreeResponses, Prompts, Infos
  <2>2. QED
    BY <2>1, InnerStutter
<1>4. CASE PamStart
  <2>1. PICK ok \in BOOLEAN :
          IF ok THEN pc' = "auth" /\ convs' = 0 /\ UNCHANGED <<ttyFd, vtLocked, lastCall>>
                ELSE TtyUnlock /\ Return("KIA_ERROR_PAM", FALSE) /\ UNCHANGED convs
    BY <1>4 DEF PamStart
  <2>2. pc = "start" /\ UNCHANGED <<user, st, st0, now>>
    BY <1>4 DEF PamStart
  <2>3. CASE ok
    BY <2>1, <2>2, <2>3, InnerStutter
  <2>4. CASE ~ok
    <3>1. pc' = "idle" /\ lastCall' = [op |-> "authenticate", user |-> user,
                                       called |-> FALSE, rc |-> "KIA_ERROR_PAM"]
      BY <2>1, <2>4 DEF Return
    <3>2. AuthAuthenticate(st0, user, now, "start_fail")
            = [rc |-> "KIA_ERROR_PAM", st |-> s1, called |-> FALSE]
      BY <1>1, <2>2, AuthenticateUnlocked DEF s1
    <3>3. st' = AuthAuthenticate(st0, user, now, "start_fail").st
      BY <1>1, <2>2, <3>2
    <3>4. AuthAuthenticate(st0, user, now, "start_fail").called = FALSE
          /\ AuthAuthenticate(st0, user, now, "start_fail").rc = "KIA_ERROR_PAM"
      BY <3>2
    <3>5. lastCall' = [op |-> "authenticate", user |-> user,
                       called |-> AuthAuthenticate(st0, user, now, "start_fail").called,
                       rc |-> AuthAuthenticate(st0, user, now, "start_fail").rc]
      BY <3>1, <3>4
    <3>6. QED
      BY <2>2, <3>1, <3>3, <3>5, ReturnRefines DEF PamOutcomes
  <2>5. QED
    BY <2>3, <2>4
<1>5. CASE PamAuthFail
  <2>1. /\ pc = "auth" /\ pc' = "idle" /\ UNCHANGED <<user, st0, now>>
        /\ st' = RecordFailure(st, now)
        /\ lastCall' = [op |-> "authenticate", user |-> user, called |-> TRUE,
                        rc |-> "KIA_ERROR_AUTH"]
    BY <1>5 DEF PamAuthFail, Return
  <2>2. AuthAuthenticate(st0, user, now, "auth_fail")
          = [rc |-> "KIA_ERROR_AUTH", st |-> RecordFailure(s1, now), called |-> TRUE]
    BY <1>1, <2>1, AuthenticateUnlocked DEF s1
  <2>3. st' = AuthAuthenticate(st0, user, now, "auth_fail").st
    BY <1>1, <2>1, <2>2
  <2>4. AuthAuthenticate(st0, user, now, "auth_fail").called = TRUE
        /\ AuthAuthenticate(st0, user, now, "auth_fail").rc = "KIA_ERROR_AUTH"
    BY <2>2
  <2>5. lastCall' = [op |-> "authenticate", user |-> user,
                     called |-> AuthAuthenticate(st0, user, now, "auth_fail").called,
                     rc |-> AuthAuthenticate(st0, user, now, "auth_fail").rc]
    BY <2>1, <2>4
  <2>6. QED
    BY <2>1, <2>3, <2>5, ReturnRefines DEF PamOutcomes
<1>6. CASE PamAcct
  <2>1. PICK ok \in BOOLEAN :
          IF ok THEN st' = ResetAttempts(st) /\ Return("KIA_SUCCESS", TRUE)
                ELSE st' = RecordFailure(st, now) /\ Return("KIA_ERROR_AUTH", TRUE)
    BY <1>6 DEF PamAcct
  <2>2. pc = "auth" /\ UNCHANGED <<user, st0, now>>
    BY <1>6 DEF PamAcct
  <2>3. CASE ok
    <3>1. /\ pc' = "idle" /\ st' = ResetAttempts(st)
          /\ lastCall' = [op |-> "authenticate", user |-> user, called |-> TRUE,
                          rc |-> "KIA_SUCCESS"]
      BY <2>1, <2>3 DEF Return
    <3>2. AuthAuthenticate(st0, user, now, "ok")
            = [rc |-> "KIA_SUCCESS", st |-> ResetAttempts(s1), called |-> TRUE]
      BY <1>1, <2>2, AuthenticateUnlocked DEF s1
    <3>3. st' = AuthAuthenticate(st0, user, now, "ok").st
      BY <1>1, <2>2, <3>1, <3>2
    <3>4. AuthAuthenticate(st0, user, now, "ok").called = TRUE /\ AuthAuthenticate(st0, user, now, "ok").rc = "KIA_SUCCESS"
      BY <3>2
    <3>5. lastCall' = [op |-> "authenticate", user |-> user,
                       called |-> AuthAuthenticate(st0, user, now, "ok").called,
                       rc |-> AuthAuthenticate(st0, user, now, "ok").rc]
      BY <3>1, <3>4
    <3>6. QED
      BY <2>2, <3>1, <3>3, <3>5, ReturnRefines DEF PamOutcomes
  <2>4. CASE ~ok
    <3>1. /\ pc' = "idle" /\ st' = RecordFailure(st, now)
          /\ lastCall' = [op |-> "authenticate", user |-> user, called |-> TRUE,
                          rc |-> "KIA_ERROR_AUTH"]
      BY <2>1, <2>4 DEF Return
    <3>2. AuthAuthenticate(st0, user, now, "acct_fail")
            = [rc |-> "KIA_ERROR_AUTH", st |-> RecordFailure(s1, now), called |-> TRUE]
      BY <1>1, <2>2, AuthenticateUnlocked DEF s1
    <3>3. st' = AuthAuthenticate(st0, user, now, "acct_fail").st
      BY <1>1, <2>2, <3>1, <3>2
    <3>4. AuthAuthenticate(st0, user, now, "acct_fail").called = TRUE /\ AuthAuthenticate(st0, user, now, "acct_fail").rc = "KIA_ERROR_AUTH"
      BY <3>2
    <3>5. lastCall' = [op |-> "authenticate", user |-> user,
                       called |-> AuthAuthenticate(st0, user, now, "acct_fail").called,
                       rc |-> AuthAuthenticate(st0, user, now, "acct_fail").rc]
      BY <3>1, <3>4
    <3>6. QED
      BY <2>2, <3>1, <3>3, <3>5, ReturnRefines DEF PamOutcomes
  <2>5. QED
    BY <2>3, <2>4
<1>7. CASE CheckLockedOut
  <2>1. Atomic!CheckLockedOut
    BY <1>7 DEF CheckLockedOut, Atomic!CheckLockedOut, AuthBar,
                Atomic!AfterLockoutCheck, AfterLockoutCheck, Atomic!ResetAttempts,
                ResetAttempts
  <2>2. QED
    BY <2>1 DEF Atomic!Next
<1>8. CASE Reset
  <2>1. Atomic!Reset
    BY <1>8 DEF Reset, Atomic!Reset, AuthBar, Atomic!ResetAttempts, ResetAttempts
  <2>2. QED
    BY <2>1 DEF Atomic!Next
<1>9. CASE Tick
  <2>1. Atomic!Tick
    BY <1>9 DEF Tick, Atomic!Tick, AuthBar
  <2>2. QED
    BY <2>1 DEF Atomic!Next
<1>10. CASE ClockStepBack
  <2>1. Atomic!ClockStepBack
    BY <1>10 DEF ClockStepBack, Atomic!ClockStepBack, AuthBar
  <2>2. QED
    BY <2>1 DEF Atomic!Next
<1>11. CASE UNCHANGED vars
  BY <1>11 DEF vars, Atomic!vars, AuthBar
<1>12. QED
  BY <1>2, <1>3, <1>4, <1>5, <1>6, <1>7, <1>8, <1>9, <1>10, <1>11 DEF Next

\* auth_authenticate taken step by step, with conversations, time passing
\* inside the call and the other entry points between calls, implements the
\* atomic Authenticator of module Auth under the mapping AuthBar: the caller
\* sees the state a call began with until it returns, and then the state
\* and the call record that one atomic call with the provider's verdict
\* produces.
THEOREM ImplementsAuthHolds == Spec => ImplementsAuth
<1>1. Init => Atomic!Init
  BY DEF Init, Atomic!Init, AuthBar, Atomic!InitAuthState, InitAuthState,
         Atomic!NoCall, NoCall
<1>2. QED
  BY <1>1, RefineStep, AuthCallInvariant, PTL DEF Spec, ImplementsAuth, Atomic!Spec
=============================================================================
