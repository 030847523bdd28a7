------------------------------ MODULE MC_AuthCall ------------------------------
(* Model-checking instance of AuthCall: two identities, a threshold of two *)
(* failures, PAM_MAX_NUM_MSG = 2 and conversations that exercise each      *)
(* branch of pam_conversation: no message, too many, a prompt alone, an    *)
(* informational message before a prompt, and a prompt before an unknown   *)
(* style.                                                                  *)
EXTENDS AuthCall, TLC

CONSTANTS u1, u2

MCUsers == {u1, u2}

MCConversations ==
    { <<>>,
      <<"echo_off">>,
      <<"text_info", "echo_on">>,
      <<"echo_off", "other">>,
      <<"echo_off", "echo_on", "error_msg">> }

UserSymmetry == Permutations(MCUsers)
=============================================================================
