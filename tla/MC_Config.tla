------------------------------ MODULE MC_Config ------------------------------
(* The configuration files TLC enumerates: up to three lines drawn from   *)
(* the line classes below, with numerals at both ends of each range, past *)
(* them, and past 2^32 (4294967298 for max_attempts, 4294967306 for the   *)
(* duration, both of which narrow into range).                            *)
EXTENDS Config, TLC

KV(k, v) == [kind |-> "kv", key |-> k, value |-> v]
Other(kind) == [kind |-> kind, key |-> "unknown", value |-> Text("")]

MCLines ==
    { Other("skip"), Other("noeq"), Other("emptykey"), Other("truncated"),
      KV("max_attempts", Numeral(0, 5)), KV("max_attempts", Numeral(0, 11)),
      KV("max_attempts", Numeral(1, 2)), KV("max_attempts", Text("huge")),
      KV("max_attempts", Text("")),
      KV("lockout_duration", Numeral(0, 3601)), KV("lockout_duration", Numeral(0, 30)),
      KV("lockout_duration", Numeral(0, -1)), KV("lockout_duration", Numeral(1, 10)),
      KV("autologin_user", Text("alice")), KV("autologin_user", Text("long")),
      KV("autologin_enabled", Numeral(0, 1)), KV("autologin_enabled", Text("yes")),
      KV("default_session", Text("long")), KV("enable_logs", Text("word")),
      KV("unknown", Text("word")) }
=============================================================================
