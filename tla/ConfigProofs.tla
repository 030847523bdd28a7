----------------------------- MODULE ConfigProofs -----------------------------
(***************************************************************************)
(* Proofs about the Config Provider: for every configuration file of at   *)
(* most MaxLines lines, config_load's state is well typed and the         *)
(* configuration it hands back keeps max_attempts in [1,10] and           *)
(* lockout_duration in [0,3600].  The invariant that carries the proof is *)
(* stronger than the property: the configuration is in range after every *)
(* line, not only at the end, because parse_config_line stores a numeric *)
(* value only after its own range check and config_validate's fallback   *)
(* is the defaults.                                                       *)
(***************************************************************************)
EXTENDS Config, TLAPS

\* The fields of a kia_config_t.
ConfigFields == {"autologin_enabled", "autologin_user", "default_session",
                 "max_attempts", "enable_logs", "lockout_duration"}

\* A kia_config_t whose numeric fields are in range.
Safe(cf) == /\ DOMAIN cf = ConfigFields
            /\ cf.max_attempts \in 1..10
            /\ cf.lockout_duration \in 0..MaxLockoutDuration

RangeInv == Safe(config)

\* The defaults are in range.
LEMMA DefaultsSafe == Safe(Defaults)
BY DEF Defaults, Safe, ConfigFields, MaxLockoutDuration

\* parse_config_line never takes a configuration out of range: each
\* numeric field is stored only once its range check passed.
LEMMA ParseKeepsRanges ==
    ASSUME NEW l \in LineRecs, NEW cfg, Safe(cfg)
    PROVE  Safe(ParseConfigLine(l, cfg).cfg)
<1> DEFINE v == l.value
           r == ParseConfigLine(l, cfg).cfg
           other == l.kind \notin {"skip", "noeq", "emptykey"}
<1>0. PICK b \in BOOLEAN, n \in Int : b = ParseBool(v) /\ n = AtoI(v)
  <2>1. ParseBool(v) \in BOOLEAN
    BY Zenon DEF ParseBool
  <2>2. AtoI(v) \in Int
    BY DEF LineRecs, AtoI, Values
  <2>3. QED
    BY <2>1, <2>2, Zenon
<1>2. CASE ~other
  BY <1>2 DEF ParseConfigLine, r, other
<1>3. CASE other /\ l.key = "autologin_enabled"
  <2>1. r = [cfg EXCEPT !.autologin_enabled = b]
    BY <1>0, <1>3 DEF ParseConfigLine, r, other
  <2>2. Safe([cfg EXCEPT !.autologin_enabled = b])
    BY DEF Safe, ConfigFields
  <2>3. QED
    BY <2>1, <2>2 DEF r
<1>4. CASE other /\ l.key = "autologin_user"
  <2>1. r = cfg \/ r = [cfg EXCEPT !.autologin_user = v]
    BY <1>4 DEF ParseConfigLine, r, other
  <2>2. Safe([cfg EXCEPT !.autologin_user = v])
    BY DEF Safe, ConfigFields
  <2>3. QED
    BY <2>1, <2>2 DEF r
<1>5. CASE other /\ l.key = "default_session"
  <2>1. r = cfg \/ r = [cfg EXCEPT !.default_session = v]
    BY <1>5 DEF ParseConfigLine, r, other
  <2>2. Safe([cfg EXCEPT !.default_session = v])
    BY DEF Safe, ConfigFields
  <2>3. QED
    BY <2>1, <2>2 DEF r
<1>6. CASE other /\ l.key = "max_attempts"
  <2>1. r = cfg \/ (AttemptsInRange(n) /\ r = [cfg EXCEPT !.max_attempts = n])
    BY <1>0, <1>6 DEF ParseConfigLine, r, other
  <2>2. AttemptsInRange(n) => n \in 1..10
    BY DEF AttemptsInRange
  <2>3. AttemptsInRange(n) => Safe([cfg EXCEPT !.max_attempts = n])
    BY <2>2 DEF Safe, ConfigFields
  <2>4. QED
    BY <2>1, <2>3 DEF r
<1>7. CASE other /\ l.key = "enable_logs"
  <2>1. r = [cfg EXCEPT !.enable_logs = b]
    BY <1>0, <1>7 DEF ParseConfigLine, r, other
  <2>2. Safe([cfg EXCEPT !.enable_logs = b])
    BY DEF Safe, ConfigFields
  <2>3. QED
    BY <2>1, <2>2 DEF r
<1>8. CASE other /\ l.key = "lockout_duration"
  <2>1. r = cfg \/ (DurationInRange(n) /\ r = [cfg EXCEPT !.lockout_duration = n])
    BY <1>0, <1>8 DEF ParseConfigLine, r, other
  <2>2. DurationInRange(n) => n \in 0..MaxLockoutDuration
    BY DEF DurationInRange
  <2>3. DurationInRange(n) => Safe([cfg EXCEPT !.lockout_duration = n])
    BY <2>2 DEF Safe, ConfigFields
  <2>4. QED
    BY <2>1, <2>3 DEF r
<1>9. CASE other /\ l.key = "unknown"
  BY <1>9 DEF ParseConfigLine, r, other
<1>10. QED
  BY <1>2, <1>3, <1>4, <1>5, <1>6, <1>7, <1>8, <1>9 DEF LineRecs, Keys

\* A file is a sequence of lines.
LEMMA FilesAreSeqs == Files \subseteq Seq(Lines)
BY DEF Files

\* The ranges of the configuration fit a C int.
LEMMA RangesInt32 == 1..10 \subseteq Int32 /\ 0..MaxLockoutDuration \subseteq Int32
<1>1. /\ IntMin \in Int /\ IntMax \in Int /\ MaxLockoutDuration \in Int
      /\ IntMin <= 0 /\ 10 <= IntMax /\ MaxLockoutDuration <= IntMax
  BY SMT DEF IntMin, IntMax, MaxLockoutDuration
<1>2. QED
  BY <1>1 DEF Int32

\* config_load's state is well typed whatever the file holds, and the
\* configuration is in range after every step.
THEOREM ConfigTypeCorrect == Spec => [](TypeOK /\ RangeInv)
<1> DEFINE Inv == TypeOK /\ RangeInv
           Rest == /\ exists \in BOOLEAN /\ hasError \in BOOLEAN
                   /\ phase \in {"open", "reading", "done"}
                   /\ rc \in {"none", "KIA_SUCCESS", "KIA_ERROR_CONFIG"}
<1>0. ASSUME file' \in Files, pos' \in 0..Len(file'), Safe(config'), Rest'
      PROVE  Inv'
  <2>0. config'.max_attempts \in 1..10 /\ config'.lockout_duration \in 0..MaxLockoutDuration
    BY <1>0 DEF Safe
  <2>1a. config'.max_attempts \in Int32
    BY <2>0, RangesInt32
  <2>1b. config'.lockout_duration \in Int32
    BY <2>0, RangesInt32
  <2>1. config'.max_attempts \in Int32 /\ config'.lockout_duration \in Int32
    BY <2>1a, <2>1b
  <2>2. QED
    BY <1>0, <2>1 DEF TypeOK, RangeInv, Rest, Inv
<1>1. Init => Inv
  <2> SUFFICES ASSUME Init PROVE Inv
    OBVIOUS
  <2>1. file \in Files
    <3>1. <<>> \in Files
      BY MaxLinesAssumption DEF Files
    <3>2. QED
      BY <3>1 DEF Init
  <2>2. Safe(config)
    BY DefaultsSafe DEF Init
  <2>3. config.max_attempts \in 1..10 /\ config.lockout_duration \in 0..MaxLockoutDuration
    BY <2>2 DEF Safe
  <2>4a. config.max_attempts \in Int32
    BY <2>3, RangesInt32
  <2>4b. config.lockout_duration \in Int32
    BY <2>3, RangesInt32
  <2>4. config.max_attempts \in Int32 /\ config.lockout_duration \in Int32
    BY <2>4a, <2>4b
  <2>5. pos \in 0..Len(file)
    BY <2>1, FilesAreSeqs DEF Init
  <2>6. QED
    BY <2>1, <2>2, <2>4, <2>5 DEF Init, TypeOK, RangeInv, Inv
<1>2. Inv /\ [Next]_vars => Inv'
  <2> SUFFICES ASSUME Inv, [Next]_vars PROVE Inv'
    OBVIOUS
  <2>0. file \in Seq(Lines) /\ Safe(config)
    BY FilesAreSeqs DEF TypeOK, RangeInv
  <2>1. CASE Open
    BY <2>1, <1>0, DefaultsSafe DEF Open, TypeOK
  <2>2. CASE ReadLine
    <3>1. file[pos + 1] \in LineRecs
      BY <2>0, <2>2, LinesAssumption DEF ReadLine, TypeOK
    <3>2. Safe(config')
      BY <2>0, <2>2, <3>1, ParseKeepsRanges DEF ReadLine
    <3>3. pos' \in 0..Len(file')
      BY <2>0, <2>2 DEF ReadLine, TypeOK
    <3>4. QED
      BY <1>0, <2>2, <3>2, <3>3 DEF ReadLine, TypeOK
  <2>3. CASE Finish
    BY <2>0, <2>3, <1>0, DefaultsSafe DEF Finish, TypeOK
  <2>4. CASE UNCHANGED vars
    BY <2>4 DEF vars, TypeOK, RangeInv
  <2>5. QED
    BY <2>1, <2>2, <2>3, <2>4 DEF Next
<1>3. QED
  BY <1>1, <1>2, PTL DEF Spec

\* Whatever the configuration file holds, config_load returns max_attempts
\* in [1,10] and lockout_duration in [0,3600].
THEOREM ConfigWithinRangesHolds == Spec => []ConfigWithinRanges
<1>1. RangeInv => ConfigWithinRanges
  BY DEF RangeInv, Safe, ConfigWithinRanges
<1>2. QED
  BY <1>1, ConfigTypeCorrect, PTL
=============================================================================
