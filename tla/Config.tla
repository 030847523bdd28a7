------------------------------- MODULE Config -------------------------------
(***************************************************************************)
(* The Config Provider (src/src/config.c): config_load reads the file one *)
(* line per fgets call, parses each line into the kia_config_t it started *)
(* from the defaults, and validates the result at the end.  A line is     *)
(* abstracted to its syntactic class and, for key = value lines, to the   *)
(* key and a value token; a numeral is kept as its value split into       *)
(* high * 2^32 + low, so that atoi's narrowing to a 32-bit int is modelled *)
(* by what it does.                                                       *)
(***************************************************************************)
EXTENDS Integers, Sequences

CONSTANTS
    Lines,      \* the lines a configuration file may contain
    MaxLines    \* bound on the length of the file

ASSUME MaxLinesAssumption == MaxLines \in Nat

VARIABLES
    file,       \* the file's lines, or <<>> for a file that fopen cannot open
    exists,     \* fopen(path, "r") succeeds
    pos,        \* line_num: the lines read so far
    config,     \* the kia_config_t being filled in
    hasError,   \* has_error
    phase,      \* "open", "reading" (the fgets loop), "done"
    rc          \* config_load's return value, once done

vars == <<file, exists, pos, config, hasError, phase, rc>>

\* The value part of a key = value line after trim_whitespace: a text token
\* or a decimal numeral, possibly with trailing garbage ("5abc" reads as 5).
\* "huge" is a numeral whose value is beyond the range of long.
Forms == {"", "xfce", "alice", "long", "word", "yes", "num", "huge"}
Values == [form : Forms, high : Int, low : Int]
Text(f) == [form |-> f, high |-> 0, low |-> 0]
Numeral(h, l) == [form |-> "num", high |-> h, low |-> l]

\* The keys parse_config_line knows, and one it silently ignores.
Keys == {"autologin_enabled", "autologin_user", "default_session",
         "max_attempts", "enable_logs", "lockout_duration", "unknown"}

\* A line after the newline is cut and the line trimmed: empty or a
\* comment, without '=', with an empty key, longer than the 1024-byte
\* buffer and not the last line, or key = value.
LineKinds == {"skip", "noeq", "emptykey", "truncated", "kv"}

\* The line records: a class, a key and a value.
LineRecs == [kind : LineKinds, key : Keys, value : Values]

ASSUME LinesAssumption == Lines \subseteq LineRecs

\* config_set_defaults.
Defaults == [autologin_enabled |-> FALSE, autologin_user |-> Text(""),
             default_session |-> Text("xfce"), max_attempts |-> 3,
             enable_logs |-> TRUE, lockout_duration |-> 60]

\* atoi(value) = (int)strtol(value, NULL, 10): strtol saturates at LONG_MAX
\* and the conversion to int keeps the low 32 bits; a value with no leading
\* numeral reads as 0.
AtoI(v) ==
    IF v.form = "num" THEN v.low
    ELSE IF v.form = "huge" THEN -1
    ELSE 0

\* parse_bool: "true", "1", "yes" or "on".
ParseBool(v) == v.form = "yes" \/ (v.form = "num" /\ v.high = 0 /\ v.low = 1)

\* A string field whose value does not fit its 256-byte buffer is rejected.
FitsBuffer(v) == v.form # "long"

\* The range checks of parse_config_line on max_attempts and
\* lockout_duration.
AttemptsInRange(n) == n >= 1 /\ n <= 10

\* Mutant: the upper bound on lockout_duration is not checked.
DurationInRangeNoCap(n) == n >= 0

\* The cap on lockout_duration ("Max 1 hour").
MaxLockoutDuration == 3600

DurationInRange(n) == n >= 0 /\ n <= MaxLockoutDuration

\* parse_config_line(line, config): whether the line is accepted, and the
\* configuration after it.
ParseConfigLine(l, cfg) ==
    LET ok(c) == [ok |-> TRUE, cfg |-> c]
        bad   == [ok |-> FALSE, cfg |-> cfg]
        v     == l.value
    IN  IF l.kind = "skip" THEN ok(cfg)
        ELSE IF l.kind \in {"noeq", "emptykey"} THEN bad
        ELSE IF l.key = "autologin_enabled" THEN
             ok([cfg EXCEPT !.autologin_enabled = ParseBool(v)])
        ELSE IF l.key = "autologin_user" THEN
             IF FitsBuffer(v) THEN ok([cfg EXCEPT !.autologin_user = v]) ELSE bad
        ELSE IF l.key = "default_session" THEN
             IF FitsBuffer(v) THEN ok([cfg EXCEPT !.default_session = v]) ELSE bad
        ELSE IF l.key = "max_attempts" THEN
             IF v.form = "" \/ ~AttemptsInRange(AtoI(v)) THEN bad
             ELSE ok([cfg EXCEPT !.max_attempts = AtoI(v)])
        ELSE IF l.key = "enable_logs" THEN
             ok([cfg EXCEPT !.enable_logs = ParseBool(v)])
        ELSE IF l.key = "lockout_duration" THEN
             IF v.form = "" \/ ~DurationInRange(AtoI(v)) THEN bad
             ELSE ok([cfg EXCEPT !.lockout_duration = AtoI(v)])
        ELSE ok(cfg)

\* config_validate: max_attempts in [1,10] and lockout_duration >= 0.
ConfigValid(cfg) ==
    /\ cfg.max_attempts >= 1 /\ cfg.max_attempts <= 10
    /\ cfg.lockout_duration >= 0

-----------------------------------------------------------------------------

\* The files config_load may be given: at most MaxLines lines.
Files == UNION {[1..n -> Lines] : n \in 0..MaxLines}

\* The values of a C int.
IntMax == 2147483647
IntMin == -2147483647 - 1
Int32 == IntMin..IntMax

TypeOK ==
    /\ file \in Files
    /\ exists \in BOOLEAN
    /\ pos \in 0..Len(file)
    /\ config.max_attempts \in Int32
    /\ config.lockout_duration \in Int32
    /\ hasError \in BOOLEAN
    /\ phase \in {"open", "reading", "done"}
    /\ rc \in {"none", "KIA_SUCCESS", "KIA_ERROR_CONFIG"}

\* The file holds any short sequence of lines, or cannot be opened.
Init ==
    /\ exists \in BOOLEAN
    /\ file \in IF exists THEN Files ELSE {<<>>}
    /\ pos = 0
    /\ config = Defaults
    /\ hasError = FALSE
    /\ phase = "open"
    /\ rc = "none"

\* config_load up to the loop: the defaults, then fopen; a missing file
\* leaves the defaults and succeeds.
Open ==
    /\ phase = "open"
    /\ config' = Defaults
    /\ IF exists THEN phase' = "reading" /\ UNCHANGED rc
                 ELSE phase' = "done" /\ rc' = "KIA_SUCCESS"
    /\ UNCHANGED <<file, exists, pos, hasError>>

\* Mutant: skipping the rest of a truncated line also swallows the next one.
ReadLineSkipTwo ==
    /\ phase = "reading"
    /\ pos < Len(file)
    /\ LET l == file[pos + 1]
           r == ParseConfigLine(l, config)
       IN  IF l.kind = "truncated"
           THEN pos' = pos + 2 /\ hasError' = TRUE /\ UNCHANGED config
           ELSE pos' = pos + 1 /\ config' = r.cfg /\ hasError' = (hasError \/ ~r.ok)
    /\ UNCHANGED <<file, exists, phase, rc>>

\* One iteration of the fgets loop: a truncated line is skipped and flagged,
\* any other line is parsed and a rejected one flagged.
ReadLine ==
    /\ phase = "reading"
    /\ pos < Len(file)
    /\ pos' = pos + 1
    /\ LET l == file[pos + 1]
           r == ParseConfigLine(l, config)
       IN  IF l.kind = "truncated"
           THEN hasError' = TRUE /\ UNCHANGED config
           ELSE config' = r.cfg /\ hasError' = (hasError \/ ~r.ok)
    /\ UNCHANGED <<file, exists, phase, rc>>

\* End of file: ferror may report a read error; an invalid result reverts
\* the whole configuration to the defaults.
Finish ==
    /\ phase = "reading"
    /\ pos = Len(file)
    /\ \E readError \in BOOLEAN :
          IF ConfigValid(config)
          THEN /\ rc' = IF hasError \/ readError THEN "KIA_ERROR_CONFIG"
                                                ELSE "KIA_SUCCESS"
               /\ UNCHANGED config
          ELSE rc' = "KIA_ERROR_CONFIG" /\ config' = Defaults
    /\ phase' = "done"
    /\ UNCHANGED <<file, exists, pos, hasError>>

Next == Open \/ ReadLine \/ Finish

Spec == Init /\ [][Next]_vars

-----------------------------------------------------------------------------
(* Properties *)

\* Whatever the file holds, the configuration config_load hands back keeps
\* max_attempts in [1,10] and lockout_duration in [0,3600] (the ranges the
\* lockout policy relies on): parse_config_line's range checks and
\* config_validate together keep out every other value, although
\* config_validate alone does not check the upper bound on the duration.
ConfigWithinRanges ==
    phase = "done" =>
        /\ config.max_attempts \in 1..10
        /\ config.lockout_duration \in 0..MaxLockoutDuration

\* The numeral a line wrote for a key denotes the value v.
Writes(l, key, n) ==
    l.kind = "kv" /\ l.key = key /\ l.value.form = "num"
                  /\ l.value.high = 0 /\ l.value.low = n

\* spec.md 2: "values outside range are never stored": a stored
\* max_attempts is the default or the value some line of the file wrote.
StoredValueWasWritten ==
    phase = "done" =>
        \/ config.max_attempts = Defaults.max_attempts
        \/ \E i \in 1..Len(file) : Writes(file[i], "max_attempts", config.max_attempts)
=============================================================================
