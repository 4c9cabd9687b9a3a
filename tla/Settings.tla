------------------------------ MODULE Settings ------------------------------
(***************************************************************************)
(* The settings of a process: flags and file are merged, the sections of   *)
(* the file are checked one after the other, and what a running process    *)
(* computes from them (restart backoff, health check intervals) in words   *)
(* of fixed width.                                                         *)
(*                                                                         *)
(* An invalid setting ends the process before it does anything.  A section *)
(* that is missing is one whose settings are all absent: the defaults pass *)
(* the checks of an empty section.                                         *)
(***************************************************************************)
EXTENDS Data, Integers

CONSTANTS
    Files,          \* config files: a word, Bad or Absent for every setting, a name or Absent for
                    \* every option
    Lines,          \* command lines: a value or Absent for every option
    Absent,         \* not set
    Bad,            \* a duration that does not parse
    Defaults,       \* the built-in settings and options
    Width,          \* bits of a signed word
    Second,         \* time units in a second
    MaxCount        \* bound: restarts and seconds tried out

VARIABLES command, file, line, options, vals, stage

svars == <<command, file, line, options, vals, stage>>

\* Strings that must not be empty and the CPU fraction are left out.
Positive == {"client_timeout", "long_op_timeout", "restart_backoff_base", "restart_backoff_max",
             "loop_interval", "shutdown_timeout", "worker_loop_interval", "worker_shutdown_timeout",
             "log_capture_max_lines", "stats_query_max_retries", "stats_query_sleep_period",
             "ports_query_timeout", "epvm_max_jobs", "check_interval", "check_timeout", "check_retries"}
Natural  == {"max_restarts", "check_start_period"}
Setting  == Positive \union Natural
Option   == {"scheduler", "dbtype"}

\* What fits a signed word.
Word == -Power2[Width - 1] .. Power2[Width - 1] - 1

ASSUME SettingsAssumption ==
    /\ Width \in Nat \ {0} /\ Second \in Nat \ {0} /\ MaxCount \in Nat
    /\ Absent # Bad /\ {Absent, Bad} \intersect Word = {}
    /\ \A f \in Files, s \in Setting : f[s] \in Word \union {Absent, Bad}
    /\ \A s \in Setting : Defaults[s] \in Word /\ Defaults[s] >= IF s \in Positive THEN 1 ELSE 0
    /\ Defaults["restart_backoff_base"] <= Defaults["restart_backoff_max"]

-----------------------------------------------------------------------------
(* Startup: applyConfig, applyRuntimeConfig, New *)

Section == [http      |-> {"client_timeout", "long_op_timeout"},
            manager   |-> {"max_restarts", "restart_backoff_base", "restart_backoff_max", "loop_interval",
                           "shutdown_timeout"},
            worker    |-> {"log_capture_max_lines", "worker_loop_interval", "worker_shutdown_timeout"},
            node      |-> {"stats_query_max_retries", "stats_query_sleep_period", "ports_query_timeout"},
            scheduler |-> {"epvm_max_jobs"},
            task      |-> {"check_interval", "check_timeout", "check_retries", "check_start_period"}]

Sections(c) == CASE c = "manager" -> <<"http", "manager", "node", "scheduler", "task">>
                 [] c = "worker"  -> <<"http", "worker", "task">>
                 [] c = "nodes"   -> <<"http", "node">>

\* Mutant of Overridden: an empty string in the file counts as a value.
OverriddenByEmpty(o) == IF line[o] = Absent /\ file[o] # Absent THEN file[o] ELSE options[o]

\* setStr: a flag on the command line wins, an empty string is no value.
Overridden(o) == IF line[o] = Absent /\ file[o] \notin {Absent, ""} THEN file[o] ELSE options[o]

Options(c) == CASE c = "manager" -> {"scheduler", "dbtype"}
                [] c = "worker"  -> {"dbtype"}
                [] c = "nodes"   -> {}

ApplyConfig ==
    /\ stage.at = "flags"
    /\ options' = [o \in Option |-> IF o \in Options(command) THEN Overridden(o) ELSE options[o]]
    /\ stage' = [at |-> "file", left |-> Sections(command)]
    /\ UNCHANGED <<command, file, line, vals>>

\* parsePosDuration, validatePosInt, validateNonNegInt.
Legal(s, v) == v # Bad /\ v >= (IF s \in Positive THEN 1 ELSE 0)

\* Mutant of Consistent: compared before the base of the file is in.
ConsistentEarly(new) == new["restart_backoff_max"] >= vals["restart_backoff_base"]

\* Checked by the manager's section, whichever of the two the file sets.
Consistent(new) == new["restart_backoff_max"] >= new["restart_backoff_base"]

ApplySection ==
    /\ stage.at = "file" /\ stage.left # <<>>
    /\ LET names == Section[Head(stage.left)]
           set == {s \in names : file[s] # Absent}
           new == [s \in Setting |-> IF s \in set THEN file[s] ELSE vals[s]]
       IN  IF (\A s \in set : Legal(s, file[s])) /\ (Head(stage.left) = "manager" => Consistent(new))
           THEN vals' = new /\ stage' = [stage EXCEPT !.left = Tail(@)]
           ELSE vals' = vals /\ stage' = [at |-> "refused", left |-> <<>>]
    /\ UNCHANGED <<command, file, line, options>>

Schedulers == {"", "epvm", "roundrobin"}
Stores     == {"memory", "bolt"}

\* Manager and worker look at the options when they are created.
Create ==
    /\ stage.at = "file" /\ stage.left = <<>>
    /\ LET known == /\ "scheduler" \in Options(command) => options["scheduler"] \in Schedulers
                    /\ "dbtype" \in Options(command) => options["dbtype"] \in Stores
       IN  stage' = [stage EXCEPT !.at = IF known THEN "running" ELSE "refused"]
    /\ UNCHANGED <<command, file, line, options, vals>>

SettingsInit ==
    /\ command \in {"manager", "worker", "nodes"}
    /\ file \in Files
    /\ line \in Lines
    /\ options = [o \in Option |-> IF line[o] = Absent THEN Defaults[o] ELSE line[o]]
    /\ vals = [s \in Setting |-> Defaults[s]]
    /\ stage = [at |-> "flags", left |-> <<>>]

SettingsNext == ApplyConfig \/ ApplySection \/ Create

SettingsSpec == SettingsInit /\ [][SettingsNext]_svars

-----------------------------------------------------------------------------
(* What is computed from the settings *)

\* A number in a signed word.
Wrap(x) == ((x + Power2[Width - 1]) % Power2[Width]) - Power2[Width - 1]

\* Mutant of Clamped: only a value beyond the cap is cut.
ClampedAbove(d) == IF d > vals["restart_backoff_max"] THEN vals["restart_backoff_max"] ELSE d

\* A negative value is an overflow.
Clamped(d) == IF d < 0 \/ d > vals["restart_backoff_max"] THEN vals["restart_backoff_max"] ELSE d

\* The loop of restartBackoff: doubled while it is below the cap; a negative
\* value ends the loop.
doubled[i \in Nat] ==
    IF i <= 1 THEN vals["restart_backoff_base"]
    ELSE IF doubled[i - 1] \in 0 .. vals["restart_backoff_max"] - 1 THEN Wrap(2 * doubled[i - 1])
    ELSE doubled[i - 1]

restartBackoff(n) == Clamped(doubled[n])

\* Mutant of Normalized: a zero interval is taken as it is.
NormalizedNegative(given) == IF given < 0 THEN vals["check_interval"] ELSE given

\* HealthCheck.Normalized, for the interval; submissions do not restrict it.
Normalized(given) == IF given <= 0 THEN vals["check_interval"] ELSE given

\* What the checker's ticker is created with.
Ticks(given) == Wrap(Normalized(given) * Second)

-----------------------------------------------------------------------------
(* Properties *)

\* A process runs with what was asked for, and with what it can run with:
\* flag before file before default, positive tickers and timeouts, and bounds
\* of the backoff in order.
RunsAsConfigured ==
    stage.at = "running" =>
        /\ \A o \in Options(command) :
               options[o] = IF line[o] # Absent THEN line[o]
                            ELSE IF file[o] \in {Absent, ""} THEN Defaults[o] ELSE file[o]
        /\ \A s \in Positive : vals[s] > 0
        /\ vals["restart_backoff_base"] <= vals["restart_backoff_max"]

\* What a setting is asked to be, and the settings of a command.
Asked(s) == IF file[s] = Absent THEN Defaults[s] ELSE file[s]
Mine == UNION {Section[Sections(command)[i]] : i \in DOMAIN Sections(command)}

\* A process refuses to start only if what it was asked for is wrong: the
\* order in which the settings are read is not to blame.
RefusedForCause ==
    stage.at = "refused" =>
        \/ \E s \in Mine : Asked(s) = Bad \/ Asked(s) < 0 \/ (Asked(s) = 0 /\ s \in Positive)
        \/ command = "manager" /\ Asked("restart_backoff_max") < Asked("restart_backoff_base")
        \/ options["scheduler"] \notin Schedulers \/ options["dbtype"] \notin Stores

\* The doubled backoff is base * 2^(n-1) up to the cap, for every number of
\* restarts, also when the doubling overflows.
BackoffExact ==
    stage.at = "running" =>
        \A n \in 1 .. MaxCount :
            LET exact == vals["restart_backoff_base"] * Power2[n - 1]
                cap == vals["restart_backoff_max"]
            IN  restartBackoff(n) = IF exact < cap THEN exact ELSE cap

\* A checker's ticker never gets an interval that panics, as long as the
\* seconds asked for fit a word.
TickersPositive ==
    stage.at = "running" /\ command = "manager" =>
        \A given \in -1 .. MaxCount :
            Normalized(given) * Second \in Word => Ticks(given) > 0
=============================================================================
