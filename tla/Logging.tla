------------------------------ MODULE Logging ------------------------------
(***************************************************************************)
(* Levels and loggers of pkg/logger.  A logger is its level: fields,       *)
(* timestamps and formatting are left out.  What a process has logged is   *)
(* the set of levels that reached its standard output or error.            *)
(***************************************************************************)
EXTENDS Integers

DEBUG == 0
INFO  == 1
WARN  == 2
ERROR == 3
LogLevels == DEBUG .. ERROR

\* A line of the standard library's log package, which knows no levels and
\* writes to standard error.
Plain    == ERROR + 1
LogLines == LogLevels \cup {Plain}

UnknownLevel == -1

\* logger.New
NewLogger == INFO

\* The package's own logger, which the functions without a receiver use.
GlobalLogger == NewLogger

\* WithFields: a copy that keeps the level it was made with.
WithFields(logger) == logger

\* Mutant: the level is not compared.
LogAlways(logger, level, out) == out \cup {level}

\* Logger.log: a message below the logger's level is dropped.
Log(logger, level, out) == IF level < logger THEN out ELSE out \cup {level}

\* Other mixed-case spellings, which ParseLevel takes, do not pass Validate.
ParseLevel(text) ==
    CASE text \in {"DEBUG", "debug"} -> DEBUG
      [] text \in {"INFO", "info"} -> INFO
      [] text \in {"WARN", "warn", "WARNING", "warning"} -> WARN
      [] text \in {"ERROR", "error"} -> ERROR
      [] OTHER -> UnknownLevel
=============================================================================
