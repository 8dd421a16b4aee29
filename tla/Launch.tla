------------------------------- MODULE Launch -------------------------------
(***************************************************************************)
(* main and the log.  The log is one object of the program: it starts on   *)
(* stdout, options -o move it to files while the command line is read, and *)
(* the configuration file may move it once more.  Then main reads its      *)
(* settings, starts the threads and serves the menu or runs by itself.     *)
(*                                                                         *)
(* A setting gets its value when it is read.  The threads are in other     *)
(* modules, as is what an import and a search do; here these come back or  *)
(* end the process: archives throw, and a batch for a pool of no threads   *)
(* divides by zero.                                                        *)
(***************************************************************************)
CONSTANTS
  Files, Openable,     \* names of log files, and those that fopen can open
  Levels,              \* the names of log levels
  Unset                \* no value

ASSUME FilesAssumption  == Openable \subseteq Files /\ {"", "stdout", Unset} \cap Files = {}
ASSUME LevelsAssumption == "CRITICAL" \in Levels

VARIABLES
  place,               \* what main does next, "gone" when the process has ended
  asked,               \* history: the last file that an option -o named
  conf,                \* history: the log file of the configuration
  file, filename,      \* file_ and filename_ of the log
  open,                \* the files it has open
  level, LogLevel,     \* level_, and the level of the last option -l
  mode,                \* interactive_mode
  choice               \* the last selection in the menu

logVars     == <<file, filename, open>>
levelVars   == <<level, LogLevel>>
historyVars == <<asked, conf>>
launchVars  == <<place, historyVars, logVars, levelVars, mode, choice>>

Queries == {"query1", "query2", "query3"}
Locations ==
  Queries \cup {"options", "load", "mode", "threads", "pool", "queue", "run", "import",
             "menu", "command", "killpool", "killqueue", "return", "gone"}
Selections == {"0", "1", "2", "3"}

LaunchTypeOK ==
  /\ place \in Locations
  /\ asked \in Files \cup {Unset} /\ conf \in Files \cup {Unset}
  /\ file \in Files \cup {"stdout"} /\ filename \in Files \cup {""}
  /\ open \subseteq Openable
  /\ level \in Levels /\ LogLevel \in Levels
  /\ mode \in {Unset, "negative", "zero", "positive"}
  /\ choice \in Selections

LaunchInit ==
  /\ place = "options"
  /\ asked = Unset /\ conf = Unset
  /\ file = "stdout" /\ filename = "" /\ open = {}
  /\ level = "CRITICAL" /\ LogLevel = "CRITICAL"
  /\ mode = Unset
  /\ choice = "1"

\* The process ends, by exit, by an exception or by returning from main: the log
\* is closed.
Gone ==
  /\ place' = "gone"
  /\ file' = "stdout" /\ filename' = "" /\ open' = {}
  /\ UNCHANGED <<historyVars, levelVars, mode, choice>>

-----------------------------------------------------------------------------
(* The command line, the configuration and the log.                        *)

\* The file that is open is closed before the next is tried.
SetFileName(f) ==
  IF f = ""
  THEN UNCHANGED logVars
  ELSE IF f \in Openable
       THEN file' = f /\ filename' = f /\ open' = (open \ {file}) \cup {f}
       ELSE file' = "stdout" /\ filename' = "" /\ open' = open \ {file}

OptionO(f) ==
  /\ place = "options"
  /\ asked' = IF f = "" THEN asked ELSE f
  /\ SetFileName(f)
  /\ UNCHANGED <<place, conf, levelVars, mode, choice>>

\* A level that is not known makes it CRITICAL.
OptionL ==
  /\ place = "options"
  /\ LogLevel' \in Levels
  /\ UNCHANGED <<place, historyVars, logVars, level, mode, choice>>

\* -h and -v.  Other options, and those that are not known, change nothing here.
OptionExits == place = "options" /\ Gone

OptionsEnd ==
  /\ place = "options"
  /\ level' = LogLevel
  /\ place' = "load"
  /\ UNCHANGED <<historyVars, logVars, LogLevel, mode, choice>>

\* There is no such file, then the mode has no value and the process exits; or
\* some value is blank, and Trim writes behind a null pointer.
LoadFails == place = "load" /\ Gone

\* Fault: the log file of the command line is not looked at.
SetupLoggingAnyway(f) ==
  /\ place = "load"
  /\ conf' = f
  /\ IF f # Unset THEN SetFileName(f) ELSE UNCHANGED logVars
  /\ level' \in Levels
  /\ place' = "mode"
  /\ UNCHANGED <<asked, LogLevel, mode, choice>>

\* The file of the configuration is for a log that has none; its level, if it
\* has one, is for any.
SetupLogging(f) ==
  /\ place = "load"
  /\ conf' = f
  /\ IF f # Unset /\ filename = "" THEN SetFileName(f) ELSE UNCHANGED logVars
  /\ level' \in Levels
  /\ place' = "mode"
  /\ UNCHANGED <<asked, LogLevel, mode, choice>>

-----------------------------------------------------------------------------
(* The settings and the threads.                                           *)

ReadMode ==
  /\ place = "mode"
  /\ mode' \in {"negative", "zero", "positive"}
  /\ place' = "threads"
  /\ UNCHANGED <<historyVars, logVars, levelVars, choice>>

\* The output directory has a value, and so has the number of threads: any
\* number, also 0.
ReadThreads ==
  /\ place = "threads"
  /\ place' = "pool"
  /\ UNCHANGED <<historyVars, logVars, levelVars, mode, choice>>

\* A setting is missing, or is not a number and lexical_cast throws.
SettingFails == place \in {"mode", "threads"} /\ Gone

\* The threads of the pool, and then that of the queue.
StartThreads ==
  /\ \/ place = "pool" /\ place' = "queue"
     \/ place = "queue" /\ place' = "run"
  /\ UNCHANGED <<historyVars, logVars, levelVars, mode, choice>>

\* A thread, or before it the hash function, is not to be had.
StartFails == place \in {"pool", "queue"} /\ Gone

-----------------------------------------------------------------------------
(* The menu, and the other mode.                                           *)

\* The mode is negative, or there is no document directory for mode 0: the
\* threads are running.
RunFails == place = "run" /\ mode # "positive" /\ Gone

Run ==
  /\ place = "run"
  /\ mode # "negative"
  /\ place' = IF mode = "positive" THEN "menu" ELSE "import"
  /\ UNCHANGED <<historyVars, logVars, levelVars, mode, choice>>

\* The import, then three queries, whether or not the one before found anything.
ByItself ==
  /\ \/ place = "import" /\ place' = "query1"
     \/ place = "query1" /\ place' = "query2"
     \/ place = "query2" /\ place' = "query3"
     \/ place = "query3" /\ place' = "killpool"
  /\ UNCHANGED <<historyVars, logVars, levelVars, mode, choice>>

\* What is not a number reads as 0.  An empty line, which is also what there is
\* after the end of the input, leaves the last selection as it was.
Select(line) ==
  /\ place = "menu"
  /\ choice' = CASE line = ""          -> choice
                 [] line \in Selections -> line
                 [] OTHER               -> "0"
  /\ place' = IF choice' = "0" THEN "killpool" ELSE "command"
  /\ UNCHANGED <<historyVars, logVars, levelVars, mode>>

CommandReturns ==
  /\ place = "command"
  /\ place' = "menu"
  /\ UNCHANGED <<historyVars, logVars, levelVars, mode, choice>>

\* An import or a search ends the process.
Dies ==
  /\ place \in Queries \cup {"import"} \/ (place = "command" /\ choice \in {"1", "2"})
  /\ Gone

\* The pool is killed and its threads are joined; the thread of the queue is told
\* to end, and not waited for.
KillThreads ==
  /\ \/ place = "killpool" /\ place' = "killqueue"
     \/ place = "killqueue" /\ place' = "return"
  /\ UNCHANGED <<historyVars, logVars, levelVars, mode, choice>>

Return == place = "return" /\ Gone

-----------------------------------------------------------------------------
LaunchNext ==
  \/ \E f \in Files \cup {""} : OptionO(f)
  \/ OptionL \/ OptionExits \/ OptionsEnd
  \/ LoadFails
  \/ \E f \in Files \cup {Unset} : SetupLogging(f)
  \/ ReadMode \/ ReadThreads \/ SettingFails
  \/ StartThreads \/ StartFails
  \/ RunFails \/ Run \/ ByItself
  \/ \E line \in Selections \cup {"", "word"} : Select(line)
  \/ CommandReturns \/ Dies
  \/ KillThreads \/ Return
  \/ place = "gone" /\ UNCHANGED launchVars

LaunchSpec == LaunchInit /\ [][LaunchNext]_launchVars

-----------------------------------------------------------------------------
\* The log file that was asked for and can be had: the last one of the command
\* line, or else that of the configuration.
LogFile ==
  IF asked \in Openable THEN asked ELSE IF conf \in Openable THEN conf ELSE Unset

\* The configuration's log file "can be overridden on the command line", and is
\* for a log that has none, whatever options succeeded and failed before: the log
\* writes to the file that was asked for and never to one it has closed, has no
\* second one open, and knows the name.  If there is none to be had, it has no file
\* open and knows that; nothing is said of where it writes then, of which the
\* messages of main and the configuration say something else than the code does.
LogRight ==
  place # "gone" =>
    IF LogFile = Unset
    THEN file \notin Files /\ filename = "" /\ open = {}
    ELSE file = LogFile /\ filename = LogFile /\ open = {LogFile}

=============================================================================
