------------------------------ MODULE Startup -------------------------------
(***************************************************************************)
(* How main() (main.cpp) puts the configuration together: the command line *)
(* argument by argument, then the file line by line (load_config), then    *)
(* the flags once more over what the file says.  A value is a member of    *)
(* Values, or "default".                                                   *)
(***************************************************************************)
EXTENDS Integers

CONSTANTS
  Flags,      \* the fields of Config given on the command line in this instance
  Lines,      \* the fields of Config named in the file in this instance
  Values,     \* values a user gives a field
  MaxItems    \* bound: arguments, and lines of the file

\* The fields that have a command-line flag, and those of them that main() puts
\* back after the file was read (-p -v -b -w -q).
Reapplied == {"listen_port", "log_level", "backend", "thread_pool_size", "job_queue_capacity"}
Flagged   == Reapplied \cup {"event_loops", "cache_enabled", "async_resolve", "resolve_delay_ms"}

ASSUME StartupAssumption ==
  /\ Flags \subseteq Flagged /\ MaxItems \in Nat
  /\ "default" \notin Values

VARIABLES
  pc,          \* where main() is; "exit" is an early return
  cfg,         \* cfg
  from_file,   \* from_file
  config_path, \* config_path is set
  set,         \* the fields whose _set variable is true
  items,       \* arguments, then lines, seen so far
  \* What the user asked for:
  flag, line   \* the last value that the command line, or the file, gave each field

startupVars == <<pc, cfg, from_file, config_path, set, items, flag, line>>

Fields  == Flags \cup Lines
Default == [f \in Fields |-> "default"]

StartupInit ==
  /\ pc = "args" /\ cfg = Default /\ from_file = Default /\ config_path = FALSE /\ set = {}
  /\ items = 0 /\ flag = Default /\ line = Default

\* A flag: assign the field, and remember that it was given.
ArgFlag ==
  /\ pc = "args" /\ items < MaxItems
  /\ \E f \in Flags, v \in Values :
       /\ cfg' = [cfg EXCEPT ![f] = v]
       /\ set' = IF f \in Reapplied THEN set \cup {f} ELSE set
       /\ flag' = [flag EXCEPT ![f] = v]
  /\ items' = items + 1
  /\ UNCHANGED <<pc, from_file, config_path, line>>

ArgPath ==
  /\ pc = "args" /\ items < MaxItems
  /\ config_path' = TRUE /\ items' = items + 1
  /\ UNCHANGED <<pc, cfg, from_file, set, flag, line>>

\* -h, an unknown argument, a flag without its value, or an unknown backend.
ArgExit ==
  /\ pc = "args" /\ items < MaxItems
  /\ pc' = "exit"
  /\ UNCHANGED <<cfg, from_file, config_path, set, items, flag, line>>

ArgsEnd ==
  /\ pc = "args"
  /\ pc' = IF config_path THEN "file" ELSE "start"
  /\ items' = 0
  /\ UNCHANGED <<cfg, from_file, config_path, set, flag, line>>

-----------------------------------------------------------------------------
(* load_config, into a Config of its own *)

\* The file cannot be opened, a line has no '=', an unknown key or an unknown backend.
LineExit ==
  /\ pc = "file" /\ items < MaxItems
  /\ pc' = "exit"
  /\ UNCHANGED <<cfg, from_file, config_path, set, items, flag, line>>

\* Blank lines, comments and lines with an empty key are skipped.
LineKey ==
  /\ pc = "file" /\ items < MaxItems
  /\ \E f \in Lines, v \in Values :
       /\ from_file' = [from_file EXCEPT ![f] = v]
       /\ line' = [line EXCEPT ![f] = v]
  /\ items' = items + 1
  /\ UNCHANGED <<pc, cfg, config_path, set, flag>>

\* Every flag is put back, given or not.
MergedBlindly == [f \in Fields |-> IF f \in Reapplied THEN cfg[f] ELSE from_file[f]]

\* The file's configuration, with the remembered flags over it.
Merged == [f \in Fields |-> IF f \in set THEN cfg[f] ELSE from_file[f]]

FileEnd ==
  /\ pc = "file"
  /\ cfg' = Merged
  /\ pc' = "start"
  /\ UNCHANGED <<from_file, config_path, set, items, flag, line>>

\* main() goes on to bind its socket, or has returned.
StartupOver == pc \in {"start", "exit"} /\ UNCHANGED startupVars

StartupNext ==
  \/ ArgFlag \/ ArgPath \/ ArgExit \/ ArgsEnd
  \/ LineExit \/ LineKey \/ FileEnd \/ StartupOver

-----------------------------------------------------------------------------
(* Properties *)

\* Where each field's value comes from, however often and in whatever order it is
\* given: from the last flag if main() puts it back or there is no file, else from the
\* last line of the file, and the default stands only where those give none.
EachFromItsSource ==
  pc = "start" =>
    \A f \in Fields :
      cfg[f] = IF flag[f] # "default" /\ (~config_path \/ f \in Reapplied) THEN flag[f] ELSE line[f]

\* "Config first, then re-apply flags so the command line wins."
CommandLineWins == pc = "start" => \A f \in Flags : flag[f] # "default" => cfg[f] = flag[f]
=============================================================================
