------------------------------ MODULE Settings ------------------------------
(***************************************************************************)
(* Which value a setting has when main starts the service                  *)
(* (settings/settings.cpp, main.cpp): the default, the one in              *)
(* settings.json, or the one of a command line option.                     *)
(***************************************************************************)
EXTENDS Integers

\* The options main declares; parse_command_line refuses any other.
Options == {"threads", "port", "server", "storage", "any", "token", "coin-key"}

\* The settings, and the option that read(vm) looks up for each.
OptionOf ==
    [any_conns |-> "any", threads |-> "threads", port |-> "port", address |-> "addr",
     wallet_stotage |-> "storage", token |-> "token", coin_key |-> "coin-key"]
Fields == DOMAIN OptionOf

VARIABLES
    file,    \* the settings that settings.json gives
    vm,      \* the options given on the command line
    zero,    \* the option threads, if given, is less than 1
    setting, \* where the value of each setting comes from
    pc

vars == <<file, vm, zero, setting, pc>>

\* settings.json does not give any_conns.
Init ==
    /\ file \in SUBSET (Fields \ {"any_conns"}) /\ vm \in SUBSET Options
    /\ zero \in BOOLEAN
    /\ setting = [f \in Fields |-> "default"] /\ pc = "file"

\* read(): the file is read as a whole, or not at all.
ReadFile ==
    /\ pc = "file" /\ pc' = "options"
    /\ \/ setting' = [f \in Fields |-> IF f \in file THEN "file" ELSE "default"]
       \/ UNCHANGED setting
    /\ UNCHANGED <<file, vm, zero>>

\* std::max(threads, 1)
Option(f) == IF f = "threads" /\ zero THEN "clamped" ELSE "option"

\* read(vm).
ReadOptions ==
    /\ pc = "options" /\ pc' = "done"
    /\ setting' = [f \in Fields |-> IF OptionOf[f] \in vm THEN Option(f) ELSE setting[f]]
    /\ UNCHANGED <<file, vm, zero>>

Terminated == pc = "done" /\ UNCHANGED vars

Next == ReadFile \/ ReadOptions \/ Terminated

Spec == Init /\ [][Next]_vars

\* "server" is an option for the "server address" (main.cpp): when it is given, the
\* upstream address is the one it names.
ServerOption == pc = "done" /\ "server" \in vm => setting["address"] = "option"
=============================================================================
