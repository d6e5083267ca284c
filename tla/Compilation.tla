----------------------------- MODULE Compilation -----------------------------
(***************************************************************************)
(* A host and one program: the source is checked, the runtime starts, and  *)
(* the host runs actions in any order and reads the world in between.  The *)
(* compiler and the interpreter are parameters; Toolchain has them.        *)
(***************************************************************************)
EXTENDS Syntax

CONSTANTS
  Sources,              \* [program, fits]: a program, and whether the documents call it one
  Checking(_),          \* the checked program of a source, or why there is none
  Starting(_),          \* the runtime of a checked program, or why there is none
  Running(_, _, _),     \* the cells after an action, and how it ended
  States(_, _),         \* the states a host reads, by the paths of the source
  Values(_, _, _)       \* the derived values it reads

VARIABLES
  choice,    \* which program
  machine,   \* the checked program, then the part of the runtime that does not change
  cells,     \* Runtime::cells, by binding
  world,     \* the states as the host reads them, by the paths of the source
  shown,     \* the derived values, read now
  asked,     \* the action the host asks for, or <<>>
  outcome    \* of the last thing the host asked for

vars == <<choice, machine, cells, world, shown, asked, outcome>>

Source == Sources[choice].program
-----------------------------------------------------------------------------
Init ==
  /\ choice \in DOMAIN Sources
  /\ machine = << >> /\ cells = << >> /\ world = << >> /\ shown = << >>
  /\ asked = <<>> /\ outcome = "source"
\* A diagnostic, a panic of the compiler, or a checked program.
Check ==
  /\ outcome = "source"
  /\ \E checked \in {Checking(Source)} :
       /\ outcome' = checked.verdict
       /\ machine' = IF checked.verdict = "checked" THEN checked ELSE << >>
  /\ UNCHANGED <<choice, cells, world, shown, asked>>
\* The host holds a runtime only when every initial value has one.
Start ==
  /\ outcome = "checked" /\ UNCHANGED <<choice, asked>>
  /\ \E started \in {Starting(machine)} :
       /\ outcome' = started.outcome
       /\ IF started.outcome = "done"
          THEN /\ cells' = started.cells /\ machine' = started.rt
               /\ world' = States(Source, started.cells)
               /\ shown' = Values(Source, started.rt, started.cells)
          ELSE UNCHANGED <<machine, cells, world, shown>>
\* run_action, with no arguments.
Ask(name) ==
  /\ outcome \in {"done", "failed"} /\ machine.actions[name].params = <<>>
  /\ asked' = name /\ outcome' = "asked"
  /\ UNCHANGED <<choice, machine, cells, world, shown>>
Perform ==
  /\ outcome = "asked" /\ asked' = <<>>
  /\ \E ran \in {Running(machine, cells, asked)} :
       /\ cells' = ran.cells /\ outcome' = ran.outcome
       /\ world' = States(Source, ran.cells) /\ shown' = Values(Source, machine, ran.cells)
  /\ UNCHANGED <<choice, machine>>
Next ==
  \/ Check
  \/ Start
  \/ outcome \in {"done", "failed"} /\ \E name \in DOMAIN machine.actions : Ask(name)
  \/ Perform
Spec == Init /\ [][Next]_vars
-----------------------------------------------------------------------------
\* The runtime of a compiled program does what the source means.
Meant == INSTANCE Language WITH outcome <- IF outcome = "checked" THEN "source" ELSE outcome
ImplementsLanguage == Meant!Spec
\* A program the checks accept meets no error that they are there to exclude.
Sound == outcome # "stuck" /\ \A n \in DOMAIN shown : shown[n].t # "Stuck"
\* Of the listed programs, the checks refuse exactly those that are not of the language.
Judged == outcome # "source" => (outcome = "refused") = ~ Sources[choice].fits
=============================================================================
