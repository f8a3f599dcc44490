----------------------------- MODULE MCInstances -----------------------------
(* Instances of Instances.tla for TLC.                                      *)
EXTENDS Instances
Plain == [lite |-> TRUE, explorer |-> FALSE, startup |-> TRUE, force |-> FALSE, bang |-> "none"]
Forced == [Plain EXCEPT !.force = TRUE]
SafeMode == [Plain EXCEPT !.explorer = TRUE, !.startup = FALSE]
Bang == [NoFlags EXCEPT !.bang = "quit"]
SomeCommands == <<{Plain, SafeMode}, {Plain, Forced, Bang}>>
=============================================================================
