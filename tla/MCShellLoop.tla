----------------------------- MODULE MCShellLoop ----------------------------
(* ShellLoop as it is: its constants are bounds and a choice of environment. *)
EXTENDS ShellLoop
=============================================================================
