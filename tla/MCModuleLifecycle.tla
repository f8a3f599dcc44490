------------------------- MODULE MCModuleLifecycle -------------------------
(* ModuleLifecycle with a threaded and a plain module, and a third location. *)
EXTENDS ModuleLifecycle
CONSTANTS a, b, c
OneOfEach == <<[loc |-> a, thr |-> TRUE], [loc |-> b, thr |-> FALSE]>>
TwoPlain  == <<[loc |-> a, thr |-> FALSE], [loc |-> b, thr |-> FALSE]>>
=============================================================================
