------------------------ MODULE MCFullscreenMonitor ------------------------
(* FullscreenMonitor with two windows that may meet on one of two monitors. *)
EXTENDS FullscreenMonitor, TLC
CONSTANTS w1, w2, m1, m2
OneMoves == w1 :> {m1, m2} @@ w2 :> {m1}
=============================================================================
