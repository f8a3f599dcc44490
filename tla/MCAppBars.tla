----------------------------- MODULE MCAppBars -----------------------------
(* Bars at two edges of one or two monitors of 6 x 6, and another program   *)
(* that reserves a strip at the bottom of the primary one.                 *)
EXTENDS AppBars

StripAtBottom == [Screen EXCEPT !.bottom = Size - 1]
MCPlaces      == {<<"left", "m1">>, <<"top", "m1">>, <<"top", "m2">>}
MCWorkAreas   == {StripAtBottom}

ASSUME NoneFacing
=============================================================================
