---------------------------- MODULE MCTrayIcons ----------------------------
EXTENDS TrayIcons
CONSTANTS l1, l2, w1, w2, h1, h2, g
\* The tray on the main thread comes first in the set of windows.
TwoTrays == <<l1, l2>>
\* One program names its icon by window, the other by GUID; it may also use the window.
TwoIcons == {[win |-> w1, guid |-> None], [win |-> w2, guid |-> g]}
ByWindow == {[win |-> w2, guid |-> None]}

ASSUME ThreadedLast
=============================================================================
