---------------------------- MODULE MCClipboardMesh ----------------------------
(* Topologies of ClipboardMesh for TLC. *)
EXTENDS ClipboardMesh

CONSTANTS d, h, g

\* A desktop and two headless machines; the desktop and h are connected both
\* ways, and h also passes on to g what it shows.
DesktopAndTwoHeadless == {<<d, h>>, <<h, d>>, <<d, g>>, <<h, g>>}

\* Two machines connected both ways.
BothWays == {<<h, g>>, <<g, h>>}
=============================================================================
