------------------------------- MODULE MCWork -------------------------------
(* One window on a display with two desktops, and two callers. *)
EXTENDS Workspaces

CONSTANTS v1, k1, k2
=============================================================================
