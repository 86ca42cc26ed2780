-------------------------- MODULE MCWindowHistory --------------------------
(***************************************************************************)
(* Instances of WindowHistory for TLC: every snapshot of a window that     *)
(* shows at most MCMaxPages pages.                                         *)
(***************************************************************************)
EXTENDS WindowHistory, TLC

CONSTANTS w1, w2

MCTimelines == {<<>>, <<1>>, <<2>>, <<1, 2>>}

MCSnapshots ==
  [win: Windows, url: {1, 2}, urls: MCTimelines, trunc: {FALSE}]

\* Clients are interchangeable.
MCSymmetry == Permutations(Clients)
=============================================================================
