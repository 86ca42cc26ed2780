------------------------------ MODULE MCSelect ------------------------------
(* A client that focuses by a word which the pages of both windows contain. *)
EXTENDS Registry

CONSTANTS w1, w2, a, c1

MCBoth == [w \in {w1, w2} |-> {a}]
MCNone == [w \in {w1, w2} |-> {Untagged}]
MCFocus == {[x \in {c1, User} |-> IF x = c1 THEN {"focus"} ELSE {}]}
=============================================================================
