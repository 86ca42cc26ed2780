------------------------------ MODULE MCApply ------------------------------
(* One applier and a layout whose two entries share their source. *)
EXTENDS ApplySpec

CONSTANTS s1, n1, n2, g1, p1

Ask(name) == [name |-> name, source |-> s1, desc |-> Unset, geo |-> Unset]
MCNormal == [s \in Sources |-> s]
MCTrimmed == [d \in Tags \union Ids \union {Unset} |-> d]
MCTwins == {<<Ask(n1), Ask(n2)>>}
=============================================================================
