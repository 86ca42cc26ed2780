------------------------------ MODULE MCPages ------------------------------
(***************************************************************************)
(* Instances for TLC of two components that share no state: a behaviour    *)
(* exercises one of them, the part, and the other stays where it begins.   *)
(***************************************************************************)
EXTENDS AuthConsent, Presentations, TLC

CONSTANTS w1, d1, c1, c2, t1, t2, r1, r2, Page

VARIABLE part

\* Consent: grants shown in w1, of which a behaviour asks for two, a window's and a domain's or two
\* of a domain with different terms.
OfWindow == [target |-> w1, window |-> w1, terms |-> t1]
OfDomain(terms) == [target |-> d1, window |-> w1, terms |-> terms]
MCOneWindow == {OfWindow, OfDomain(t1), OfDomain(t2)}
Pair(p) == IF p = "consent" THEN {OfWindow, OfDomain(t1)} ELSE {OfDomain(t1), OfDomain(t2)}

\* Presentations: headers of every kind around both ends of a file.
From(first) == [kind |-> "from", start |-> first, end |-> 0]
Between(first, last) == [kind |-> "between", start |-> first, end |-> last]
Suffix(n) == [kind |-> "suffix", start |-> 0, end |-> n]
Malformed == [kind |-> "malformed", start |-> 0, end |-> 0]

FewHeaders == {NoHeader, Malformed, From(1), From(2), Between(1, 5), Between(1, 0), Suffix(5), Suffix(0)}

\* At most one window is admitted: two share nothing but the lifecycle lock.
OneWindow ==
  Cardinality({w \in Presented : opener[w] \notin {"idle", "failed"} \/ widget[w] # "unused"}) <= 1

\* Clients are interchangeable, and the threads of a server.
Interchangeable == Permutations({c1, c2}) \union Permutations(Connections)

PagesInit == part \in {"consent", "terms", "presentations"} /\ Init /\ PresentInit

PagesNext ==
  \/ /\ part \in {"consent", "terms"} /\ Next
     /\ \A c \in Clients : At(c, "request")' => actor'[c].grant \in Pair(part)
     /\ UNCHANGED <<part, presentVars>>
  \/ part = "presentations" /\ PresentNext /\ UNCHANGED <<part, vars>>

PagesSpec == PagesInit /\ [][PagesNext]_<<part, vars, presentVars>>
=============================================================================
