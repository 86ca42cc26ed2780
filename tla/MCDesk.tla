------------------------------- MODULE MCDesk -------------------------------
(***************************************************************************)
(* Instances for TLC of components that share no state: a behaviour        *)
(* exercises one of them, the part, and the others stay where they begin.  *)
(***************************************************************************)
EXTENDS Registry, ApplySpec, Requests, TLC

CONSTANTS w1, w2, a, c1, c2, s1, s2, s3, n1, n2, d1, d2, g1, p1, p2

VARIABLE part

allVars == <<part, deskVars, applyVars, requestVars>>

\* The registry: which operations each of two clients may choose from, what the user may do, and
\* whether opens overlap and fail.  A selector matches one window by its page, one by its description.
MCText == (w1 :> {a}) @@ (w2 :> {})
MCDescribed == (w1 :> {Untagged}) @@ (w2 :> {a})
Mix(one, two, user) == (c1 :> one) @@ (c2 :> two) @@ (User :> user)
MCMixes ==
  {Mix({"focus"}, {"close"}, {}),
   Mix({"focus"}, {}, {"focus", "close"}),
   Mix({"focus"}, {"focus"}, {}),
   Mix({"tag"}, {}, {}),
   Mix({"maximize"}, {"minimize"}, {}),
   Mix({"maximize", "restore"}, {}, {}),
   Mix({"minimize"}, {}, {"close"}),
   Mix({"maximize"}, {}, {"focus"}),
   Mix({}, {}, {"overlap", "fail", "focus"}),
   Mix({}, {"close"}, {"overlap", "fail"})}

\* Layouts: names and descriptions set apart, equal and crossed, two entries with one source, and
\* a source and a description that are recorded otherwise than they are written.
MCNormal == (s1 :> s1) @@ (s2 :> s2) @@ (s3 :> s2)
MCTrimmed == [d \in Tags \union Ids \union {Unset} |-> IF d = d2 THEN d1 ELSE d]
Asks(name, source, desc, geo) == [name |-> name, source |-> source, desc |-> desc, geo |-> geo]
MCDocuments ==
  {<<Asks(n1, s1, Unset, g1), Asks(n2, s2, d1, Unset)>>,
   <<Asks(Unset, s1, d2, Unset), Asks(n1, s3, Unset, Unset)>>,
   <<Asks(n1, s1, Unset, Unset), Asks(n2, s1, Unset, Unset)>>,
   <<Asks(n2, s3, n1, g1)>>}

\* Requests: texts that are short, short once trimmed, too long and blank, numbers at both ends of
\* their range, and more entries than a list or a frame holds.
MCShort == [raw |-> 1, bare |-> 1]
MCTexts == {MCShort, [raw |-> 3, bare |-> 1], [raw |-> 3, bare |-> 3], [raw |-> 1, bare |-> 0]}
Lists(longest) == UNION {[1..n -> MCTexts] : n \in 0..longest}
Ask(kinds, alls, targets, texts, numbers) ==
  [kind : kinds, all : alls, target : targets, texts : texts, number : numbers, formed : BOOLEAN]
Named == {"none", "fit", "unfit"}
MCRequests ==
  Ask({"console", "screenshot", "close"}, BOOLEAN, Named, {<<>>}, {NotGiven})
    \union Ask({"media", "resize"}, BOOLEAN, Named, {<<>>}, {NotGiven, NaN, 0, 1, 2, 3} )
    \union Ask({"tag"}, BOOLEAN, {"none", "fit"}, [1..1 -> MCTexts], {NotGiven})
    \union Ask({"open"}, {FALSE}, {"none"}, [1..2 -> MCTexts], {NotGiven})
    \union Ask({"batch"}, {FALSE}, {"none"}, Lists(3), {NotGiven})
    \union Ask({"history"}, BOOLEAN, {"none"}, Lists(1), {NotGiven})
    \union Ask({"config"}, {FALSE}, {"none"}, {<<>>}, {NotGiven, 0, 1, 2, 3})
    \union Ask({"record"}, {FALSE}, {"fit"}, {<<>>}, {NaN, 0, 1, 2, 3})
    \union Ask({"interact"}, {FALSE}, {"fit", "unfit"}, Lists(3), {0, 1, 2, 3})
    \union Ask({"auth"}, BOOLEAN, {"none", "fit"}, Lists(1), {NotGiven})

\* Appliers are interchangeable.
MCSymmetry == Permutations(Appliers)

\* The parts that are not exercised have one initial state.
AllInit ==
  /\ part \in {"registry", "layouts", "requests"}
  /\ DeskInit /\ ApplyInit /\ RequestInit
  /\ part # "registry" => offered = Mix({"focus"}, {"focus"}, {})
  /\ part # "requests" =>
       sender = "client" /\ request \in Ask({"config"}, {FALSE}, {"none"}, {<<>>}, {NotGiven}) /\ request.formed

AllNext ==
  \/ part = "registry" /\ DeskNext /\ UNCHANGED <<part, applyVars, requestVars>>
  \/ part = "layouts" /\ ApplyNext /\ UNCHANGED <<part, deskVars, requestVars>>
  \/ part = "requests" /\ RequestNext /\ UNCHANGED <<part, deskVars, applyVars>>

AllSpec == AllInit /\ [][AllNext]_allVars

-----------------------------------------------------------------------------

\* The types of every part.
DeskTypeOK == RegistryTypeOK /\ ApplyTypeOK /\ RequestTypeOK
=============================================================================
