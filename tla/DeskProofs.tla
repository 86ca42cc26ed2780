----------------------------- MODULE DeskProofs -----------------------------
(***************************************************************************)
(* Proofs about Requests and ApplySpec, which share no state: what an      *)
(* answer says of what was done, and what applying a layout keeps.         *)
(*                                                                         *)
(* RequestInv says at each stage how far serving has come, by what has     *)
(* been reported of it.  LayoutInv says what an applier has done so far    *)
(* (JobSound, CalmSound), and that a settled layout stands in the registry *)
(* with a window for each entry that no other entry matches, through which *)
(* an applier goes in order (SettledSound).  The last section joins the    *)
(* parts of the desk.                                                      *)
(***************************************************************************)
EXTENDS RegistryProofs, MCDesk

-----------------------------------------------------------------------------
(* Requests: what the two checks have in common *)

\* The numbers from k + 1 to n, in order.
After(k, n) == [i \in 1..(n - k) |-> k + i]

Count(r) == Len(Items(r))

LEMMA AssumedRequests ==
  /\ \A r \in Asked : r \in RequestType /\ (r.kind \in {"open", "tag"} => r.texts # <<>>)
  /\ NotGiven \notin Int /\ NaN \notin Int \union {NotGiven}
  /\ Found \in Nat /\ MaxChars \in Nat /\ MaxItems \in Nat /\ MaxItems > 0 /\ MaxNumber \in Nat
BY RequestsAssumption

LEMMA AfterNone ==
  ASSUME NEW n \in Nat PROVE After(0, n) = [i \in 1..n |-> i]
<1>1. 1..(n - 0) = 1..n
  OBVIOUS
<1>2. \A i \in 1..n : 0 + i = i
  OBVIOUS
<1> QED BY <1>1, <1>2 DEF After

LEMMA ItemsAreInOrder ==
  ASSUME NEW r \in Asked
  PROVE  Count(r) \in Nat /\ Items(r) = After(0, Count(r))
<1>1. Len(r.texts) \in Nat /\ Found \in Nat
  BY AssumedRequests DEF RequestType
<1>2. CASE r.kind = "batch"
  <2>1. Items(r) = [i \in 1..Len(r.texts) |-> i]
    BY <1>2 DEF Items, Bulk
  <2>2. Count(r) = Len(r.texts)
    BY <1>1, <2>1 DEF Count
  <2> QED BY <1>1, <2>1, <2>2, AfterNone
<1>3. CASE r.kind # "batch" /\ r.kind \in Bulk \union {"close"} /\ r.all
  <2>1. Items(r) = [i \in 1..Found |-> i]
    BY <1>3 DEF Items
  <2>2. Count(r) = Found
    BY <1>1, <2>1 DEF Count
  <2> QED BY <1>1, <2>1, <2>2, AfterNone
<1>4. CASE r.kind # "batch" /\ ~(r.kind \in Bulk \union {"close"} /\ r.all)
  <2>1. Items(r) = <<1>>
    BY <1>4 DEF Items
  <2>2. <<1>> = [i \in 1..1 |-> 0 + i]
    OBVIOUS
  <2> QED BY <2>1, <2>2 DEF Count, After
<1> QED BY <1>2, <1>3, <1>4

LEMMA FirstText ==
  ASSUME NEW r \in Asked, r.texts # <<>>
  PROVE  /\ r.texts[1] \in Given(r)
         /\ r.texts[1].raw \in Nat /\ r.texts[1].bare \in Nat /\ r.texts[1].bare <= r.texts[1].raw
<1>1. r.texts \in Seq(Texts)
  BY AssumedRequests DEF RequestType
<1>2. 1 \in DOMAIN r.texts /\ r.texts[1] \in Texts
  BY <1>1
<1> QED BY <1>2 DEF Given, ToSet, Texts

(* What the client refuses the host would refuse as well, but for what only the client checks. *)
LEMMA RefusalsAgree ==
  ASSUME NEW r \in Asked, HostTakes(r), ~OnlyClient(r) PROVE ClientAccepts(r)
<1>1. /\ r \in RequestType /\ (r.kind \in {"open", "tag"} => r.texts # <<>>)
      /\ Fits(r) /\ Decodes(r) /\ Admitted(r)
      /\ \A i \in ToSet(Items(r)) : Suits(r, i)
      /\ Items(r) # <<>>
  BY AssumedRequests DEF HostTakes, OnlyClient
<1>2. Suits(r, 1)
  <2>1. 1 \in ToSet(Items(r))
    BY <1>1, ItemsAreInOrder DEF ToSet, After
  <2> QED BY <1>1, <2>1
<1>3. OneTarget(r)
  BY <1>1 DEF OneTarget, Admitted, Aimed, Decodes, OnlyClient, RequestType
<1>4. ClientOpens(r)
  BY <1>1, <1>2, FirstText DEF ClientOpens, Suits, Describes, Admitted, Manifest
<1>5. ClientSettings(r)
  <2>1. r.kind = "config" => SoundDays(r)
    BY <1>1 DEF Admitted
  <2>2. r.kind = "history" => ~(r.all /\ r.texts # <<>>)
    BY <1>1 DEF OnlyClient
  <2>3. CASE r.kind = "history" /\ ~r.all
    BY <1>1, <2>1, <2>2, <2>3 DEF ClientSettings, Admitted
  <2>4. CASE r.kind = "history" /\ r.all
    <3>1. Given(r) = {}
      BY <2>2, <2>4 DEF Given, ToSet
    <3> QED BY <2>1, <2>2, <3>1 DEF ClientSettings, SoundQuery
  <2>5. CASE r.kind # "history"
    BY <2>1, <2>5 DEF ClientSettings
  <2> QED BY <1>1, <2>3, <2>4, <2>5 DEF RequestType
<1>6. ClientPages(r)
  BY <1>1, <1>2 DEF ClientPages, Admitted, Suits, OnlyClient
<1>7. ClientWindows(r)
  BY <1>1 DEF ClientWindows, OnlyClient
<1> QED BY <1>1, <1>3, <1>4, <1>5, <1>6, <1>7 DEF ClientAccepts

(* What the host refuses of a request that the client let through only the host could know. *)
LEMMA AdmissionsAgree ==
  ASSUME NEW r \in Asked, ClientAccepts(r), ~OnlyHost(r) PROVE Fits(r) /\ Decodes(r) /\ Admitted(r)
<1>1. r \in RequestType
  BY AssumedRequests
<1>2. r.kind \notin {"open", "batch", "auth", "resize"} /\ r.number # NaN
  BY DEF OnlyHost
<1>3. Fits(r)
  BY DEF ClientAccepts
<1>4. Decodes(r)
  BY <1>2 DEF Decodes
<1>5. Aimed(r)
  BY <1>1 DEF ClientAccepts, OneTarget, Aimed, RequestType, Bulk
<1>6. /\ r.kind = "history" => SoundQuery(r)
      /\ r.kind = "config" => SoundDays(r)
      /\ r.kind = "interact" => SoundSteps(r)
  BY DEF ClientAccepts, ClientSettings, ClientPages
<1> QED BY <1>2, <1>3, <1>4, <1>5, <1>6 DEF Admitted

LEMMA ServicesAgree ==
  ASSUME NEW r \in Asked, ClientAccepts(r), ~OnlyHost(r), NEW i PROVE Suits(r, i)
<1>1. r \in RequestType /\ (r.kind \in {"open", "tag"} => r.texts # <<>>) /\ MaxChars \in Nat
  BY AssumedRequests
<1>2. r.target # "unfit" /\ r.formed
  BY DEF OnlyHost
<1>3. r.kind \notin {"open", "batch", "auth", "resize"}
  BY DEF OnlyHost
<1>4. r.kind = "media" => Within(r.number, 0)
  BY DEF ClientAccepts, ClientPages
<1>5. r.kind = "tag" => ~Long(r.texts[1])
  BY <1>1, FirstText DEF ClientAccepts, ClientWindows, Typed, Long
<1> QED BY <1>2, <1>3, <1>4, <1>5 DEF Suits, Describes, Grants

-----------------------------------------------------------------------------
(* Requests: the inductive invariant *)

\* The host has looked at the first k items.  A request that stops at its first failure has acted
\* upon each of them and lists them all.
Progress(k) ==
  /\ todo = After(k, Count(request))
  /\ results \in Seq(Nat) /\ touched \subseteq 1..k /\ ToSet(results) \subseteq touched
  /\ Stops(request) => touched = 1..k /\ results = After(0, k)

Unserved == todo = <<>> /\ touched = {} /\ results = <<>>

Stages == {"made", "refused", "sent", "serving", "answered"}

BeforeSound ==
  /\ stage \in {"made", "sent"} => Unserved /\ code = NotGiven
  /\ stage = "sent" /\ sender = "client" => ClientAccepts(request)

RefusedSound == stage = "refused" => Unserved /\ code = 1 /\ ~ClientAccepts(request)

ServingSound ==
  stage = "serving" =>
    /\ code = NotGiven
    /\ Fits(request) /\ Decodes(request) /\ Admitted(request)
    /\ sender = "client" => ClientAccepts(request)
    /\ \E k \in 0..Count(request) : Progress(k)

AnsweredSound ==
  stage = "answered" =>
    /\ todo = <<>> /\ code \in {0, 1, 2, 6, 7}
    /\ touched \subseteq 1..(MaxItems + Found) /\ ToSet(results) \subseteq touched

RequestInv ==
  /\ request \in Asked /\ sender \in {"client", "other"} /\ stage \in Stages
  /\ BeforeSound /\ RefusedSound /\ ServingSound /\ AnsweredSound
  /\ AnswerIsHonest /\ VerdictsAgree

LEMMA AfterType ==
  ASSUME NEW n \in Nat, NEW k \in 0..n
  PROVE  After(k, n) \in Seq(Nat) /\ Len(After(k, n)) = n - k
<1>1. /\ k \in Nat /\ n - k \in Nat
      /\ \A i \in 1..(n - k) : k + i \in Nat
  OBVIOUS
<1> QED BY <1>1 DEF After

LEMMA AfterIs ==
  ASSUME NEW n \in Nat, NEW k \in 0..n
  PROVE  /\ After(k, n) = <<>> <=> k = n
         /\ k < n => Head(After(k, n)) = k + 1 /\ Tail(After(k, n)) = After(k + 1, n)
<1>1. After(k, n) = <<>> <=> k = n
  <2>1. After(k, n) = <<>> <=> Len(After(k, n)) = 0
    BY AfterType, EmptySeq
  <2>2. Len(After(k, n)) = n - k
    BY AfterType
  <2>3. n - k = 0 <=> k = n
    OBVIOUS
  <2> QED BY <2>1, <2>2, <2>3
<1>2. ASSUME k < n PROVE Head(After(k, n)) = k + 1 /\ Tail(After(k, n)) = After(k + 1, n)
  <2> DEFINE s == After(k, n)
  <2> DEFINE t == After(k + 1, n)
  <2>1. k + 1 \in 0..n /\ 1 \in 1..(n - k) /\ n - k \in Nat /\ n - (k + 1) \in Nat
    BY <1>2
  <2>2. s \in Seq(Nat) /\ Len(s) = n - k /\ t \in Seq(Nat) /\ Len(t) = n - (k + 1)
    BY <2>1, AfterType
  <2>3. s[1] = k + 1
    BY <2>1 DEF After
  <2>4. \A i \in 1..(n - (k + 1)) : s[i + 1] = t[i]
    BY <1>2 DEF After
  <2> HIDE DEF s, t
  <2>5. s # <<>>
    BY <2>1, <2>2
  <2>6. /\ Tail(s) \in Seq(Nat) /\ Len(Tail(s)) = Len(s) - 1
        /\ \A i \in 1..Len(Tail(s)) : Tail(s)[i] = s[i + 1]
    BY <2>2, <2>5, HeadTailProperties
  <2>7. Len(Tail(s)) = Len(t)
    BY <2>2, <2>6
  <2>8. \A i \in 1..Len(Tail(s)) : Tail(s)[i] = t[i]
    BY <2>2, <2>4, <2>6, <2>7
  <2>9. Tail(s) = t
    BY <2>2, <2>6, <2>7, <2>8, SeqEqual
  <2>10. Head(s) = k + 1
    BY <2>2, <2>3, <2>5
  <2> QED BY <2>9, <2>10 DEF s, t
<1> QED BY <1>1, <1>2

LEMMA AfterGrows ==
  ASSUME NEW k \in Nat PROVE Append(After(0, k), k + 1) = After(0, k + 1)
<1>1. k \in 0..k /\ 0 \in 0..k /\ 0 \in 0..(k + 1) /\ k + 1 \in Nat
  OBVIOUS
<1> DEFINE s == After(0, k)
<1> DEFINE t == After(0, k + 1)
<1>2. s \in Seq(Nat) /\ Len(s) = k /\ t \in Seq(Nat) /\ Len(t) = k + 1
  <2>1. s \in Seq(Nat) /\ Len(s) = k - 0
    BY <1>1, AfterType
  <2>2. t \in Seq(Nat) /\ Len(t) = (k + 1) - 0
    BY <1>1, AfterType
  <2> HIDE DEF s, t
  <2> QED BY <2>1, <2>2
<1>3. (\A i \in 1..k : s[i] = i) /\ \A i \in 1..(k + 1) : t[i] = i
  <2>1. s = [i \in 1..k |-> i] /\ t = [i \in 1..(k + 1) |-> i]
    BY <1>1, AfterNone
  <2> HIDE DEF s, t
  <2> QED BY <2>1
<1> HIDE DEF s, t
<1>4. Append(s, k + 1) \in Seq(Nat) /\ Len(Append(s, k + 1)) = k + 1
  BY <1>1, <1>2
<1>5. \A i \in 1..(k + 1) : Append(s, k + 1)[i] = t[i]
  BY <1>1, <1>2, <1>3
<1>6. Append(s, k + 1) = t
  BY <1>2, <1>4, <1>5, SeqEqual
<1> QED BY <1>6 DEF s, t

LEMMA AfterRange ==
  ASSUME NEW k \in Nat PROVE ToSet(After(0, k)) = 1..k
<1>1. After(0, k) = [i \in 1..k |-> i]
  BY AfterNone
<1> QED BY <1>1 DEF ToSet

LEMMA AppendRange ==
  ASSUME NEW s \in Seq(Nat), NEW e \in Nat PROVE ToSet(Append(s, e)) = ToSet(s) \union {e}
<1>1. DOMAIN s = 1..Len(s) /\ Len(s) \in Nat
  OBVIOUS
<1>2. Append(s, e) \in Seq(Nat) /\ Len(Append(s, e)) = Len(s) + 1
  OBVIOUS
<1>3. DOMAIN Append(s, e) = DOMAIN s \union {Len(s) + 1}
  BY <1>1, <1>2
<1>4. Append(s, e)[Len(s) + 1] = e /\ \A i \in DOMAIN s : Append(s, e)[i] = s[i]
  BY <1>1
<1> QED BY <1>3, <1>4 DEF ToSet

(* A request that the host admits is about few enough items. *)
LEMMA AdmittedIsBounded ==
  ASSUME NEW r \in Asked, Admitted(r) PROVE Count(r) \in Nat /\ Count(r) <= MaxItems + Found
<1>1. Len(r.texts) \in Nat /\ Found \in Nat /\ MaxItems \in Nat /\ MaxItems > 0
  BY AssumedRequests DEF RequestType
<1>2. CASE r.kind = "batch"
  <2>1. Items(r) = [i \in 1..Len(r.texts) |-> i] /\ Len(r.texts) <= MaxItems
    BY <1>1, <1>2 DEF Items, Bulk, Admitted, Manifest
  <2>2. Count(r) = Len(r.texts)
    BY <1>1, <2>1 DEF Count
  <2> QED BY <1>1, <2>1, <2>2
<1>3. CASE r.kind # "batch" /\ r.kind \in Bulk \union {"close"} /\ r.all
  <2>1. Items(r) = [i \in 1..Found |-> i]
    BY <1>3 DEF Items
  <2>2. Count(r) = Found
    BY <1>1, <2>1 DEF Count
  <2> QED BY <1>1, <2>2
<1>4. CASE r.kind # "batch" /\ ~(r.kind \in Bulk \union {"close"} /\ r.all)
  <2>1. Items(r) = <<1>>
    BY <1>4 DEF Items
  <2> QED BY <1>1, <2>1 DEF Count
<1> QED BY <1>2, <1>3, <1>4

(* What the host admits and then refuses, it refuses at its first and only item, but for a
   manifest and a request that passes windows over. *)
LEMMA OnlyItemIsRefused ==
  ASSUME NEW r \in Asked, Admitted(r), Stops(r), r.kind # "batch", NEW i, ~Suits(r, i)
  PROVE  Count(r) = 1
<1>1. r \in RequestType /\ r.kind \notin {"open", "tag", "media", "screenshot", "record", "interact", "resize", "auth"} => r.target = "unfit"
  BY AssumedRequests DEF Suits, Describes, Grants
<1>2. ~(r.kind \in Bulk \union {"close"} /\ r.all)
  <2>1. SUFFICES ASSUME r.kind = "close", r.all PROVE FALSE
    BY DEF Stops
  <2>2. r.target = "none"
    BY <2>1, AssumedRequests DEF Admitted, Aimed
  <2> QED BY <1>1, <2>1, <2>2, AssumedRequests
<1>3. Items(r) = <<1>>
  BY <1>2 DEF Items
<1> QED BY <1>3 DEF Count

-----------------------------------------------------------------------------
(* Requests: every step preserves the invariant *)

LEMMA RequestStarts == RequestInit => RequestInv
<1> SUFFICES ASSUME RequestInit PROVE RequestInv
  OBVIOUS
<1>1. stage = "made" /\ Unserved /\ code = NotGiven /\ request \in Asked /\ sender \in {"client", "other"}
  BY DEF RequestInit, Unserved
<1> QED BY <1>1 DEF RequestInv, Stages, BeforeSound, RefusedSound, ServingSound, AnsweredSound,
                    AnswerIsHonest, VerdictsAgree

LEMMA SendKeeps == ASSUME RequestInv, Send PROVE RequestInv'
<1>1. /\ UNCHANGED <<request, sender, todo, touched, results>>
      /\ request \in Asked /\ sender \in {"client", "other"} /\ Unserved /\ code = NotGiven
  BY DEF RequestInv, BeforeSound, Send
<1>2. Unserved'
  BY <1>1 DEF Unserved
<1>3. CASE sender = "other" \/ ClientAccepts(request)
  <2>1. stage' = "sent" /\ code' = code
    BY <1>3 DEF Send
  <2> QED BY <1>1, <1>2, <1>3, <2>1 DEF RequestInv, Stages, BeforeSound, RefusedSound, ServingSound,
                                        AnsweredSound, AnswerIsHonest, VerdictsAgree
<1>4. CASE ~(sender = "other" \/ ClientAccepts(request))
  <2>1. stage' = "refused" /\ code' = 1
    BY <1>4 DEF Send
  <2>2. BeforeSound' /\ RefusedSound' /\ ServingSound' /\ AnsweredSound'
    BY <1>1, <1>2, <1>4, <2>1 DEF BeforeSound, RefusedSound, ServingSound, AnsweredSound
  <2>3. AnswerIsHonest'
    BY <1>2, <2>1 DEF AnswerIsHonest, Unserved
  <2>4. VerdictsAgree'
    BY <1>1, <1>4, <2>1, RefusalsAgree DEF VerdictsAgree
  <2> QED BY <1>1, <2>1, <2>2, <2>3, <2>4 DEF RequestInv, Stages
<1> QED BY <1>3, <1>4

(* A request that is refused before it is served. *)
LEMMA RefusedAtOnce ==
  ASSUME RequestInv, Receive, NEW c \in {1, 2, 6, 7}, Answer(c),
         c \in {1, 7} /\ sender = "client" => OnlyHost(request)
  PROVE  RequestInv'
<1>1. /\ UNCHANGED <<request, sender, touched, results>>
      /\ request \in Asked /\ sender \in {"client", "other"} /\ Unserved
  BY DEF RequestInv, BeforeSound, Receive
<1>2. stage' = "answered" /\ code' = c /\ Unserved'
  BY <1>1 DEF Answer, Unserved
<1>3. BeforeSound' /\ RefusedSound' /\ ServingSound'
  BY <1>2 DEF BeforeSound, RefusedSound, ServingSound
<1>4. AnsweredSound'
  BY <1>2 DEF AnsweredSound, Unserved, ToSet
<1>5. AnswerIsHonest'
  BY <1>2 DEF AnswerIsHonest, Unserved
<1>6. VerdictsAgree'
  BY <1>1, <1>2 DEF VerdictsAgree
<1> QED BY <1>1, <1>2, <1>3, <1>4, <1>5, <1>6 DEF RequestInv, Stages

LEMMA AcceptedIsServed ==
  ASSUME RequestInv, Receive, Fits(request), Decodes(request), Admitted(request),
         stage' = "serving", todo' = Items(request), code' = code
  PROVE  RequestInv'
<1>1. /\ UNCHANGED <<request, sender, touched, results>>
      /\ request \in Asked /\ sender \in {"client", "other"} /\ Unserved /\ code = NotGiven
      /\ sender = "client" => ClientAccepts(request)
  BY DEF RequestInv, BeforeSound, Receive
<1>2. Count(request) \in Nat /\ todo' = After(0, Count(request))
  BY <1>1, ItemsAreInOrder
<1>3. After(0, 0) = <<>>
  BY AfterIs
<1>4. Progress(0)'
  BY <1>1, <1>2, <1>3 DEF Progress, Unserved, ToSet
<1>5. ServingSound'
  BY <1>1, <1>2, <1>4 DEF ServingSound
<1> QED BY <1>1, <1>5 DEF RequestInv, Stages, BeforeSound, RefusedSound, AnsweredSound,
                          AnswerIsHonest, VerdictsAgree

LEMMA ReceiveKeeps == ASSUME RequestInv, Receive PROVE RequestInv'
<1>1. request \in Asked /\ (sender = "client" => ClientAccepts(request)) /\ sender \in {"client", "other"}
  BY DEF RequestInv, BeforeSound, Receive
<1>2. CASE ~Fits(request) /\ Answer(7)
  BY <1>1, <1>2, AdmissionsAgree, RefusedAtOnce
<1>3. CASE Fits(request) /\ ~(Decodes(request) /\ Admitted(request)) /\ Answer(1)
  BY <1>1, <1>3, AdmissionsAgree, RefusedAtOnce
<1>4. CASE sender = "other" /\ Answer(2)
  BY <1>4, RefusedAtOnce
<1>5. CASE Answer(6)
  BY <1>5, RefusedAtOnce
<1>6. CASE /\ Fits(request) /\ Decodes(request) /\ Admitted(request)
           /\ stage' = "serving" /\ todo' = Items(request) /\ UNCHANGED code
  BY <1>6, AcceptedIsServed
<1> QED BY <1>2, <1>3, <1>4, <1>5, <1>6 DEF Receive

LEMMA ServeContext ==
  ASSUME RequestInv, stage = "serving", todo # <<>>
  PROVE  \E k \in Nat : /\ k < Count(request) /\ Progress(k)
                        /\ Head(todo) = k + 1 /\ Tail(todo) = After(k + 1, Count(request))
<1>1. Count(request) \in Nat /\ \E k \in 0..Count(request) : Progress(k)
  BY ItemsAreInOrder DEF RequestInv, ServingSound
<1>2. PICK k \in 0..Count(request) : Progress(k)
  BY <1>1
<1>3. todo = After(k, Count(request))
  BY <1>2 DEF Progress
<1>4. k # Count(request)
  BY <1>1, <1>3, AfterIs
<1>5. k \in Nat /\ k < Count(request)
  BY <1>1, <1>4
<1> QED BY <1>1, <1>2, <1>3, <1>5, AfterIs

LEMMA Advances ==
  ASSUME RequestInv, stage = "serving", UNCHANGED <<request, sender, stage, code>>,
         NEW k \in Nat, k < Count(request), Progress(k + 1)'
  PROVE  RequestInv'
<1>1. /\ request \in Asked /\ sender \in {"client", "other"} /\ code = NotGiven
      /\ Fits(request) /\ Decodes(request) /\ Admitted(request)
      /\ sender = "client" => ClientAccepts(request)
  BY DEF RequestInv, ServingSound
<1>2. Count(request) \in Nat
  BY <1>1, ItemsAreInOrder
<1>3. k + 1 \in 0..Count(request)
  BY <1>2
<1>4. ServingSound'
  BY <1>1, <1>3 DEF ServingSound
<1> QED BY <1>1, <1>4 DEF RequestInv, Stages, BeforeSound, RefusedSound, AnsweredSound,
                          AnswerIsHonest, VerdictsAgree

(* A request that stops at item k + 1, before it has had an effect on it or after. *)
LEMMA Ends ==
  ASSUME RequestInv, stage = "serving", UNCHANGED <<request, sender, results>>,
         NEW k \in Nat, k < Count(request), Progress(k), Stops(request),
         NEW c \in {1, 6}, Answer(c), touched' \in {touched, touched \union {k + 1}},
         c = 1 => touched' = touched /\ ~Suits(request, k + 1)
  PROVE  RequestInv'
<1>1. /\ request \in Asked /\ sender \in {"client", "other"}
      /\ Admitted(request) /\ (sender = "client" => ClientAccepts(request))
  BY DEF RequestInv, ServingSound
<1>2. /\ results' = After(0, k) /\ ToSet(results') = 1..k
      /\ touched' \in {1..k, (1..k) \union {k + 1}}
  BY AfterRange DEF Progress
<1>3. stage' = "answered" /\ code' = c /\ todo' = <<>>
  BY DEF Answer
<1>4. Count(request) \in Nat /\ Count(request) <= MaxItems + Found /\ MaxItems \in Nat /\ Found \in Nat
  BY <1>1, AdmittedIsBounded, AssumedRequests
<1>5. AnsweredSound'
  <2>1. touched' \subseteq 1..(MaxItems + Found)
    BY <1>2, <1>4
  <2>2. ToSet(results') \subseteq touched'
    BY <1>2
  <2> QED BY <1>3, <2>1, <2>2 DEF AnsweredSound
<1>6. AnswerIsHonest'
  <2>1. c = 1 /\ request.kind # "batch" => touched' = {}
    <3>1. SUFFICES ASSUME c = 1, request.kind # "batch" PROVE touched' = {}
      OBVIOUS
    <3>2. Count(request) = 1
      BY <1>1, <3>1, OnlyItemIsRefused
    <3>3. k = 0
      BY <3>2
    <3> QED BY <3>1, <3>3 DEF Progress
  <2>2. \A i \in touched' : \A j \in 1..i - 1 : j \in ToSet(results')
    BY <1>2
  <2>3. code' \notin {0, 2, 7}
    BY <1>3
  <2> QED BY <1>3, <2>1, <2>2, <2>3 DEF AnswerIsHonest
<1>7. VerdictsAgree'
  BY <1>1, <1>3, ServicesAgree DEF VerdictsAgree
<1> QED BY <1>1, <1>3, <1>5, <1>6, <1>7 DEF RequestInv, Stages, BeforeSound, RefusedSound, ServingSound

LEMMA ServeKeeps == ASSUME RequestInv, Serve PROVE RequestInv'
<1>1. stage = "serving" /\ todo # <<>> /\ UNCHANGED <<request, sender>>
  BY DEF Serve
<1>2. PICK k \in Nat : /\ k < Count(request) /\ Progress(k)
                       /\ Head(todo) = k + 1 /\ Tail(todo) = After(k + 1, Count(request))
  BY <1>1, ServeContext
<1>3. /\ results \in Seq(Nat) /\ touched \subseteq 1..k /\ ToSet(results) \subseteq touched
      /\ Stops(request) => touched = 1..k /\ results = After(0, k)
  BY <1>2 DEF Progress
<1>4. k + 1 \in Nat /\ 1..(k + 1) = (1..k) \union {k + 1}
  BY <1>2
<1>5. CASE /\ Suits(request, k + 1)
           /\ touched' = touched \union {k + 1} /\ results' = Append(results, k + 1)
           /\ todo' = Tail(todo) /\ UNCHANGED <<stage, code>>
  <2>1. results' \in Seq(Nat) /\ ToSet(results') = ToSet(results) \union {k + 1}
    BY <1>3, <1>4, <1>5, AppendRange
  <2>2. touched' \subseteq 1..(k + 1) /\ ToSet(results') \subseteq touched'
    BY <1>3, <1>4, <1>5, <2>1
  <2>3. Stops(request) => touched' = 1..(k + 1) /\ results' = After(0, k + 1)
    BY <1>3, <1>4, <1>5, AfterGrows
  <2>4. Progress(k + 1)'
    BY <1>1, <1>2, <1>5, <2>1, <2>2, <2>3 DEF Progress
  <2> QED BY <1>1, <1>2, <1>5, <2>4, Advances
<1>6. ASSUME NEW c \in {1, 6}, Fails(c), touched' \in {touched, touched \union {k + 1}},
             c = 1 => touched' = touched /\ ~Suits(request, k + 1)
      PROVE  RequestInv'
  <2>1. CASE Stops(request)
    BY <1>1, <1>2, <1>6, <2>1, Ends DEF Fails
  <2>2. CASE ~Stops(request)
    <3>1. todo' = Tail(todo) /\ UNCHANGED <<stage, code, results>>
      BY <1>6, <2>2 DEF Fails
    <3>2. touched' \subseteq 1..(k + 1) /\ ToSet(results) \subseteq touched'
      BY <1>3, <1>4, <1>6
    <3>3. Progress(k + 1)'
      BY <1>1, <1>2, <1>3, <2>2, <3>1, <3>2 DEF Progress
    <3> QED BY <1>1, <1>2, <3>1, <3>3, Advances
  <2> QED BY <2>1, <2>2
<1> QED BY <1>2, <1>5, <1>6 DEF Serve

LEMMA FinishKeeps == ASSUME RequestInv, Finish PROVE RequestInv'
<1>1. /\ stage = "serving" /\ todo = <<>> /\ UNCHANGED <<request, sender, touched, results>>
      /\ stage' = "answered" /\ code' = 0 /\ todo' = <<>>
  BY DEF Finish, Answer
<1>2. request \in Asked /\ sender \in {"client", "other"} /\ Admitted(request)
  BY <1>1 DEF RequestInv, ServingSound
<1>3. /\ Count(request) \in Nat /\ Count(request) <= MaxItems + Found
      /\ MaxItems \in Nat /\ Found \in Nat /\ Items(request) = After(0, Count(request))
  BY <1>2, AdmittedIsBounded, ItemsAreInOrder, AssumedRequests
<1>4. PICK k \in 0..Count(request) : Progress(k)
  BY <1>1 DEF RequestInv, ServingSound
<1>5. k = Count(request)
  BY <1>1, <1>3, <1>4, AfterIs DEF Progress
<1>6. /\ touched \subseteq 1..Count(request) /\ ToSet(results) \subseteq touched
      /\ Stops(request) => touched = 1..Count(request) /\ results = Items(request)
  BY <1>3, <1>4, <1>5 DEF Progress
<1>7. AnsweredSound'
  BY <1>1, <1>3, <1>6 DEF AnsweredSound
<1>8. AnswerIsHonest'
  <2>1. ToSet(Items(request)) = 1..Count(request)
    BY <1>3, AfterRange
  <2>2. Stops(request) => \A i \in touched : \A j \in 1..i - 1 : j \in ToSet(results)
    BY <1>3, <1>6, <2>1
  <2> QED BY <1>1, <1>6, <2>2 DEF AnswerIsHonest, Stops
<1>9. VerdictsAgree'
  BY <1>1 DEF VerdictsAgree
<1> QED BY <1>1, <1>2, <1>7, <1>8, <1>9 DEF RequestInv, Stages, BeforeSound, RefusedSound, ServingSound

LEMMA RequestInvariant == RequestSpec => []RequestInv
<1>1. RequestInv /\ UNCHANGED requestVars => RequestInv'
  BY DEF RequestInv, Stages, BeforeSound, RefusedSound, ServingSound, AnsweredSound, Progress,
         Unserved, AnswerIsHonest, VerdictsAgree, requestVars
<1>2. RequestInv /\ [RequestNext]_requestVars => RequestInv'
  BY <1>1, SendKeeps, ReceiveKeeps, ServeKeeps, FinishKeeps DEF RequestNext
<1> QED BY RequestStarts, <1>2, PTL DEF RequestSpec

(* Whatever is asked, by the client or by any other program: exit code 0 of a request that stops at
   its first failure means that all of it was done in its order, a refusal that nothing was, and
   what was done when it failed is the beginning of what was asked (handler.rs). *)
THEOREM AnswersAreHonest == RequestSpec => []AnswerIsHonest
<1>1. RequestInv => AnswerIsHonest
  BY DEF RequestInv
<1> QED BY <1>1, RequestInvariant, PTL

(* The checks of the client and those of the host refuse the same requests, but for what only one
   of them can know or checks (validation.rs, validate_* of the host). *)
THEOREM VerdictsAlwaysAgree == RequestSpec => []VerdictsAgree
<1>1. RequestInv => VerdictsAgree
  BY DEF RequestInv
<1> QED BY <1>1, RequestInvariant, PTL

(* The request's progress stays in its type: nothing is served twice, and it has an exit code
   exactly when it is answered or refused. *)
THEOREM RequestTypesHold == RequestSpec => []RequestTypeOK
<1>1. RequestInv => RequestTypeOK
  <2> SUFFICES ASSUME RequestInv PROVE RequestTypeOK
    OBVIOUS
  <2>1. request \in Asked /\ sender \in {"client", "other"} /\ stage \in Stages
    BY DEF RequestInv
  <2>2. NotGiven \notin {0, 1, 2, 6, 7} /\ MaxItems \in Nat /\ Found \in Nat
    BY AssumedRequests
  <2>3. CASE stage \in {"made", "sent", "refused"}
    BY <2>1, <2>2, <2>3 DEF RequestInv, BeforeSound, RefusedSound, Unserved, RequestTypeOK, ToSet
  <2>4. CASE stage = "answered"
    BY <2>1, <2>2, <2>4 DEF RequestInv, AnsweredSound, RequestTypeOK, ToSet
  <2>5. CASE stage = "serving"
    <3>1. Admitted(request) /\ code = NotGiven
      BY <2>5 DEF RequestInv, ServingSound
    <3>2. Count(request) \in Nat /\ Count(request) <= MaxItems + Found
      BY <2>1, <3>1, AdmittedIsBounded
    <3>3. PICK k \in 0..Count(request) : Progress(k)
      BY <2>5 DEF RequestInv, ServingSound
    <3>4. touched \subseteq 1..k /\ ToSet(results) \subseteq touched /\ todo = After(k, Count(request))
      BY <3>3 DEF Progress
    <3>5. touched \subseteq 1..(MaxItems + Found)
      BY <2>2, <3>2, <3>4
    <3>6. \A i \in DOMAIN After(k, Count(request)) : After(k, Count(request))[i] \notin 1..k
      BY <3>2 DEF After
    <3>7. ToSet(todo) \intersect ToSet(results) = {}
      BY <3>4, <3>6 DEF ToSet
    <3> QED BY <2>1, <2>5, <3>1, <3>4, <3>5, <3>7 DEF RequestTypeOK
  <2> QED BY <2>1, <2>3, <2>4, <2>5 DEF Stages
<1> QED BY <1>1, RequestInvariant, PTL

-----------------------------------------------------------------------------
(* Layouts: the inductive invariant *)

AnyEntry == Entries(Tags \union Ids)
NormalSources == {s \in Sources : Normal[s] = s}
TrimmedDescs == {d \in Tags \union Ids \union {Unset} : Trimmed[d] = d}
WindowRecord == [source : NormalSources, url : NormalSources, desc : TrimmedDescs, geo : Geometries \union {Unset}]
Desks == UNION {[open -> WindowRecord] : open \in SUBSET Ids}
JobType ==
  [at : {"idle", "entries"}, batch : BOOLEAN, doc : Seq(AnyEntry), prune : BOOLEAN, list : Desks,
   of : Seq(Ids), created : SUBSET Ids, looked : SUBSET Ids, failed : BOOLEAN, calm : BOOLEAN]
SettledType == [doc : Seq(AnyEntry), of : Seq(Ids), distinct : BOOLEAN, batch : BOOLEAN]

LayoutTypes ==
  /\ desk \in Desks /\ unused \subseteq Ids \ Open /\ IsFiniteSet(Open)
  /\ jobs \in [Appliers -> JobType] /\ since \in [Appliers -> SUBSET Ids]
  /\ settled \in SettledType /\ Len(settled.of) = Len(settled.doc)

\* What was listed at the start was there before anything that was opened since, and an entry that
\* opened a window has it for itself.
JobSound(c) ==
  LET job == jobs[c] IN
  /\ Len(job.of) <= Len(job.doc)
  /\ DOMAIN job.list \intersect (unused \union since[c] \union job.created) = {}
  /\ \A i \in DOMAIN job.of : job.of[i] \notin unused
  /\ \A i, j \in DOMAIN job.of : job.of[i] = job.of[j] /\ job.of[i] \in job.created => i = j

\* What an applier has opened while nothing else happened is as its entries ask.
Intended(job, e) == IF job.batch THEN BatchDescription(e) ELSE Description(e)
CalmSound(c) ==
  LET job == jobs[c] IN
  job.at = "entries" /\ job.calm =>
    /\ Alone(c)
    /\ \A i \in DOMAIN job.of : job.of[i] \in job.created =>
         LET w == job.of[i]  e == job.doc[i] IN
         /\ w \in Open /\ desk[w].url = Normal[e.source] /\ desk[w].geo = e.geo
         /\ desk[w].desc = Trimmed[Intended(job, e)]

\* A list of windows that has the settled layout s in it, each entry's window apart from the others,
\* whether or not it has its entry's description.
AsAsked(window, e) == (e.desc = Unset \/ window.desc = Trimmed[e.desc]) /\ e.geo \in {Unset, window.geo}
Retagged(list, s, j) == [list[s.of[j]] EXCEPT !.desc = Trimmed[s.doc[j].desc]]
LaysOut(list, s) ==
  \A i \in DOMAIN s.of :
    LET w == s.of[i]  e == s.doc[i] IN
    /\ w \in DOMAIN list /\ list[w].url = Normal[e.source]
    /\ ~s.batch => AsAsked(list[w], e)
    /\ \A v \in DOMAIN list : Matching(v, list[v], e) <=> v = w
    /\ \A j \in DOMAIN s.of :
         s.doc[j].desc # Unset => (Matching(s.of[j], Retagged(list, s, j), e) <=> i = j)

\* What an applier does to a settled layout: it goes through its windows.
Follows(c) ==
  LET job == jobs[c] IN
  job.at = "entries" =>
    /\ ~job.batch /\ job.doc = settled.doc /\ LaysOut(job.list, settled)
    /\ \A i \in DOMAIN job.of : job.of[i] = settled.of[i]

Apart(s) == \A i, j \in DOMAIN s.of : i # j => s.of[i] # s.of[j]

SettledSound ==
  settled.distinct /\ settled # Unsettled =>
    LaysOut(desk, settled) /\ Apart(settled) /\ \A c \in Appliers : Follows(c)

Sound == LayoutTypes /\ \A c \in Appliers : JobSound(c)
Calm == \A c \in Appliers : CalmSound(c)
LayoutInv == Sound /\ Calm /\ SettledSound

LEMMA JobFields ==
  ASSUME NEW job \in JobType
  PROVE  /\ job.at \in {"idle", "entries"} /\ job.batch \in BOOLEAN /\ job.doc \in Seq(AnyEntry)
         /\ job.prune \in BOOLEAN /\ job.list \in Desks /\ job.of \in Seq(Ids)
         /\ job.created \in SUBSET Ids /\ job.looked \in SUBSET Ids
         /\ job.failed \in BOOLEAN /\ job.calm \in BOOLEAN
BY DEF JobType

\* The fields the invariant speaks of, but calm.
SameWork(j, k) ==
  /\ j.at = k.at /\ j.batch = k.batch /\ j.doc = k.doc /\ j.list = k.list
  /\ j.of = k.of /\ j.created = k.created

LEMMA JobDisturbed ==
  ASSUME NEW job \in JobType
  PROVE  LET next == [job EXCEPT !.calm = FALSE] IN
         next \in JobType /\ SameWork(next, job) /\ next.calm = FALSE
BY DEF JobType, SameWork

LEMMA NoDesk == <<>> \in Desks /\ DOMAIN <<>> = {}
<1>1. <<>> = [w \in {} |-> 0] /\ DOMAIN <<>> = {}
  OBVIOUS
<1>2. <<>> \in [{} -> WindowRecord]
  BY <1>1
<1> QED BY <1>1, <1>2 DEF Desks

LEMMA NoJobIs ==
  /\ NoJob \in JobType /\ NoJob.at = "idle" /\ NoJob.of = <<>> /\ NoJob.doc = <<>>
  /\ NoJob.list = <<>> /\ NoJob.created = {}
<1>1. <<>> \in Seq(AnyEntry) /\ <<>> \in Seq(Ids) /\ <<>> \in Desks
  BY NoDesk
<1> QED BY <1>1 DEF NoJob, JobType

LEMMA EmptyOf == <<>> \in Seq(Ids)
OBVIOUS

(* What happens to the desk. *)

LEMMA DeskIs ==
  ASSUME LayoutTypes
  PROVE  /\ desk = [v \in Open |-> desk[v]] /\ Open \subseteq Ids
         /\ \A v \in Open : desk[v] \in WindowRecord
BY DEF LayoutTypes, Desks, Open

LEMMA DeskOpens ==
  ASSUME LayoutTypes, NEW w, NEW window \in WindowRecord, Opened(w, window)
  PROVE  /\ w \in Ids /\ w \notin Open /\ w \in unused /\ unused' = unused \ {w}
         /\ desk' \in Desks /\ Open' = Open \union {w} /\ IsFiniteSet(Open')
         /\ desk'[w] = window /\ \A v \in Open : desk'[v] = desk[v]
         /\ unused' \subseteq Ids \ Open'
<1>1. /\ w \in unused /\ unused' = unused \ {w} /\ unused \subseteq Ids \ Open /\ IsFiniteSet(Open)
      /\ desk' = [v \in Open \union {w} |-> IF v = w THEN window ELSE desk[v]]
  BY DEF Opened, LayoutTypes
<1>2. Open' = Open \union {w} /\ w \in Ids /\ w \notin Open
  BY <1>1 DEF Open
<1>3. desk'[w] = window /\ \A v \in Open : desk'[v] = desk[v]
  BY <1>1, <1>2
<1>4. \A v \in Open' : desk'[v] \in WindowRecord
  BY <1>2, <1>3, DeskIs
<1>5. desk' = [v \in Open' |-> desk'[v]] /\ Open' \in SUBSET Ids
  BY <1>1, <1>2, DeskIs
<1>6. desk' \in Desks
  BY <1>4, <1>5 DEF Desks
<1>7. IsFiniteSet(Open')
  BY <1>1, <1>2, FS_AddElement
<1> QED BY <1>1, <1>2, <1>3, <1>6, <1>7

LEMMA DeskCloses ==
  ASSUME LayoutTypes, NEW w, Closed(w)
  PROVE  /\ desk' \in Desks /\ Open' = Open \ {w} /\ IsFiniteSet(Open')
         /\ \A v \in Open' : desk'[v] = desk[v]
<1>1. desk' = [v \in Open \ {w} |-> desk[v]] /\ IsFiniteSet(Open)
  BY DEF Closed, LayoutTypes
<1>2. Open' = Open \ {w}
  BY <1>1 DEF Open
<1>3. \A v \in Open' : desk'[v] = desk[v]
  BY <1>1, <1>2
<1>4. desk' \in Desks
  <2>1. \A v \in Open' : desk'[v] \in WindowRecord
    BY <1>2, <1>3, DeskIs
  <2>2. desk' = [v \in Open' |-> desk'[v]] /\ Open' \in SUBSET Ids
    BY <1>1, <1>2, DeskIs
  <2> QED BY <2>1, <2>2 DEF Desks
<1>5. IsFiniteSet(Open')
  BY <1>1, <1>2, FS_RemoveElement
<1> QED BY <1>2, <1>3, <1>4, <1>5

\* A window of the desk becomes another record.
Becomes(w, window) == desk' = [v \in Open |-> IF v = w THEN window ELSE desk[v]]

LEMMA DeskChanges ==
  ASSUME LayoutTypes, NEW w \in Open, NEW window \in WindowRecord, Becomes(w, window)
  PROVE  /\ desk' \in Desks /\ Open' = Open /\ desk'[w] = window
         /\ \A v \in Open \ {w} : desk'[v] = desk[v]
<1>1. Open' = Open
  BY DEF Becomes, Open
<1>2. desk'[w] = window /\ \A v \in Open \ {w} : desk'[v] = desk[v]
  BY DEF Becomes
<1>3. desk' \in Desks
  <2>1. \A v \in Open : desk'[v] \in WindowRecord
    BY <1>2, DeskIs
  <2>2. desk' = [v \in Open |-> desk'[v]] /\ Open \in SUBSET Ids
    BY DeskIs DEF Becomes
  <2> QED BY <2>1, <2>2 DEF Desks
<1> QED BY <1>1, <1>2, <1>3

LEMMA RecordChanges ==
  ASSUME NEW r \in WindowRecord
  PROVE  /\ r.source \in Sources /\ r.url \in Sources
         /\ r.desc \in Tags \union Ids \union {Unset} /\ r.desc \in TrimmedDescs
         /\ r.geo \in Geometries \union {Unset}
         /\ \A s \in NormalSources : [r EXCEPT !.url = s] \in WindowRecord
         /\ \A d \in TrimmedDescs : [r EXCEPT !.desc = d] \in WindowRecord
BY DEF WindowRecord, NormalSources, TrimmedDescs

(* What an open or a tag records of what is asked. *)
LEMMA RecordedIs ==
  /\ \A s \in Sources : Normal[s] \in NormalSources
  /\ \A s \in Range(Normal) : s \in NormalSources
  /\ \A d \in Tags \union Ids \union {Unset} : Trimmed[d] \in TrimmedDescs
<1>1. \A s \in Sources : Normal[s] \in NormalSources
  BY ApplyAssumption DEF NormalSources
<1>2. \A s \in Range(Normal) : s \in NormalSources
  BY <1>1, ApplyAssumption DEF Range
<1>3. \A d \in Tags \union Ids \union {Unset} : Trimmed[Trimmed[d]] = Trimmed[d]
  BY ApplyAssumption
<1>4. \A d \in Tags \union Ids \union {Unset} : Trimmed[d] \in Tags \union Ids \union {Unset}
  BY ApplyAssumption
<1> QED BY <1>1, <1>2, <1>3, <1>4 DEF TrimmedDescs

(* What happens to the jobs. *)

LEMMA Appending ==
  ASSUME NEW S, NEW s \in Seq(S), NEW e \in S
  PROVE  /\ DOMAIN s = 1..Len(s) /\ Len(s) \in Nat /\ Len(s) + 1 \notin DOMAIN s
         /\ DOMAIN Append(s, e) = DOMAIN s \union {Len(s) + 1} /\ Len(Append(s, e)) = Len(s) + 1
         /\ Append(s, e)[Len(s) + 1] = e /\ \A i \in DOMAIN s : Append(s, e)[i] = s[i]
<1>1. DOMAIN s = 1..Len(s) /\ Len(s) \in Nat
  OBVIOUS
<1>2. Append(s, e) \in Seq(S) /\ Len(Append(s, e)) = Len(s) + 1
  OBVIOUS
<1>3. DOMAIN Append(s, e) = DOMAIN s \union {Len(s) + 1}
  BY <1>1, <1>2
<1>4. Append(s, e)[Len(s) + 1] = e /\ \A i \in DOMAIN s : Append(s, e)[i] = s[i]
  BY <1>1
<1> QED BY <1>1, <1>2, <1>3, <1>4

LEMMA Becoming ==
  ASSUME LayoutTypes, NEW c \in Appliers, NEW job \in JobType, Become(c, job)
  PROVE  /\ jobs' \in [Appliers -> JobType] /\ jobs'[c] = job
         /\ \A d \in Appliers \ {c} : jobs'[d] = jobs[d]
BY DEF Become, LayoutTypes

LEMMA Disturbing ==
  ASSUME LayoutTypes, jobs' = Disturbed
  PROVE  /\ jobs' \in [Appliers -> JobType]
         /\ \A d \in Appliers : SameWork(jobs'[d], jobs[d]) /\ jobs'[d].calm = FALSE
<1>1. \A d \in Appliers : jobs[d] \in JobType
  BY DEF LayoutTypes
<1>2. \A d \in Appliers : jobs'[d] = [jobs[d] EXCEPT !.calm = FALSE]
  BY DEF Disturbed
<1>3. \A d \in Appliers : jobs'[d] \in JobType /\ SameWork(jobs'[d], jobs[d]) /\ jobs'[d].calm = FALSE
  BY <1>1, <1>2, JobDisturbed
<1> QED BY <1>3 DEF Disturbed

LEMMA Starting ==
  ASSUME LayoutTypes, NEW c \in Appliers, NEW job \in JobType, jobs' = [Disturbed EXCEPT ![c] = job]
  PROVE  /\ jobs' \in [Appliers -> JobType] /\ jobs'[c] = job
         /\ \A d \in Appliers \ {c} : SameWork(jobs'[d], jobs[d]) /\ jobs'[d].calm = FALSE
<1>1. \A d \in Appliers : jobs[d] \in JobType
  BY DEF LayoutTypes
<1>2. \A d \in Appliers \ {c} : jobs'[d] = [jobs[d] EXCEPT !.calm = FALSE]
  BY DEF Disturbed
<1>3. \A d \in Appliers \ {c} : jobs'[d] \in JobType /\ SameWork(jobs'[d], jobs[d]) /\ jobs'[d].calm = FALSE
  BY <1>1, <1>2, JobDisturbed
<1>4. jobs'[c] = job
  BY DEF Disturbed
<1> QED BY <1>3, <1>4 DEF Disturbed

LEMMA SoundStays ==
  ASSUME LayoutTypes, NEW d \in Appliers, JobSound(d), SameWork(jobs'[d], jobs[d]),
         unused' \subseteq unused, since'[d] \subseteq since[d] \union unused
  PROVE  JobSound(d)'
BY DEF JobSound, SameWork

LEMMA SoundAnew ==
  ASSUME NEW d \in Appliers, jobs'[d].of = <<>>, jobs'[d].doc \in Seq(AnyEntry), jobs'[d].created = {},
         DOMAIN jobs'[d].list \intersect (unused' \union since'[d]) = {}
  PROVE  JobSound(d)'
BY DEF JobSound

LEMMA SameIsSame == \A job : SameWork(job, job)
BY DEF SameWork

LEMMA UnsettledIs ==
  /\ Unsettled \in SettledType /\ Len(Unsettled.of) = Len(Unsettled.doc)
  /\ Unsettled.doc = <<>> /\ Unsettled.of = <<>>
<1>1. <<>> \in Seq(AnyEntry) /\ <<>> \in Seq(Ids)
  OBVIOUS
<1> QED BY <1>1 DEF Unsettled, SettledType

LEMMA SettledFields ==
  ASSUME NEW s \in SettledType
  PROVE  s.doc \in Seq(AnyEntry) /\ s.of \in Seq(Ids) /\ s.distinct \in BOOLEAN /\ s.batch \in BOOLEAN
BY DEF SettledType

LEMMA DocumentsAre == Documents \subseteq Seq(AnyEntry)
<1>1. Entries(Tags) \subseteq AnyEntry
  BY DEF Entries, AnyEntry
<1> QED BY <1>1, ApplyAssumption

LEMMA EntryIs ==
  ASSUME NEW e \in AnyEntry
  PROVE  /\ e.source \in Sources /\ e.name \in Tags \union Ids \union {Unset}
         /\ e.desc \in Tags \union Ids \union {Unset} /\ e.geo \in Geometries \union {Unset}
BY DEF AnyEntry, Entries

(* The entry that a job is at. *)
LEMMA Working ==
  ASSUME LayoutTypes, NEW c \in Appliers, JobSound(c), Pending(jobs[c])
  PROVE  /\ jobs[c] \in JobType /\ jobs[c].at = "entries"
         /\ Entry(jobs[c]) \in AnyEntry /\ Len(jobs[c].of) + 1 \in DOMAIN jobs[c].doc
         /\ Len(jobs[c].of) + 1 <= Len(jobs[c].doc)
<1>1. /\ jobs[c] \in JobType /\ jobs[c].at = "entries"
      /\ Len(jobs[c].of) # Len(jobs[c].doc) /\ Len(jobs[c].of) <= Len(jobs[c].doc)
  BY DEF LayoutTypes, JobSound, Pending, AllServed
<1>2. jobs[c].doc \in Seq(AnyEntry) /\ Len(jobs[c].of) \in Nat /\ Len(jobs[c].doc) \in Nat
  BY <1>1, JobFields
<1>3. Len(jobs[c].of) + 1 \in 1..Len(jobs[c].doc)
  BY <1>1, <1>2
<1> QED BY <1>1, <1>2, <1>3 DEF Entry

(* Every step keeps the types, and what was listed apart from what was opened since. *)

LEMMA OthersSound ==
  ASSUME Sound, NEW w \in Ids, OtherOpens(w) \/ OtherCloses(w) \/ OtherChanges(w)
  PROVE  Sound'
<1>1. LayoutTypes /\ \A d \in Appliers : JobSound(d)
  BY DEF Sound
<1>2. settled' = Unsettled /\ jobs' = Disturbed
  BY DEF OtherOpens, OtherCloses, OtherChanges, Other
<1>3. jobs' \in [Appliers -> JobType] /\ \A d \in Appliers : SameWork(jobs'[d], jobs[d])
  BY <1>1, <1>2, Disturbing
<1>4. /\ desk' \in Desks /\ unused' \subseteq Ids \ Open' /\ IsFiniteSet(Open')
      /\ unused' \subseteq unused /\ since' \in [Appliers -> SUBSET Ids]
      /\ \A d \in Appliers : since'[d] \subseteq since[d] \union unused
  <2>1. CASE OtherOpens(w)
    <3>1. PICK s \in Range(Normal), d \in OtherTags \union {Unset} :
            Opened(w, [source |-> s, url |-> s, desc |-> Trimmed[d], geo |-> Unset])
      BY <2>1 DEF OtherOpens
    <3>2. s \in NormalSources /\ Trimmed[d] \in TrimmedDescs
      BY RecordedIs, ApplyAssumption
    <3>4. [source |-> s, url |-> s, desc |-> Trimmed[d], geo |-> Unset] \in WindowRecord
      BY <3>2 DEF WindowRecord
    <3>3. since' = [c \in Appliers |-> since[c] \union {w}] /\ since \in [Appliers -> SUBSET Ids]
      BY <1>1, <2>1 DEF OtherOpens, LayoutTypes
    <3> QED BY <1>1, <3>1, <3>3, <3>4, DeskOpens
  <2>2. CASE OtherCloses(w)
    BY <1>1, <2>2, DeskCloses DEF OtherCloses, LayoutTypes
  <2>3. CASE OtherChanges(w)
    <3>1. w \in Open /\ UNCHANGED <<unused, since>> /\ desk[w] \in WindowRecord
      BY <1>1, <2>3, DeskIs DEF OtherChanges
    <3>2. desk' \in Desks /\ Open' = Open
      <4>1. CASE \E s \in Range(Normal) : desk' = [desk EXCEPT ![w].url = s]
        <5>1. PICK s \in Range(Normal) : desk' = [desk EXCEPT ![w].url = s]
          BY <4>1
        <5>2. [desk[w] EXCEPT !.url = s] \in WindowRecord
          BY <3>1, RecordChanges, RecordedIs
        <5>3. Becomes(w, [desk[w] EXCEPT !.url = s])
          BY <1>1, <3>1, <5>1, DeskIs DEF Becomes
        <5> QED BY <1>1, <3>1, <5>2, <5>3, DeskChanges
      <4>2. CASE \E d \in OtherTags : desk' = [desk EXCEPT ![w].desc = Trimmed[d]]
        <5>1. PICK d \in OtherTags : desk' = [desk EXCEPT ![w].desc = Trimmed[d]]
          BY <4>2
        <5>2. [desk[w] EXCEPT !.desc = Trimmed[d]] \in WindowRecord
          BY <3>1, RecordChanges, RecordedIs, ApplyAssumption
        <5>3. Becomes(w, [desk[w] EXCEPT !.desc = Trimmed[d]])
          BY <1>1, <3>1, <5>1, DeskIs DEF Becomes
        <5> QED BY <1>1, <3>1, <5>2, <5>3, DeskChanges
      <4> QED BY <2>3, <4>1, <4>2 DEF OtherChanges
    <3> QED BY <1>1, <3>1, <3>2 DEF LayoutTypes
  <2> QED BY <2>1, <2>2, <2>3
<1>5. LayoutTypes'
  BY <1>2, <1>3, <1>4, UnsettledIs DEF LayoutTypes
<1>6. \A d \in Appliers : JobSound(d)'
  BY <1>1, <1>3, <1>4, SoundStays
<1> QED BY <1>5, <1>6 DEF Sound

LEMMA StartIs ==
  ASSUME Sound, NEW c \in Appliers, Start(c)
  PROVE  \E doc \in Documents \union {settled.doc}, prune \in BOOLEAN, job \in JobType :
           /\ job.of = <<>> /\ job.created = {} /\ job.doc = doc /\ job.list = desk /\ ~job.batch
           /\ job.calm = Alone(c) /\ job.at = "entries"
           /\ jobs' = [Disturbed EXCEPT ![c] = job]
           /\ settled' = IF doc = settled.doc THEN settled ELSE Unsettled
<1>1. PICK doc \in Documents \union {settled.doc}, prune \in BOOLEAN :
        /\ jobs' = [Disturbed EXCEPT ![c] =
             [NoJob EXCEPT !.at = "entries", !.doc = doc, !.prune = prune, !.list = desk, !.calm = Alone(c)]]
        /\ settled' = IF doc = settled.doc THEN settled ELSE Unsettled
  BY DEF Start
<1>2. doc \in Seq(AnyEntry) /\ desk \in Desks /\ Alone(c) \in BOOLEAN
  BY DocumentsAre, SettledFields DEF Sound, LayoutTypes, Alone
<1> DEFINE calm == Alone(c)
<1> DEFINE job == [NoJob EXCEPT !.at = "entries", !.doc = doc, !.prune = prune, !.list = desk, !.calm = calm]
<1>3. calm \in BOOLEAN
  BY <1>2
<1> HIDE DEF calm
<1>4. /\ job \in JobType /\ job.of = <<>> /\ job.created = {} /\ job.doc = doc
      /\ job.list = desk /\ job.batch = FALSE /\ job.calm = calm /\ job.at = "entries"
  BY <1>2, <1>3, EmptyOf DEF NoJob, JobType
<1>5. jobs' = [Disturbed EXCEPT ![c] = job]
  BY <1>1 DEF calm
<1> HIDE DEF job
<1>6. job.calm = Alone(c)
  BY <1>4 DEF calm
<1> QED BY <1>1, <1>4, <1>5, <1>6

LEMMA StartSound == ASSUME Sound, NEW c \in Appliers, Start(c) PROVE Sound'
<1>1. LayoutTypes /\ \A d \in Appliers : JobSound(d)
  BY DEF Sound
<1>2. PICK doc \in Documents \union {settled.doc}, job \in JobType :
        /\ job.of = <<>> /\ job.created = {} /\ job.doc = doc /\ job.list = desk
        /\ jobs' = [Disturbed EXCEPT ![c] = job]
        /\ settled' = IF doc = settled.doc THEN settled ELSE Unsettled
  BY StartIs
<1>3. /\ jobs' \in [Appliers -> JobType] /\ jobs'[c] = job
      /\ \A d \in Appliers \ {c} : SameWork(jobs'[d], jobs[d])
  BY <1>1, <1>2, Starting
<1>4. UNCHANGED <<desk, unused>> /\ since' = [since EXCEPT ![c] = {}] /\ since \in [Appliers -> SUBSET Ids]
  BY <1>1 DEF Start, LayoutTypes
<1>5. LayoutTypes'
  <2>1. settled' \in SettledType /\ Len(settled'.of) = Len(settled'.doc)
    BY <1>1, <1>2, UnsettledIs DEF LayoutTypes
  <2> QED BY <1>1, <1>3, <1>4, <2>1 DEF LayoutTypes, Open
<1>6. \A d \in Appliers \ {c} : JobSound(d)'
  BY <1>1, <1>3, <1>4, SoundStays
<1>7. JobSound(c)'
  <2>1. jobs'[c].doc \in Seq(AnyEntry)
    BY <1>2, <1>3, JobFields
  <2>2. DOMAIN jobs'[c].list \intersect (unused' \union since'[c]) = {}
    BY <1>1, <1>2, <1>3, <1>4 DEF LayoutTypes, Open
  <2> QED BY <1>2, <1>3, <2>1, <2>2, SoundAnew
<1> QED BY <1>5, <1>6, <1>7 DEF Sound

LEMMA StartBatchSound == ASSUME Sound, NEW c \in Appliers, StartBatch(c) PROVE Sound'
<1>1. LayoutTypes /\ \A d \in Appliers : JobSound(d)
  BY DEF Sound
<1>2. PICK doc \in Documents \ {<<>>} :
        jobs' = [Disturbed EXCEPT ![c] =
          [NoJob EXCEPT !.at = "entries", !.batch = TRUE, !.doc = doc, !.calm = Alone(c)]]
  BY DEF StartBatch
<1> DEFINE calm == Alone(c)
<1> DEFINE job == [NoJob EXCEPT !.at = "entries", !.batch = TRUE, !.doc = doc, !.calm = calm]
<1>3. calm \in BOOLEAN /\ doc \in Seq(AnyEntry)
  BY DocumentsAre DEF Alone
<1>4. jobs' = [Disturbed EXCEPT ![c] = job]
  BY <1>2
<1> HIDE DEF calm
<1>5. job \in JobType /\ job.of = <<>> /\ job.created = {} /\ job.doc = doc /\ job.list = <<>>
  BY <1>3, EmptyOf, NoDesk DEF NoJob, JobType
<1> HIDE DEF job
<1>6. /\ jobs' \in [Appliers -> JobType] /\ jobs'[c] = job
      /\ \A d \in Appliers \ {c} : SameWork(jobs'[d], jobs[d])
  BY <1>1, <1>4, <1>5, Starting
<1>7. /\ UNCHANGED <<desk, unused>> /\ since' = [since EXCEPT ![c] = {}] /\ since \in [Appliers -> SUBSET Ids]
      /\ settled' = Unsettled
  BY <1>1 DEF StartBatch, LayoutTypes
<1>8. LayoutTypes'
  BY <1>1, <1>6, <1>7, UnsettledIs DEF LayoutTypes, Open
<1>9. \A d \in Appliers \ {c} : JobSound(d)'
  BY <1>1, <1>6, <1>7, SoundStays
<1>10. JobSound(c)'
  BY <1>3, <1>5, <1>6, NoDesk, SoundAnew
<1> QED BY <1>8, <1>9, <1>10 DEF Sound

(* What Update does: the next entry takes a listed window, which may become as the entry asks. *)
LEMMA UpdateIs ==
  ASSUME Sound, NEW c \in Appliers, Update(c)
  PROVE  \E w \in First(jobs[c].list, Entry(jobs[c])), job \in JobType :
           /\ Become(c, job) /\ job.of = Append(jobs[c].of, w) /\ job.created = jobs[c].created
           /\ job.at = jobs[c].at /\ job.batch = jobs[c].batch /\ job.doc = jobs[c].doc
           /\ job.list = jobs[c].list /\ job.calm = jobs[c].calm
           /\ w \in Ids /\ w \in DOMAIN jobs[c].list
           /\ desk' \in Desks /\ Open' = Open /\ \A v \in Open \ {w} : desk'[v] = desk[v]
           /\ w \in Open =>
                /\ desk'[w].url = desk[w].url /\ desk'[w].source = desk[w].source
                /\ \/ desk'[w].desc = desk[w].desc
                   \/ /\ Entry(jobs[c]).desc \notin {Unset, jobs[c].list[w].desc}
                      /\ desk'[w].desc = Trimmed[Entry(jobs[c]).desc]
                /\ desk'[w].geo \in {desk[w].geo} \union ({Entry(jobs[c]).geo} \ {Unset})
<1> DEFINE job == jobs[c]
<1> DEFINE e == Entry(job)
<1>1. LayoutTypes /\ JobSound(c) /\ Pending(job) /\ job \in JobType /\ e \in AnyEntry
  BY Working DEF Sound, Update
<1> DEFINE asked(w) == {step \in {"tag", "resize"} :
             IF step = "tag" THEN e.desc \notin {Unset, job.list[w].desc} ELSE e.geo # Unset}
<1>2. PICK w \in First(job.list, e), done \in SUBSET {"tag", "resize"} :
        /\ done \subseteq asked(w) /\ (done # {} => w \in Open)
        /\ Become(c, [job EXCEPT !.of = Append(@, w), !.failed = @ \/ done # asked(w)])
        /\ desk' = [v \in Open |->
             IF v # w THEN desk[v]
             ELSE [desk[v] EXCEPT !.desc = IF "tag" \in done THEN Trimmed[e.desc] ELSE @,
                                  !.geo = IF "resize" \in done THEN e.geo ELSE @]]
  BY DEF Update
<1>3. /\ "tag" \in done => e.desc \notin {Unset, job.list[w].desc}
      /\ "resize" \in done => e.geo # Unset
  BY <1>2
<1> DEFINE b == done # asked(w)
<1>4. b \in BOOLEAN /\ Become(c, [job EXCEPT !.of = Append(@, w), !.failed = @ \/ b])
  BY <1>2
<1> HIDE DEF asked, b
<1>5. w \in DOMAIN job.list /\ w \in Ids
  <2>1. w \in DOMAIN job.list
    BY <1>2 DEF First
  <2>2. job.list \in Desks
    BY <1>1, JobFields
  <2> QED BY <2>1, <2>2 DEF Desks
<1> DEFINE of == Append(job.of, w)
<1> DEFINE failed == job.failed \/ b
<1> DEFINE next == [job EXCEPT !.of = of, !.failed = failed]
<1>6. Become(c, next)
  BY <1>4
<1>7. of \in Seq(Ids) /\ failed \in BOOLEAN
  BY <1>1, <1>4, <1>5, JobFields
<1> HIDE DEF of, failed
<1>8. /\ next \in JobType /\ next.of = of
      /\ next.at = job.at /\ next.batch = job.batch /\ next.doc = job.doc /\ next.list = job.list
      /\ next.created = job.created /\ next.calm = job.calm
  BY <1>1, <1>7 DEF JobType
<1> HIDE DEF next
<1>9. /\ desk' \in Desks /\ Open' = Open /\ \A v \in Open \ {w} : desk'[v] = desk[v]
      /\ w \in Open =>
           /\ desk'[w].url = desk[w].url /\ desk'[w].source = desk[w].source
           /\ \/ desk'[w].desc = desk[w].desc
              \/ e.desc \notin {Unset, job.list[w].desc} /\ desk'[w].desc = Trimmed[e.desc]
           /\ desk'[w].geo \in {desk[w].geo} \union ({e.geo} \ {Unset})
  <2>1. CASE w \notin Open
    <3>1. desk' = [v \in Open |-> desk[v]]
      BY <1>2, <2>1
    <3>2. desk' = desk
      BY <1>1, <3>1, DeskIs
    <3> QED BY <1>1, <2>1, <3>2 DEF LayoutTypes, Open
  <2>2. CASE w \in Open
    <3> DEFINE d == IF "tag" \in done THEN Trimmed[e.desc] ELSE desk[w].desc
    <3> DEFINE g == IF "resize" \in done THEN e.geo ELSE desk[w].geo
    <3> DEFINE window == [desk[w] EXCEPT !.desc = d, !.geo = g]
    <3>1. desk[w] \in WindowRecord
      BY <1>1, <2>2, DeskIs
    <3>2. d \in TrimmedDescs /\ g \in Geometries \union {Unset}
      BY <1>1, <3>1, RecordChanges, RecordedIs, EntryIs
    <3>3. desk' = [v \in Open |-> IF v = w THEN window ELSE desk[v]]
      <4>1. desk' = [v \in Open |-> desk'[v]]
        BY <1>2
      <4>2. desk'[w] = window
        BY <1>2, <2>2
      <4>3. \A v \in Open \ {w} : desk'[v] = desk[v]
        BY <1>2
      <4> HIDE DEF window
      <4> QED BY <4>1, <4>2, <4>3
    <3>4. /\ \/ d = desk[w].desc
             \/ e.desc \notin {Unset, job.list[w].desc} /\ d = Trimmed[e.desc]
          /\ g \in {desk[w].geo} \union ({e.geo} \ {Unset})
      BY <1>3
    <3> HIDE DEF d, g
    <3>5. /\ window \in WindowRecord /\ window.source = desk[w].source /\ window.url = desk[w].url
          /\ window.desc = d /\ window.geo = g
      BY <3>1, <3>2 DEF WindowRecord
    <3>6. Becomes(w, window)
      BY <3>3 DEF Becomes
    <3> HIDE DEF window
    <3>7. desk' \in Desks /\ Open' = Open /\ desk'[w] = window /\ \A v \in Open \ {w} : desk'[v] = desk[v]
      BY <1>1, <2>2, <3>5, <3>6, DeskChanges
    <3> QED BY <3>4, <3>5, <3>7
  <2> QED BY <2>1, <2>2
<1> QED BY <1>2, <1>5, <1>6, <1>8, <1>9 DEF of

LEMMA UpdateSound == ASSUME Sound, NEW c \in Appliers, Update(c) PROVE Sound'
<1>1. LayoutTypes /\ (\A d \in Appliers : JobSound(d)) /\ Pending(jobs[c])
  BY DEF Sound, Update
<1>2. PICK w \in Ids, job \in JobType :
        /\ Become(c, job) /\ job.of = Append(jobs[c].of, w) /\ job.created = jobs[c].created
        /\ job.doc = jobs[c].doc /\ job.list = jobs[c].list /\ w \in DOMAIN jobs[c].list
        /\ desk' \in Desks /\ Open' = Open
  BY UpdateIs
<1>3. /\ jobs' \in [Appliers -> JobType] /\ jobs'[c] = job
      /\ \A d \in Appliers \ {c} : jobs'[d] = jobs[d]
  BY <1>1, <1>2, Becoming
<1>4. UNCHANGED <<unused, since, settled>>
  BY DEF Update
<1>5. LayoutTypes'
  BY <1>1, <1>2, <1>3, <1>4 DEF LayoutTypes
<1>6. \A d \in Appliers \ {c} : JobSound(d)'
  BY <1>1, <1>3, <1>4, SoundStays, SameIsSame
<1>7. JobSound(c)'
  <2>1. /\ jobs[c].of \in Seq(Ids) /\ jobs[c].doc \in Seq(AnyEntry) /\ JobSound(c)
        /\ Len(jobs[c].of) + 1 <= Len(jobs[c].doc)
    BY <1>1, Working, JobFields
  <2>2. Len(job.of) <= Len(job.doc)
    BY <1>2, <2>1, Appending
  <2>3. \A i \in DOMAIN job.of : job.of[i] \notin unused
    BY <1>2, <2>1, Appending DEF JobSound
  <2>4. \A i, j \in DOMAIN job.of : job.of[i] = job.of[j] /\ job.of[i] \in job.created => i = j
    BY <1>2, <2>1, Appending DEF JobSound
  <2> QED BY <1>2, <1>3, <1>4, <2>1, <2>2, <2>3, <2>4 DEF JobSound
<1> QED BY <1>5, <1>6, <1>7 DEF Sound

(* What Create does: the next entry has a window opened, as it asks. *)
LEMMA CreateIs ==
  ASSUME Sound, NEW c \in Appliers, Create(c)
  PROVE  \E w \in unused, job \in JobType :
           /\ Become(c, job) /\ job.of = Append(jobs[c].of, w)
           /\ job.created = jobs[c].created \union {w}
           /\ job.at = jobs[c].at /\ job.batch = jobs[c].batch /\ job.doc = jobs[c].doc
           /\ job.list = jobs[c].list /\ job.calm = jobs[c].calm
           /\ w \in Ids /\ w \notin Open /\ unused' = unused \ {w} /\ unused' \subseteq Ids \ Open'
           /\ desk' \in Desks /\ Open' = Open \union {w} /\ IsFiniteSet(Open')
           /\ \A v \in Open : desk'[v] = desk[v]
           /\ desk'[w].url = Normal[Entry(jobs[c]).source] /\ desk'[w].geo = Entry(jobs[c]).geo
           /\ desk'[w].desc = Trimmed[Intended(jobs[c], Entry(jobs[c]))]
           /\ since' = [d \in Appliers |-> since[d] \union {w}]
<1> DEFINE job == jobs[c]
<1> DEFINE e == Entry(job)
<1> DEFINE source == Normal[e.source]
<1> DEFINE desc == Trimmed[IF job.batch THEN BatchDescription(e) ELSE Description(e)]
<1> DEFINE window == [source |-> source, url |-> source, geo |-> e.geo, desc |-> desc]
<1>1. LayoutTypes /\ JobSound(c) /\ Pending(job) /\ job \in JobType /\ e \in AnyEntry
  BY Working DEF Sound, Create
<1>2. PICK w \in unused :
        /\ Opened(w, window)
        /\ Become(c, [job EXCEPT !.of = Append(@, w), !.created = @ \union {w}])
        /\ since' = [d \in Appliers |-> since[d] \union {w}]
  BY DEF Create
<1>3. desc \in TrimmedDescs /\ desc = Trimmed[Intended(job, e)] /\ source \in NormalSources
  <2>1. Intended(job, e) \in Tags \union Ids \union {Unset} /\ e.source \in Sources
    BY <1>1, EntryIs DEF BatchDescription, Description, Intended
  <2>2. desc = Trimmed[Intended(job, e)]
    BY DEF Intended
  <2> QED BY <2>1, <2>2, RecordedIs
<1>11. source = Normal[e.source]
  OBVIOUS
<1> HIDE DEF desc, source
<1>4. window \in WindowRecord
  BY <1>1, <1>3, EntryIs DEF WindowRecord
<1>5. window.url = source /\ window.geo = e.geo /\ window.desc = desc
  OBVIOUS
<1> HIDE DEF window
<1>6. /\ w \in Ids /\ w \notin Open /\ unused' = unused \ {w}
      /\ desk' \in Desks /\ Open' = Open \union {w} /\ IsFiniteSet(Open')
      /\ desk'[w] = window /\ (\A v \in Open : desk'[v] = desk[v])
      /\ unused' \subseteq Ids \ Open'
  BY <1>1, <1>2, <1>4, DeskOpens
<1> DEFINE of == Append(job.of, w)
<1> DEFINE created == job.created \union {w}
<1> DEFINE next == [job EXCEPT !.of = of, !.created = created]
<1>7. of \in Seq(Ids) /\ created \in SUBSET Ids
  BY <1>1, <1>6, JobFields
<1>8. Become(c, next)
  BY <1>2
<1> HIDE DEF of, created
<1>9. /\ next \in JobType /\ next.of = of /\ next.created = created
      /\ next.at = job.at /\ next.batch = job.batch /\ next.doc = job.doc /\ next.list = job.list
      /\ next.calm = job.calm
  BY <1>1, <1>7 DEF JobType
<1> HIDE DEF next
<1>10. next.of = Append(job.of, w) /\ next.created = job.created \union {w}
  BY <1>9 DEF of, created
<1> QED BY <1>2, <1>3, <1>5, <1>6, <1>8, <1>9, <1>10, <1>11

LEMMA CreateSound == ASSUME Sound, NEW c \in Appliers, Create(c) PROVE Sound'
<1>1. LayoutTypes /\ (\A d \in Appliers : JobSound(d)) /\ Pending(jobs[c])
  BY DEF Sound, Create
<1>2. PICK w \in unused, job \in JobType :
        /\ Become(c, job) /\ job.of = Append(jobs[c].of, w) /\ job.created = jobs[c].created \union {w}
        /\ job.doc = jobs[c].doc /\ job.list = jobs[c].list
        /\ w \in Ids /\ w \notin Open /\ unused' = unused \ {w} /\ unused' \subseteq Ids \ Open'
        /\ desk' \in Desks /\ Open' = Open \union {w} /\ IsFiniteSet(Open')
        /\ since' = [d \in Appliers |-> since[d] \union {w}]
  BY CreateIs
<1>3. /\ jobs' \in [Appliers -> JobType] /\ jobs'[c] = job
      /\ \A d \in Appliers \ {c} : jobs'[d] = jobs[d]
  BY <1>1, <1>2, Becoming
<1>4. settled' = settled /\ since \in [Appliers -> SUBSET Ids]
  BY <1>1 DEF Create, LayoutTypes
<1>5. LayoutTypes'
  BY <1>1, <1>2, <1>3, <1>4 DEF LayoutTypes
<1>6. \A d \in Appliers : since'[d] = since[d] \union {w}
  BY <1>2
<1>7. \A d \in Appliers \ {c} : JobSound(d)'
  BY <1>1, <1>2, <1>3, <1>6, SoundStays, SameIsSame
<1>8. JobSound(c)'
  <2>1. /\ jobs[c].of \in Seq(Ids) /\ jobs[c].doc \in Seq(AnyEntry) /\ JobSound(c)
        /\ Len(jobs[c].of) + 1 <= Len(jobs[c].doc)
    BY <1>1, Working, JobFields
  <2>2. Len(job.of) <= Len(job.doc)
    BY <1>2, <2>1, Appending
  <2>3. \A i \in DOMAIN job.of : job.of[i] \notin unused'
    BY <1>2, <2>1, Appending DEF JobSound
  <2>4. \A i, j \in DOMAIN job.of : job.of[i] = job.of[j] /\ job.of[i] \in job.created => i = j
    BY <1>2, <2>1, Appending DEF JobSound
  <2>5. DOMAIN job.list \intersect (unused' \union since'[c] \union job.created) = {}
    BY <1>2, <1>6, <2>1 DEF JobSound
  <2> QED BY <1>3, <2>2, <2>3, <2>4, <2>5 DEF JobSound
<1> QED BY <1>5, <1>7, <1>8 DEF Sound

(* An applier that is done, or gives up. *)
LEMMA EndSound ==
  ASSUME Sound, NEW c \in Appliers, Become(c, NoJob), UNCHANGED <<desk, unused, since>>,
         settled' \in SettledType, Len(settled'.of) = Len(settled'.doc)
  PROVE  /\ Sound' /\ jobs'[c] = NoJob /\ \A d \in Appliers \ {c} : jobs'[d] = jobs[d]
<1>1. LayoutTypes /\ \A d \in Appliers : JobSound(d)
  BY DEF Sound
<1>2. /\ jobs' \in [Appliers -> JobType] /\ jobs'[c] = NoJob
      /\ \A d \in Appliers \ {c} : jobs'[d] = jobs[d]
  BY <1>1, NoJobIs, Becoming
<1>3. LayoutTypes'
  BY <1>1, <1>2 DEF LayoutTypes, Open
<1>4. \A d \in Appliers \ {c} : JobSound(d)'
  BY <1>1, <1>2, SoundStays, SameIsSame
<1>5. JobSound(c)'
  <2>1. jobs'[c].doc \in Seq(AnyEntry) /\ jobs'[c].of = <<>> /\ jobs'[c].created = {}
    BY <1>2, NoJobIs, JobFields
  <2>2. DOMAIN jobs'[c].list = {}
    BY <1>2, NoJobIs, NoDesk
  <2> QED BY <2>1, <2>2, SoundAnew
<1> QED BY <1>2, <1>3, <1>4, <1>5 DEF Sound

LEMMA PruneIs ==
  ASSUME Sound, NEW c \in Appliers, Prune(c)
  PROVE  \E w \in Unclaimed(jobs[c]), job \in JobType :
           /\ Become(c, job) /\ SameWork(job, jobs[c]) /\ job.calm = jobs[c].calm
           /\ Closed(w) \/ UNCHANGED desk
<1>1. LayoutTypes /\ jobs[c] \in JobType
  BY DEF Sound, LayoutTypes
<1>2. PICK w \in Prunable(jobs[c]) :
        /\ Become(c, [jobs[c] EXCEPT !.looked = @ \union {w}])
        /\ Closed(w) \/ UNCHANGED desk
  BY DEF Prune
<1>3. w \in Unclaimed(jobs[c]) /\ w \in Ids
  <2>1. w \in Unclaimed(jobs[c]) /\ w \in DOMAIN jobs[c].list
    BY <1>2 DEF Prunable, Unclaimed
  <2>2. jobs[c].list \in Desks
    BY <1>1, JobFields
  <2> QED BY <2>1, <2>2 DEF Desks
<1> DEFINE looked == jobs[c].looked \union {w}
<1> DEFINE next == [jobs[c] EXCEPT !.looked = looked]
<1>4. Become(c, next) /\ looked \in SUBSET Ids
  BY <1>1, <1>2, <1>3, JobFields
<1> HIDE DEF looked
<1>5. next \in JobType /\ SameWork(next, jobs[c]) /\ next.calm = jobs[c].calm
  BY <1>1, <1>4 DEF JobType, SameWork
<1> HIDE DEF next
<1> QED BY <1>2, <1>3, <1>4, <1>5

LEMMA PruneSound == ASSUME Sound, NEW c \in Appliers, Prune(c) PROVE Sound'
<1>1. LayoutTypes /\ \A d \in Appliers : JobSound(d)
  BY DEF Sound
<1>2. PICK w \in Unclaimed(jobs[c]), job \in JobType :
        Become(c, job) /\ SameWork(job, jobs[c]) /\ (Closed(w) \/ UNCHANGED desk)
  BY PruneIs
<1>3. /\ jobs' \in [Appliers -> JobType] /\ jobs'[c] = job
      /\ \A d \in Appliers \ {c} : jobs'[d] = jobs[d]
  BY <1>1, <1>2, Becoming
<1>4. UNCHANGED <<unused, since, settled>>
  BY DEF Prune
<1>5. desk' \in Desks /\ Open' \subseteq Open /\ IsFiniteSet(Open')
  <2>1. CASE Closed(w)
    BY <1>1, <2>1, DeskCloses
  <2>2. CASE UNCHANGED desk
    BY <1>1, <2>2 DEF LayoutTypes, Open
  <2> QED BY <1>2, <2>1, <2>2
<1>6. LayoutTypes'
  BY <1>1, <1>3, <1>4, <1>5 DEF LayoutTypes
<1>7. \A d \in Appliers : JobSound(d)'
  BY <1>1, <1>2, <1>3, <1>4, SoundStays, SameIsSame
<1> QED BY <1>6, <1>7 DEF Sound

LEMMA SettleType ==
  ASSUME NEW doc \in Seq(AnyEntry), NEW of \in Seq(Ids), NEW batch \in BOOLEAN
  PROVE  LET s == Settle(doc, of, batch) IN
         /\ s \in SettledType /\ s.doc = doc /\ s.of = of /\ s.batch = batch
         /\ s.distinct = Distinct(doc, of)
<1>1. Distinct(doc, of) \in BOOLEAN
  BY DEF Distinct
<1> QED BY <1>1 DEF Settle, SettledType

LEMMA ReturnIs ==
  ASSUME Sound, NEW c \in Appliers, Return(c)
  PROVE  /\ jobs[c] \in JobType /\ jobs[c].at = "entries" /\ Len(jobs[c].of) = Len(jobs[c].doc)
         /\ jobs[c].doc \in Seq(AnyEntry) /\ jobs[c].of \in Seq(Ids) /\ jobs[c].batch \in BOOLEAN
         /\ Become(c, NoJob) /\ UNCHANGED <<desk, unused, since>>
         /\ \/ settled' = settled
            \/ /\ settled' = Settle(jobs[c].doc, jobs[c].of, jobs[c].batch)
               /\ jobs[c].calm /\ jobs[c].created = Range(jobs[c].of)
<1>1. jobs[c] \in JobType
  BY DEF Sound, LayoutTypes
<1> QED BY <1>1, JobFields DEF Return, AllServed

LEMMA ReturnSound == ASSUME Sound, NEW c \in Appliers, Return(c) PROVE Sound'
<1>1. settled' \in SettledType /\ Len(settled'.of) = Len(settled'.doc)
  BY ReturnIs, SettleType DEF Sound, LayoutTypes
<1> QED BY <1>1, ReturnIs, EndSound

LEMMA CreateFailsSound == ASSUME Sound, NEW c \in Appliers, CreateFails(c) PROVE Sound'
BY EndSound, UnsettledIs DEF CreateFails

LEMMA ExportIs ==
  ASSUME Sound, NEW c \in Appliers, Export(c)
  PROVE  \E doc \in Seq(AnyEntry), of \in Seq(Ids) :
           /\ Len(of) = Len(doc) /\ DOMAIN of = DOMAIN doc
           /\ settled' = Unsettled \/ (settled' = Settle(doc, of, FALSE) /\ Alone(c))
           /\ \A i \in DOMAIN of :
                /\ of[i] \in Open /\ desk[of[i]].url = Normal[doc[i].source]
                /\ AsAsked(desk[of[i]], doc[i])
           /\ \A i, j \in DOMAIN of : i # j => of[i] # of[j]
<1> DEFINE entry(w) == [name |-> w, source |-> desk[w].url, desc |-> desk[w].desc, geo |-> desk[w].geo]
<1>1. LayoutTypes
  BY DEF Sound
<1>2. PICK list \in [1..Cardinality(Open) -> Open] :
        /\ \A i, j \in DOMAIN list : i < j => list[i] < list[j]
        /\ settled' = IF Alone(c) THEN Settle([i \in DOMAIN list |-> entry(list[i])], list, FALSE) ELSE Unsettled
  BY DEF Export
<1> DEFINE n == Cardinality(Open)
<1>3. n \in Nat
  BY <1>1, FS_CardinalityType DEF LayoutTypes
<1>4. /\ \A i \in 1..n : list[i] \in Open /\ list[i] \in Ids /\ list[i] \in Nat
      /\ DOMAIN list = 1..n
  BY <1>1, <1>2, DeskIs, ApplyAssumption
<1> HIDE DEF n
<1>5. list \in Seq(Ids) /\ Len(list) = n
  <2>1. list \in [1..n -> Ids]
    BY <1>2, <1>4
  <2> QED BY <1>3, <2>1
<1> DEFINE doc == [i \in 1..n |-> entry(list[i])]
<1>6. \A w \in Open : entry(w) \in AnyEntry
  <2> SUFFICES ASSUME NEW w \in Open PROVE entry(w) \in AnyEntry
    OBVIOUS
  <2>1. desk[w] \in WindowRecord /\ w \in Ids
    BY <1>1, DeskIs
  <2>2. /\ desk[w].url \in Sources /\ desk[w].desc \in Tags \union Ids \union {Unset}
        /\ desk[w].geo \in Geometries \union {Unset} /\ w \in Tags \union Ids \union {Unset}
    BY <2>1, RecordChanges
  <2> QED BY <2>2 DEF AnyEntry, Entries
<1>7. /\ \A i \in 1..n : /\ doc[i].source = desk[list[i]].url /\ doc[i].desc = desk[list[i]].desc
                         /\ doc[i].geo = desk[list[i]].geo
      /\ DOMAIN doc = 1..n
  OBVIOUS
<1> HIDE DEF entry
<1>8. doc \in Seq(AnyEntry) /\ Len(doc) = n
  <2>1. doc \in [1..n -> AnyEntry]
    BY <1>4, <1>6
  <2> QED BY <1>3, <2>1
<1>9. settled' = Unsettled \/ (settled' = Settle(doc, list, FALSE) /\ Alone(c))
  BY <1>2, <1>4 DEF entry
<1>10. \A i, j \in 1..n : i # j => list[i] # list[j]
  <2> SUFFICES ASSUME NEW i \in 1..n, NEW j \in 1..n, i # j PROVE list[i] # list[j]
    OBVIOUS
  <2>1. i < j \/ j < i
    OBVIOUS
  <2>2. list[i] < list[j] \/ list[j] < list[i]
    BY <1>2, <1>4, <2>1
  <2>3. list[i] \in Nat /\ list[j] \in Nat
    BY <1>4
  <2> QED BY <2>2, <2>3
<1> HIDE DEF doc
<1>11. ASSUME NEW i \in 1..n PROVE desk[list[i]].url = Normal[doc[i].source] /\ AsAsked(desk[list[i]], doc[i])
  <2>1. desk[list[i]] \in WindowRecord
    BY <1>1, <1>4, DeskIs
  <2>2. Normal[desk[list[i]].url] = desk[list[i]].url /\ Trimmed[desk[list[i]].desc] = desk[list[i]].desc
    BY <2>1 DEF WindowRecord, NormalSources, TrimmedDescs
  <2> QED BY <1>7, <2>2 DEF AsAsked
<1>12. /\ Len(list) = Len(doc) /\ DOMAIN list = DOMAIN doc
       /\ \A i \in DOMAIN list :
            /\ list[i] \in Open /\ desk[list[i]].url = Normal[doc[i].source]
            /\ AsAsked(desk[list[i]], doc[i])
       /\ \A i, j \in DOMAIN list : i # j => list[i] # list[j]
  BY <1>4, <1>5, <1>7, <1>8, <1>10, <1>11
<1> QED BY <1>5, <1>8, <1>9, <1>12

LEMMA ExportSound ==
  ASSUME Sound, NEW c \in Appliers, Export(c) PROVE Sound' /\ UNCHANGED <<desk, unused, jobs, since>>
<1>1. UNCHANGED <<desk, unused, jobs, since>>
  BY DEF Export
<1>2. LayoutTypes /\ \A d \in Appliers : JobSound(d)
  BY DEF Sound
<1>3. settled' \in SettledType /\ Len(settled'.of) = Len(settled'.doc)
  <2>1. PICK doc \in Seq(AnyEntry), of \in Seq(Ids) :
          Len(of) = Len(doc) /\ (settled' = Unsettled \/ settled' = Settle(doc, of, FALSE))
    BY ExportIs
  <2>2. CASE settled' = Unsettled
    BY <2>2, UnsettledIs
  <2>3. CASE settled' = Settle(doc, of, FALSE)
    <3>1. Settle(doc, of, FALSE) \in SettledType
      BY SettleType
    <3>2. Settle(doc, of, FALSE).doc = doc /\ Settle(doc, of, FALSE).of = of
      BY SettleType
    <3> QED BY <2>1, <2>3, <3>1, <3>2
  <2> QED BY <2>1, <2>2, <2>3
<1>4. LayoutTypes'
  BY <1>1, <1>2, <1>3 DEF LayoutTypes, Open
<1>5. \A d \in Appliers : JobSound(d)'
  BY <1>1, <1>2, SoundStays, SameIsSame
<1> QED BY <1>1, <1>4, <1>5 DEF Sound

LEMMA LayoutStarts == ApplyInit => Sound
<1> SUFFICES ASSUME ApplyInit PROVE Sound
  OBVIOUS
<1>1. /\ desk = [w \in {} |-> 0] /\ unused = Ids
      /\ jobs = [c \in Appliers |-> NoJob]
      /\ since = [c \in Appliers |-> {}] /\ settled = Unsettled
  BY DEF ApplyInit
<1>2. desk \in Desks /\ Open = {}
  <2>1. desk \in [{} -> WindowRecord]
    BY <1>1
  <2> QED BY <1>1, <2>1 DEF Desks, Open
<1>3. LayoutTypes
  BY <1>1, <1>2, NoJobIs, UnsettledIs, FS_EmptySet DEF LayoutTypes
<1>4. \A c \in Appliers : JobSound(c)
  BY <1>1, NoJobIs, NoDesk DEF JobSound
<1> QED BY <1>3, <1>4 DEF Sound

LEMMA SoundKeeps == Sound /\ [ApplyNext]_applyVars => Sound'
<1> SUFFICES ASSUME Sound, [ApplyNext]_applyVars PROVE Sound'
  OBVIOUS
<1>1. CASE UNCHANGED applyVars
  <2>1. UNCHANGED <<desk, unused, jobs, since, settled>>
    BY <1>1 DEF applyVars
  <2> QED BY <2>1 DEF Sound, LayoutTypes, JobSound, Open
<1>2. CASE \E w \in Ids : OtherOpens(w) \/ OtherCloses(w) \/ OtherChanges(w)
  BY <1>2, OthersSound
<1>3. CASE \E c \in Appliers : Applying(c)
  BY <1>3, StartSound, StartBatchSound, UpdateSound, CreateSound, CreateFailsSound, PruneSound,
     ReturnSound, ExportSound DEF Applying
<1> QED BY <1>1, <1>2, <1>3 DEF ApplyNext

LEMMA LayoutSoundness == ApplySpecification => []Sound
BY LayoutStarts, SoundKeeps, PTL DEF ApplySpecification

(* Whatever documents are applied, by however many clients at once and while others open, close,
   tag and navigate: prune closes no window that was opened since its apply began and none that an
   entry took, and it closes nothing before every entry has its window (apply_spec). *)
THEOREM PruningIsSafe == ApplySpecification => PruneIsSafe
<1>1. ASSUME Sound, NEW c \in Appliers, Prune(c), NEW w \in Open \ DOMAIN desk'
      PROVE  w \notin since[c] /\ w \notin Range(jobs[c].of) /\ AllServed(jobs[c])
  <2>1. PICK v \in Unclaimed(jobs[c]) : Closed(v) \/ UNCHANGED desk
    BY <1>1, PruneIs
  <2>2. w = v
    BY <1>1, <2>1 DEF Closed, Open
  <2>3. w \in DOMAIN jobs[c].list /\ w \notin Range(jobs[c].of)
    BY <2>1, <2>2 DEF Unclaimed
  <2>4. w \notin since[c]
    BY <1>1, <2>3 DEF Sound, JobSound
  <2> QED BY <1>1, <2>3, <2>4 DEF Prune
<1>2. Sound /\ [ApplyNext]_applyVars =>
        [\A c \in Appliers : Prune(c) =>
           \A w \in Open \ DOMAIN desk' :
             /\ w \notin since[c] /\ w \notin Range(jobs[c].of)
             /\ AllServed(jobs[c])]_applyVars
  BY <1>1
<1> QED BY <1>2, LayoutSoundness, PTL DEF ApplySpecification, PruneIsSafe

-----------------------------------------------------------------------------
(* Layouts: what a settled layout rests on *)

\* Nothing an applier did while others were at work counts as undisturbed.
LEMMA CalmOfOthers ==
  ASSUME NEW c \in Appliers, NEW d \in Appliers \ {c}, CalmSound(d), jobs'[d] = jobs[d],
         jobs[c].at = "entries"
  PROVE  CalmSound(d)'
BY DEF CalmSound, Alone

LEMMA CalmDisturbed ==
  ASSUME NEW d \in Appliers, jobs'[d].calm = FALSE \/ jobs'[d].at = "idle" PROVE CalmSound(d)'
BY DEF CalmSound

LEMMA OthersCalm ==
  ASSUME Sound, NEW w \in Ids, OtherOpens(w) \/ OtherCloses(w) \/ OtherChanges(w)
  PROVE  Calm'
<1>1. jobs' = Disturbed /\ LayoutTypes
  BY DEF OtherOpens, OtherCloses, OtherChanges, Other, Sound
<1> QED BY <1>1, Disturbing, CalmDisturbed DEF Calm

LEMMA StartCalm == ASSUME Sound, NEW c \in Appliers, Start(c) \/ StartBatch(c) PROVE Calm'
<1>1. LayoutTypes
  BY DEF Sound
<1>2. \E job \in JobType : /\ job.of = <<>> /\ job.calm = Alone(c) /\ job.at = "entries"
                           /\ jobs' = [Disturbed EXCEPT ![c] = job]
  <2>1. CASE Start(c)
    BY <2>1, StartIs
  <2>2. CASE StartBatch(c)
    <3>1. PICK doc \in Documents \ {<<>>} :
            jobs' = [Disturbed EXCEPT ![c] =
              [NoJob EXCEPT !.at = "entries", !.batch = TRUE, !.doc = doc, !.calm = Alone(c)]]
      BY <2>2 DEF StartBatch
    <3> DEFINE calm == Alone(c)
    <3> DEFINE job == [NoJob EXCEPT !.at = "entries", !.batch = TRUE, !.doc = doc, !.calm = calm]
    <3>2. calm \in BOOLEAN /\ doc \in Seq(AnyEntry) /\ jobs' = [Disturbed EXCEPT ![c] = job]
      BY <3>1, DocumentsAre DEF Alone
    <3> HIDE DEF calm
    <3>3. job \in JobType /\ job.of = <<>> /\ job.calm = calm /\ job.at = "entries"
      BY <3>2, EmptyOf, NoDesk DEF NoJob, JobType
    <3> HIDE DEF job
    <3>4. job.calm = Alone(c)
      BY <3>3 DEF calm
    <3> QED BY <3>2, <3>3, <3>4
  <2> QED BY <2>1, <2>2
<1>3. PICK job \in JobType : /\ job.of = <<>> /\ job.calm = Alone(c) /\ job.at = "entries"
                             /\ jobs' = [Disturbed EXCEPT ![c] = job]
  BY <1>2
<1>4. /\ jobs'[c] = job
      /\ \A d \in Appliers \ {c} : SameWork(jobs'[d], jobs[d]) /\ jobs'[d].calm = FALSE
  BY <1>1, <1>3, Starting
<1>5. \A d \in Appliers \ {c} : CalmSound(d)'
  BY <1>4, CalmDisturbed
<1>6. CalmSound(c)'
  <2>1. job.calm = TRUE => Alone(c)'
    BY <1>3, <1>4 DEF Alone, SameWork
  <2>2. DOMAIN job.of = {}
    BY <1>3
  <2>3. job.calm \in BOOLEAN
    BY JobFields
  <2> QED BY <1>4, <2>1, <2>2, <2>3 DEF CalmSound
<1> QED BY <1>5, <1>6 DEF Calm

LEMMA UpdateCalm == ASSUME Sound, Calm, NEW c \in Appliers, Update(c) PROVE Calm'
<1>1. LayoutTypes /\ JobSound(c) /\ Pending(jobs[c]) /\ CalmSound(c)
  BY DEF Sound, Update, Calm
<1>2. PICK w \in Ids, job \in JobType :
        /\ Become(c, job) /\ job.of = Append(jobs[c].of, w) /\ job.created = jobs[c].created
        /\ job.at = jobs[c].at /\ job.batch = jobs[c].batch /\ job.doc = jobs[c].doc
        /\ job.calm = jobs[c].calm /\ w \in DOMAIN jobs[c].list
        /\ Open' = Open /\ \A v \in Open \ {w} : desk'[v] = desk[v]
  BY UpdateIs
<1>3. jobs'[c] = job /\ \A d \in Appliers \ {c} : jobs'[d] = jobs[d]
  BY <1>1, <1>2, Becoming
<1>4. jobs[c].at = "entries" /\ jobs[c].of \in Seq(Ids)
  BY <1>1, Working, JobFields
<1>5. \A d \in Appliers \ {c} : CalmSound(d)'
  BY <1>3, <1>4, CalmOfOthers DEF Calm
<1>6. CalmSound(c)'
  <2>1. SUFFICES ASSUME jobs[c].calm PROVE CalmSound(c)'
    BY <1>2, <1>3 DEF CalmSound
  <2>2. Alone(c)'
    BY <1>1, <1>3, <1>4, <2>1 DEF CalmSound, Alone
  <2>3. w \notin job.created
    BY <1>1, <1>2 DEF JobSound
  <2>4. ASSUME NEW i \in DOMAIN job.of, job.of[i] \in job.created
        PROVE  /\ job.of[i] \in Open' /\ desk'[job.of[i]].url = Normal[job.doc[i].source]
               /\ desk'[job.of[i]].geo = job.doc[i].geo
               /\ desk'[job.of[i]].desc = Trimmed[Intended(job, job.doc[i])]
    <3>1. i \in DOMAIN jobs[c].of /\ job.of[i] = jobs[c].of[i] /\ job.of[i] # w
      BY <1>2, <1>4, <2>3, <2>4, Appending
    <3>2. desk'[job.of[i]] = desk[job.of[i]]
      BY <1>1, <1>2, <1>4, <2>1, <2>4, <3>1 DEF CalmSound
    <3> QED BY <1>1, <1>2, <1>4, <2>1, <2>4, <3>1, <3>2 DEF CalmSound, Intended
  <2> QED BY <1>3, <2>2, <2>4 DEF CalmSound
<1> QED BY <1>5, <1>6 DEF Calm

LEMMA CreateCalm == ASSUME Sound, Calm, NEW c \in Appliers, Create(c) PROVE Calm'
<1>1. LayoutTypes /\ JobSound(c) /\ Pending(jobs[c]) /\ CalmSound(c)
  BY DEF Sound, Create, Calm
<1>2. PICK w \in unused, job \in JobType :
        /\ Become(c, job) /\ job.of = Append(jobs[c].of, w)
        /\ job.created = jobs[c].created \union {w}
        /\ job.at = jobs[c].at /\ job.batch = jobs[c].batch /\ job.doc = jobs[c].doc
        /\ job.calm = jobs[c].calm
        /\ w \in Ids /\ w \notin Open /\ Open' = Open \union {w} /\ \A v \in Open : desk'[v] = desk[v]
        /\ desk'[w].url = Normal[Entry(jobs[c]).source] /\ desk'[w].geo = Entry(jobs[c]).geo
        /\ desk'[w].desc = Trimmed[Intended(jobs[c], Entry(jobs[c]))]
  BY CreateIs
<1>3. jobs'[c] = job /\ \A d \in Appliers \ {c} : jobs'[d] = jobs[d]
  BY <1>1, <1>2, Becoming
<1>4. jobs[c].at = "entries" /\ jobs[c].of \in Seq(Ids)
  BY <1>1, Working, JobFields
<1>5. \A d \in Appliers \ {c} : CalmSound(d)'
  BY <1>3, <1>4, CalmOfOthers DEF Calm
<1>6. CalmSound(c)'
  <2>1. SUFFICES ASSUME jobs[c].calm PROVE CalmSound(c)'
    BY <1>2, <1>3 DEF CalmSound
  <2>2. Alone(c)'
    BY <1>1, <1>3, <1>4, <2>1 DEF CalmSound, Alone
  <2>3. ASSUME NEW i \in DOMAIN job.of, job.of[i] \in job.created
        PROVE  /\ job.of[i] \in Open' /\ desk'[job.of[i]].url = Normal[job.doc[i].source]
               /\ desk'[job.of[i]].geo = job.doc[i].geo
               /\ desk'[job.of[i]].desc = Trimmed[Intended(job, job.doc[i])]
    <3>1. CASE i \in DOMAIN jobs[c].of
      <4>1. job.of[i] = jobs[c].of[i]
        BY <1>2, <1>4, <3>1, Appending
      <4>2. job.of[i] # w
        BY <1>1, <1>2, <3>1, <4>1 DEF JobSound
      <4>3. /\ job.of[i] \in Open /\ desk[job.of[i]].url = Normal[job.doc[i].source]
            /\ desk[job.of[i]].geo = job.doc[i].geo
            /\ desk[job.of[i]].desc = Trimmed[Intended(jobs[c], job.doc[i])]
        BY <1>1, <1>2, <1>4, <2>1, <2>3, <3>1, <4>1, <4>2 DEF CalmSound
      <4> QED BY <1>2, <4>3 DEF Intended
    <3>2. CASE i = Len(jobs[c].of) + 1
      <4>1. job.of[i] = w /\ job.doc[i] = Entry(jobs[c])
        BY <1>2, <1>4, <3>2, Appending DEF Entry
      <4> QED BY <1>2, <4>1 DEF Intended
    <3> QED BY <1>2, <1>4, <2>3, <3>1, <3>2, Appending
  <2> QED BY <1>3, <2>2, <2>3 DEF CalmSound
<1> QED BY <1>5, <1>6 DEF Calm

LEMMA PruneCalm == ASSUME Sound, Calm, NEW c \in Appliers, Prune(c) PROVE Calm'
<1>1. LayoutTypes /\ JobSound(c) /\ CalmSound(c) /\ jobs[c].at = "entries"
  BY DEF Sound, Calm, Prune
<1>2. PICK w \in Unclaimed(jobs[c]), job \in JobType :
        /\ Become(c, job) /\ SameWork(job, jobs[c]) /\ job.calm = jobs[c].calm
        /\ Closed(w) \/ UNCHANGED desk
  BY PruneIs
<1>3. jobs'[c] = job /\ \A d \in Appliers \ {c} : jobs'[d] = jobs[d]
  BY <1>1, <1>2, Becoming
<1>4. \A d \in Appliers \ {c} : CalmSound(d)'
  BY <1>1, <1>3, CalmOfOthers DEF Calm
<1>5. CalmSound(c)'
  <2>1. SUFFICES ASSUME jobs[c].calm PROVE CalmSound(c)'
    BY <1>2, <1>3 DEF CalmSound
  <2>2. Alone(c)'
    BY <1>1, <1>3, <2>1 DEF CalmSound, Alone
  <2>3. \A v \in Open \ {w} : v \in Open' /\ desk'[v] = desk[v]
    BY <1>1, <1>2, DeskCloses DEF Open
  <2>4. \A v \in jobs[c].created : v # w
    BY <1>1 DEF JobSound, Unclaimed
  <2>5. ASSUME NEW i \in DOMAIN job.of, job.of[i] \in job.created
        PROVE  /\ job.of[i] \in Open' /\ desk'[job.of[i]].url = Normal[job.doc[i].source]
               /\ desk'[job.of[i]].geo = job.doc[i].geo
               /\ desk'[job.of[i]].desc = Trimmed[Intended(job, job.doc[i])]
    <3>1. /\ job.of[i] \in Open /\ desk[job.of[i]].url = Normal[job.doc[i].source]
          /\ desk[job.of[i]].geo = job.doc[i].geo
          /\ desk[job.of[i]].desc = Trimmed[Intended(jobs[c], job.doc[i])]
      BY <1>1, <1>2, <2>1, <2>5 DEF CalmSound, SameWork
    <3>2. job.of[i] \in Open' /\ desk'[job.of[i]] = desk[job.of[i]]
      BY <1>2, <2>3, <2>4, <2>5, <3>1 DEF SameWork
    <3> QED BY <1>2, <3>1, <3>2 DEF Intended, SameWork
  <2> QED BY <1>3, <2>2, <2>5 DEF CalmSound
<1> QED BY <1>4, <1>5 DEF Calm

LEMMA EndCalm ==
  ASSUME Calm, NEW c \in Appliers, jobs[c].at = "entries", jobs'[c] = NoJob,
         \A d \in Appliers \ {c} : jobs'[d] = jobs[d]
  PROVE  Calm'
<1>1. CalmSound(c)'
  BY NoJobIs, CalmDisturbed
<1> QED BY <1>1, CalmOfOthers DEF Calm

(* A layout settles when nobody is at work. *)
LEMMA Settling ==
  ASSUME NEW doc \in Seq(AnyEntry), NEW of \in Seq(Ids), NEW batch \in BOOLEAN, DOMAIN of = DOMAIN doc,
         settled' = Settle(doc, of, batch), desk' = desk, \A d \in Appliers : jobs'[d].at = "idle",
         \A i \in DOMAIN of :
           /\ of[i] \in Open /\ desk[of[i]].url = Normal[doc[i].source]
           /\ ~batch => AsAsked(desk[of[i]], doc[i]),
         \A i, j \in DOMAIN of : i # j => of[i] # of[j]
  PROVE  SettledSound'
<1>1. /\ settled'.doc = doc /\ settled'.of = of /\ settled'.batch = batch
      /\ settled'.distinct = Distinct(doc, of)
  BY SettleType
<1>2. SUFFICES ASSUME Distinct(doc, of) PROVE SettledSound'
  BY <1>1 DEF SettledSound
<1>3. LaysOut(desk', settled')
  BY <1>1, <1>2 DEF LaysOut, Distinct, Retagged, Open
<1>4. Apart(settled')
  BY <1>1 DEF Apart
<1>5. \A c \in Appliers : Follows(c)'
  BY DEF Follows
<1> QED BY <1>3, <1>4, <1>5 DEF SettledSound

LEMMA Unsettling == settled' = Unsettled => SettledSound'
BY DEF SettledSound

\* Whether an entry matches two windows alike.
SameKeys(r, q) == r.url = q.url /\ r.source = q.source /\ r.desc = q.desc

LEMMA SameMatching ==
  ASSUME NEW r, NEW q, SameKeys(r, q), NEW w, NEW e
  PROVE  Matching(w, r, e) <=> Matching(w, q, e)
BY DEF SameKeys, Matching, ByName, BySource

LEMMA RetaggedIs ==
  ASSUME NEW list \in Desks, NEW s, NEW j, s.of[j] \in DOMAIN list
  PROVE  LET r == Retagged(list, s, j) IN
         r.url = list[s.of[j]].url /\ r.source = list[s.of[j]].source /\ r.desc = Trimmed[s.doc[j].desc]
<1>1. list[s.of[j]] \in WindowRecord
  BY DEF Desks
<1> QED BY <1>1 DEF Retagged, WindowRecord

LEMMA FollowsStays ==
  ASSUME NEW d \in Appliers, Follows(d), settled' = settled, SameWork(jobs'[d], jobs[d])
  PROVE  Follows(d)'
BY DEF Follows, SameWork

(* The entry that a job of a settled layout is at takes the window it had. *)
LEMMA TakesItsOwn ==
  ASSUME Sound, SettledSound, settled.distinct, settled # Unsettled, NEW c \in Appliers, Pending(jobs[c])
  PROVE  LET i == Len(jobs[c].of) + 1 IN
         /\ i \in DOMAIN settled.of /\ Entry(jobs[c]) = settled.doc[i]
         /\ First(jobs[c].list, Entry(jobs[c])) = {settled.of[i]}
<1> DEFINE i == Len(jobs[c].of) + 1
<1> DEFINE e == Entry(jobs[c])
<1> DEFINE w == settled.of[i]
<1> DEFINE list == jobs[c].list
<1>1. LayoutTypes /\ JobSound(c) /\ Follows(c)
  BY DEF Sound, SettledSound
<1>2. jobs[c].at = "entries" /\ i \in DOMAIN jobs[c].doc /\ jobs[c] \in JobType
  BY <1>1, Working
<1>3. jobs[c].doc = settled.doc /\ LaysOut(list, settled)
  BY <1>1, <1>2 DEF Follows
<1>4. settled.of \in Seq(Ids) /\ settled.doc \in Seq(AnyEntry) /\ Len(settled.of) = Len(settled.doc)
  BY <1>1, SettledFields DEF LayoutTypes
<1>5. i \in DOMAIN settled.of /\ e = settled.doc[i]
  BY <1>2, <1>3, <1>4 DEF Entry
<1>6. w \in DOMAIN list /\ \A v \in DOMAIN list : Matching(v, list[v], e) <=> v = w
  BY <1>3, <1>5 DEF LaysOut
<1>7. w \in Nat
  <2>1. w \in Ids
    BY <1>4, <1>5
  <2> QED BY <2>1, ApplyAssumption
<1> HIDE DEF i, e, w, list
<1>9. First(list, e) = {w}
  BY <1>6, <1>7 DEF First
<1> QED BY <1>5, <1>9 DEF i, e, w, list

LEMMA StartSettled == ASSUME Sound, SettledSound, NEW c \in Appliers, Start(c) PROVE SettledSound'
<1>1. LayoutTypes /\ UNCHANGED desk
  BY DEF Sound, Start
<1>2. PICK doc \in Documents \union {settled.doc}, job \in JobType :
        /\ job.of = <<>> /\ job.doc = doc /\ job.list = desk /\ ~job.batch
        /\ jobs' = [Disturbed EXCEPT ![c] = job]
        /\ settled' = IF doc = settled.doc THEN settled ELSE Unsettled
  BY StartIs
<1>3. jobs'[c] = job /\ \A d \in Appliers \ {c} : SameWork(jobs'[d], jobs[d])
  BY <1>1, <1>2, Starting
<1>4. SUFFICES ASSUME doc = settled.doc, settled.distinct, settled # Unsettled PROVE SettledSound'
  <2>1. CASE doc # settled.doc
    BY <1>2, <2>1, Unsettling
  <2>2. CASE ~(settled.distinct /\ settled # Unsettled) /\ doc = settled.doc
    BY <1>2, <2>2 DEF SettledSound
  <2> QED BY <1>4, <2>1, <2>2
<1>5. settled' = settled /\ LaysOut(desk, settled) /\ Apart(settled) /\ \A d \in Appliers : Follows(d)
  BY <1>2, <1>4 DEF SettledSound
<1>6. \A d \in Appliers \ {c} : Follows(d)'
  BY <1>3, <1>5, FollowsStays
<1>7. Follows(c)'
  BY <1>2, <1>3, <1>4, <1>5 DEF Follows
<1> QED BY <1>1, <1>5, <1>6, <1>7 DEF SettledSound

LEMMA UpdateSettled == ASSUME Sound, SettledSound, NEW c \in Appliers, Update(c) PROVE SettledSound'
<1> DEFINE i == Len(jobs[c].of) + 1
<1> DEFINE w == settled.of[i]
<1> DEFINE list == jobs[c].list
<1> DEFINE e == settled.doc[i]
<1>1. LayoutTypes /\ Pending(jobs[c]) /\ settled' = settled /\ JobSound(c)
  BY DEF Sound, Update
<1>2. SUFFICES ASSUME settled.distinct, settled # Unsettled PROVE SettledSound'
  BY <1>1 DEF SettledSound
<1>3. LaysOut(desk, settled) /\ Apart(settled) /\ \A d \in Appliers : Follows(d)
  BY <1>2 DEF SettledSound
<1>4. i \in DOMAIN settled.of /\ Entry(jobs[c]) = e /\ First(list, e) = {w}
  BY <1>1, <1>2, TakesItsOwn
<1>5. PICK v \in First(jobs[c].list, Entry(jobs[c])), job \in JobType :
        /\ Become(c, job) /\ job.of = Append(jobs[c].of, v)
        /\ job.at = jobs[c].at /\ job.batch = jobs[c].batch /\ job.doc = jobs[c].doc
        /\ job.list = jobs[c].list
        /\ v \in Ids /\ desk' \in Desks /\ Open' = Open /\ \A u \in Open \ {v} : desk'[u] = desk[u]
        /\ v \in Open =>
             /\ desk'[v].url = desk[v].url /\ desk'[v].source = desk[v].source
             /\ \/ desk'[v].desc = desk[v].desc
                \/ /\ Entry(jobs[c]).desc \notin {Unset, jobs[c].list[v].desc}
                   /\ desk'[v].desc = Trimmed[Entry(jobs[c]).desc]
             /\ desk'[v].geo \in {desk[v].geo} \union ({Entry(jobs[c]).geo} \ {Unset})
  BY UpdateIs
<1>6. /\ v = w
      /\ Open' = Open /\ \A u \in Open \ {w} : desk'[u] = desk[u]
      /\ w \in Open =>
           /\ desk'[w].url = desk[w].url /\ desk'[w].source = desk[w].source
           /\ \/ desk'[w].desc = desk[w].desc
              \/ e.desc \notin {Unset, list[w].desc} /\ desk'[w].desc = Trimmed[e.desc]
           /\ desk'[w].geo \in {desk[w].geo} \union ({e.geo} \ {Unset})
  <2>1. v = w /\ Entry(jobs[c]) = e
    BY <1>4, <1>5
  <2> HIDE DEF w, e
  <2> QED BY <1>5, <2>1
<1>7. jobs'[c] = job /\ \A d \in Appliers \ {c} : jobs'[d] = jobs[d]
  BY <1>1, <1>5, Becoming
<1>8. jobs[c].at = "entries" /\ jobs[c].of \in Seq(Ids)
  BY <1>1, Working, JobFields
<1>9. LaysOut(list, settled) /\ w \in Open
  BY <1>3, <1>4, <1>8 DEF Follows, LaysOut, Open
<1>10. ~settled.batch => desk'[w].desc = desk[w].desc
  BY <1>3, <1>4, <1>6, <1>9 DEF LaysOut, AsAsked
<1>11. Follows(c)'
  <2>1. \A k \in DOMAIN job.of : job.of[k] = settled.of[k]
    <3>1. /\ DOMAIN job.of = DOMAIN jobs[c].of \union {i} /\ job.of[i] = w
          /\ \A k \in DOMAIN jobs[c].of : job.of[k] = jobs[c].of[k]
      <4>1. job.of = Append(jobs[c].of, v) /\ v \in Ids /\ v = w
        BY <1>5, <1>6
      <4>2. /\ DOMAIN Append(jobs[c].of, v) = DOMAIN jobs[c].of \union {i}
            /\ Append(jobs[c].of, v)[i] = v
            /\ \A k \in DOMAIN jobs[c].of : Append(jobs[c].of, v)[k] = jobs[c].of[k]
        BY <1>8, <4>1, Appending
      <4> HIDE DEF i, w
      <4> QED BY <4>1, <4>2
    <3>2. \A k \in DOMAIN jobs[c].of : jobs[c].of[k] = settled.of[k]
      BY <1>3, <1>8 DEF Follows
    <3> QED BY <3>1, <3>2
  <2> QED BY <1>1, <1>3, <1>5, <1>7, <1>8, <1>9, <2>1 DEF Follows
<1>12. \A d \in Appliers \ {c} : Follows(d)'
  BY <1>1, <1>3, <1>7, FollowsStays, SameIsSame
<1>13. LaysOut(desk', settled)
  <2>1. desk \in Desks /\ desk' \in Desks /\ Open' = Open
    BY <1>1, <1>5 DEF LayoutTypes
  <2> SUFFICES ASSUME NEW j \in DOMAIN settled.of
               PROVE  LET u == settled.of[j]  f == settled.doc[j] IN
                      /\ u \in Open /\ desk'[u].url = Normal[f.source]
                      /\ ~settled.batch => AsAsked(desk'[u], f)
                      /\ \A x \in Open : Matching(x, desk'[x], f) <=> x = u
                      /\ \A k \in DOMAIN settled.of :
                           settled.doc[k].desc # Unset =>
                             (Matching(settled.of[k], Retagged(desk', settled, k), f) <=> j = k)
    BY <1>6 DEF LaysOut, Open
  <2> DEFINE u == settled.of[j]
  <2> DEFINE f == settled.doc[j]
  <2>2. /\ u \in Open /\ desk[u].url = Normal[f.source]
        /\ ~settled.batch => AsAsked(desk[u], f)
        /\ \A x \in Open : Matching(x, desk[x], f) <=> x = u
        /\ \A k \in DOMAIN settled.of :
             settled.doc[k].desc # Unset => (Matching(settled.of[k], Retagged(desk, settled, k), f) <=> j = k)
    BY <1>3 DEF LaysOut, Open
  <2>3. u = w <=> j = i
    BY <1>3, <1>4 DEF Apart
  <2>4. \A x \in Open : desk'[x].url = desk[x].url /\ desk'[x].source = desk[x].source
    BY <1>6, <1>9
  <2>5. desk'[u].url = Normal[f.source]
    BY <2>2, <2>4
  <2>6. ~settled.batch => AsAsked(desk'[u], f)
    <3>1. CASE u # w
      BY <1>6, <2>2, <3>1
    <3>2. CASE u = w
      <4>1. f = e
        BY <2>3, <3>2
      <4> HIDE DEF u, f, w, e
      <4> QED BY <1>6, <1>9, <1>10, <2>2, <3>2, <4>1 DEF AsAsked
    <3> QED BY <3>1, <3>2
  <2>7. ASSUME NEW k \in DOMAIN settled.of, settled.doc[k].desc # Unset
        PROVE  Matching(settled.of[k], Retagged(desk', settled, k), f) <=> j = k
    <3>1. settled.of[k] \in Open
      BY <1>3, <2>7 DEF LaysOut, Open
    <3>2. SameKeys(Retagged(desk', settled, k), Retagged(desk, settled, k))
      BY <2>1, <2>4, <3>1, RetaggedIs DEF SameKeys, Open
    <3> QED BY <2>2, <2>7, <3>2, SameMatching
  <2>8. ASSUME NEW x \in Open PROVE Matching(x, desk'[x], f) <=> x = u
    <3>1. CASE desk'[x].desc = desk[x].desc
      BY <2>2, <2>4, <2>8, <3>1, SameMatching DEF SameKeys
    <3>2. CASE x = w /\ e.desc # Unset /\ desk'[w].desc = Trimmed[e.desc]
      <4>1. Matching(w, Retagged(desk, settled, i), f) <=> j = i
        BY <1>4, <2>2, <3>2
      <4>2. SameKeys(desk'[w], Retagged(desk, settled, i))
        BY <1>4, <2>1, <2>4, <2>8, <3>2, RetaggedIs DEF SameKeys, Open
      <4> HIDE DEF u, f, w, e, i
      <4> QED BY <2>3, <3>2, <4>1, <4>2, SameMatching
    <3>3. CASE x # w
      BY <1>6, <2>8, <3>1, <3>3
    <3> QED BY <1>6, <2>8, <3>1, <3>2, <3>3
  <2> HIDE DEF u, f
  <2>9. /\ u \in Open /\ desk'[u].url = Normal[f.source]
        /\ ~settled.batch => AsAsked(desk'[u], f)
        /\ \A x \in Open : Matching(x, desk'[x], f) <=> x = u
        /\ \A k \in DOMAIN settled.of :
             settled.doc[k].desc # Unset => (Matching(settled.of[k], Retagged(desk', settled, k), f) <=> j = k)
    BY <2>2, <2>5, <2>6, <2>7, <2>8
  <2> QED BY <2>9 DEF u, f
<1> QED BY <1>1, <1>3, <1>11, <1>12, <1>13 DEF SettledSound

LEMMA CreateSettled == ASSUME Sound, SettledSound, NEW c \in Appliers, Create(c) PROVE SettledSound'
<1>1. settled' = settled /\ Pending(jobs[c]) /\ First(jobs[c].list, Entry(jobs[c])) = {}
  BY DEF Create
<1>2. ~(settled.distinct /\ settled # Unsettled)
  BY <1>1, TakesItsOwn
<1> QED BY <1>1, <1>2 DEF SettledSound

LEMMA PruneSettled == ASSUME Sound, SettledSound, NEW c \in Appliers, Prune(c) PROVE SettledSound'
<1>1. /\ LayoutTypes /\ settled' = settled /\ jobs[c].at = "entries" /\ AllServed(jobs[c])
      /\ jobs[c] \in JobType
  BY DEF Sound, Prune, LayoutTypes
<1>2. SUFFICES ASSUME settled.distinct, settled # Unsettled PROVE SettledSound'
  BY <1>1 DEF SettledSound
<1>3. LaysOut(desk, settled) /\ Apart(settled) /\ \A d \in Appliers : Follows(d)
  BY <1>2 DEF SettledSound
<1>4. PICK w \in Unclaimed(jobs[c]), job \in JobType :
        Become(c, job) /\ SameWork(job, jobs[c]) /\ (Closed(w) \/ UNCHANGED desk)
  BY PruneIs
<1>5. jobs'[c] = job /\ \A d \in Appliers \ {c} : jobs'[d] = jobs[d]
  BY <1>1, <1>4, Becoming
<1>6. \A d \in Appliers : Follows(d)'
  BY <1>1, <1>3, <1>4, <1>5, FollowsStays, SameIsSame
<1>7. \A j \in DOMAIN settled.of : settled.of[j] # w
  <2>1. /\ jobs[c].doc = settled.doc /\ \A j \in DOMAIN jobs[c].of : jobs[c].of[j] = settled.of[j]
        /\ Len(jobs[c].of) = Len(jobs[c].doc)
    BY <1>1, <1>3 DEF Follows, AllServed
  <2>2. jobs[c].of \in Seq(Ids) /\ settled.of \in Seq(Ids) /\ Len(settled.of) = Len(settled.doc)
    BY <1>1, JobFields, SettledFields DEF LayoutTypes
  <2>3. DOMAIN jobs[c].of = DOMAIN settled.of
    BY <2>1, <2>2
  <2>4. w \notin Range(jobs[c].of)
    BY <1>4 DEF Unclaimed
  <2> QED BY <2>1, <2>3, <2>4 DEF Range
<1>8. Open \ {w} \subseteq Open' /\ Open' \subseteq Open /\ \A v \in Open' : desk'[v] = desk[v]
  BY <1>1, <1>4, DeskCloses DEF Open
<1>9. LaysOut(desk', settled)
  <2>1. \A j \in DOMAIN settled.of : settled.of[j] \in Open' /\ desk'[settled.of[j]] = desk[settled.of[j]]
    BY <1>3, <1>7, <1>8 DEF LaysOut, Open
  <2> QED BY <1>3, <1>8, <2>1 DEF LaysOut, Retagged, Open
<1> QED BY <1>1, <1>3, <1>6, <1>9 DEF SettledSound

LEMMA ReturnSettled ==
  ASSUME Sound, Calm, SettledSound, NEW c \in Appliers, Return(c) PROVE SettledSound'
<1> DEFINE job == jobs[c]
<1>1. /\ job \in JobType /\ job.at = "entries" /\ Len(job.of) = Len(job.doc)
      /\ job.doc \in Seq(AnyEntry) /\ job.of \in Seq(Ids) /\ job.batch \in BOOLEAN
      /\ Become(c, NoJob) /\ UNCHANGED <<desk, unused, since>>
      /\ \/ settled' = settled
         \/ /\ settled' = Settle(job.doc, job.of, job.batch)
            /\ job.calm /\ job.created = Range(job.of)
  BY ReturnIs
<1>2. LayoutTypes /\ JobSound(c) /\ CalmSound(c)
  BY DEF Sound, Calm
<1>3. jobs'[c] = NoJob /\ \A d \in Appliers \ {c} : jobs'[d] = jobs[d]
  BY <1>1, <1>2, NoJobIs, Becoming
<1>4. CASE settled' = settled
  <2>1. SUFFICES ASSUME settled.distinct, settled # Unsettled PROVE SettledSound'
    BY <1>4 DEF SettledSound
  <2>2. LaysOut(desk, settled) /\ Apart(settled) /\ \A d \in Appliers : Follows(d)
    BY <2>1 DEF SettledSound
  <2>3. \A d \in Appliers \ {c} : Follows(d)'
    BY <1>3, <1>4, <2>2, FollowsStays, SameIsSame
  <2>4. Follows(c)'
    BY <1>3, NoJobIs DEF Follows
  <2> QED BY <1>1, <1>4, <2>2, <2>3, <2>4 DEF SettledSound
<1>5. CASE settled' = Settle(job.doc, job.of, job.batch) /\ job.calm /\ job.created = Range(job.of)
  <2>1. \A d \in Appliers : jobs'[d].at = "idle"
    BY <1>1, <1>2, <1>3, <1>5, NoJobIs DEF CalmSound, Alone
  <2>2. \A i \in DOMAIN job.of : job.of[i] \in job.created
    BY <1>5 DEF Range
  <2>3. ASSUME NEW i \in DOMAIN job.of
        PROVE  /\ job.of[i] \in Open /\ desk[job.of[i]].url = Normal[job.doc[i].source]
               /\ ~job.batch => AsAsked(desk[job.of[i]], job.doc[i])
    <3>1. /\ job.of[i] \in Open /\ desk[job.of[i]].url = Normal[job.doc[i].source]
          /\ desk[job.of[i]].geo = job.doc[i].geo
          /\ desk[job.of[i]].desc = Trimmed[Intended(job, job.doc[i])]
      BY <1>1, <1>2, <1>5, <2>2, <2>3 DEF CalmSound
    <3> QED BY <3>1 DEF Intended, Description, AsAsked
  <2>4. \A i, j \in DOMAIN job.of : i # j => job.of[i] # job.of[j]
    BY <1>2, <2>2 DEF JobSound
  <2>5. DOMAIN job.of = DOMAIN job.doc
    BY <1>1
  <2> HIDE DEF job
  <2> QED BY <1>1, <1>5, <2>1, <2>3, <2>4, <2>5, Settling
<1> QED BY <1>1, <1>4, <1>5

LEMMA ExportSettled ==
  ASSUME Sound, SettledSound, NEW c \in Appliers, Export(c) PROVE SettledSound'
<1>1. PICK doc \in Seq(AnyEntry), of \in Seq(Ids) :
        /\ Len(of) = Len(doc) /\ DOMAIN of = DOMAIN doc
        /\ settled' = Unsettled \/ (settled' = Settle(doc, of, FALSE) /\ Alone(c))
        /\ \A i \in DOMAIN of :
             /\ of[i] \in Open /\ desk[of[i]].url = Normal[doc[i].source]
             /\ AsAsked(desk[of[i]], doc[i])
        /\ \A i, j \in DOMAIN of : i # j => of[i] # of[j]
  BY ExportIs
<1>2. UNCHANGED <<desk, jobs>> /\ jobs[c].at = "idle"
  BY DEF Export
<1>3. CASE settled' = Unsettled
  BY <1>3, Unsettling
<1>4. CASE settled' = Settle(doc, of, FALSE) /\ Alone(c)
  <2>1. \A d \in Appliers : jobs'[d].at = "idle"
    BY <1>2, <1>4 DEF Alone
  <2> QED BY <1>1, <1>2, <1>4, <2>1, Settling
<1> QED BY <1>1, <1>3, <1>4

LEMMA LayoutStartsSettled == ApplyInit => LayoutInv
<1> SUFFICES ASSUME ApplyInit PROVE LayoutInv
  OBVIOUS
<1>1. Calm
  BY NoJobIs DEF ApplyInit, Calm, CalmSound
<1>2. SettledSound
  BY DEF ApplyInit, SettledSound
<1> QED BY <1>1, <1>2, LayoutStarts DEF LayoutInv

LEMMA LayoutKeeps == LayoutInv /\ [ApplyNext]_applyVars => LayoutInv'
<1> SUFFICES ASSUME LayoutInv, [ApplyNext]_applyVars PROVE LayoutInv'
  OBVIOUS
<1>1. Sound /\ Calm /\ SettledSound
  BY DEF LayoutInv
<1>2. Sound'
  BY <1>1, SoundKeeps
<1>3. CASE UNCHANGED applyVars
  <2>1. UNCHANGED <<desk, jobs, settled>>
    BY <1>3 DEF applyVars
  <2>2. Calm' /\ SettledSound'
    BY <1>1, <2>1 DEF Calm, CalmSound, Alone, Open, SettledSound, Follows
  <2> QED BY <1>2, <2>2 DEF LayoutInv
<1>4. ASSUME NEW w \in Ids, OtherOpens(w) \/ OtherCloses(w) \/ OtherChanges(w) PROVE LayoutInv'
  <2>1. settled' = Unsettled
    BY <1>4 DEF OtherOpens, OtherCloses, OtherChanges, Other
  <2> QED BY <1>1, <1>2, <1>4, <2>1, OthersCalm, Unsettling DEF LayoutInv
<1>5. ASSUME NEW c \in Appliers, Applying(c) PROVE LayoutInv'
  <2>1. CASE Start(c)
    BY <1>1, <1>2, <2>1, StartCalm, StartSettled DEF LayoutInv
  <2>2. CASE StartBatch(c)
    BY <1>1, <1>2, <2>2, StartCalm, Unsettling DEF LayoutInv, StartBatch
  <2>3. CASE Update(c)
    BY <1>1, <1>2, <2>3, UpdateCalm, UpdateSettled DEF LayoutInv
  <2>4. CASE Create(c)
    BY <1>1, <1>2, <2>4, CreateCalm, CreateSettled DEF LayoutInv
  <2>5. CASE Prune(c)
    BY <1>1, <1>2, <2>5, PruneCalm, PruneSettled DEF LayoutInv
  <2>6. CASE Return(c)
    <3>1. jobs[c].at = "entries" /\ Become(c, NoJob)
      BY <1>1, <2>6, ReturnIs
    <3>2. Calm'
      BY <1>1, <3>1, NoJobIs, Becoming, EndCalm DEF Sound
    <3> QED BY <1>1, <1>2, <2>6, <3>2, ReturnSettled DEF LayoutInv
  <2>7. CASE CreateFails(c)
    <3>1. jobs[c].at = "entries" /\ Become(c, NoJob) /\ settled' = Unsettled
      BY <2>7 DEF CreateFails, Pending
    <3>2. Calm'
      BY <1>1, <3>1, NoJobIs, Becoming, EndCalm DEF Sound
    <3> QED BY <1>2, <3>1, <3>2, Unsettling DEF LayoutInv
  <2>8. CASE Export(c)
    <3>1. UNCHANGED <<desk, jobs>>
      BY <2>8 DEF Export
    <3>2. Calm'
      BY <1>1, <3>1 DEF Calm, CalmSound, Alone, Open
    <3> QED BY <1>1, <1>2, <2>8, <3>2, ExportSettled DEF LayoutInv
  <2> QED BY <1>5, <2>1, <2>2, <2>3, <2>4, <2>5, <2>6, <2>7, <2>8 DEF Applying
<1> QED BY <1>3, <1>4, <1>5 DEF ApplyNext

LEMMA LayoutInvariant == ApplySpecification => []LayoutInv
BY LayoutStartsSettled, LayoutKeeps, PTL DEF ApplySpecification

LEMMA PrefixIs ==
  ASSUME NEW s \in Seq(Ids), NEW t \in Seq(Ids), Len(s) <= Len(t), \A i \in DOMAIN s : s[i] = t[i]
  PROVE  IsPrefix(s, t)
<1> DEFINE n == Len(s)
<1>1. n \in Nat /\ n <= Len(t) /\ Len(t) \in Nat /\ DOMAIN s = 1..n
  OBVIOUS
<1> HIDE DEF n
<1>2. 1 \in 1..Len(s) + 1 /\ 1 \in 1..Len(t) + 1 /\ n \in 0..Len(s) /\ n \in 0..Len(t)
  BY <1>1 DEF n
<1>3. /\ SubSeq(s, 1, n) \in Seq(Ids) /\ Len(SubSeq(s, 1, n)) = n
      /\ \A i \in 1..n : SubSeq(s, 1, n)[i] = s[i]
  BY <1>1, <1>2
<1>4. /\ SubSeq(t, 1, n) \in Seq(Ids) /\ Len(SubSeq(t, 1, n)) = n
      /\ \A i \in 1..n : SubSeq(t, 1, n)[i] = t[i]
  BY <1>1, <1>2
<1>5. \A i \in 1..n : SubSeq(s, 1, n)[i] = SubSeq(t, 1, n)[i]
  BY <1>1, <1>3, <1>4
<1>6. SubSeq(s, 1, n) = SubSeq(t, 1, n)
  BY <1>3, <1>4, <1>5, SeqEqual
<1> QED BY <1>1, <1>6 DEF IsPrefix, n

(* Applying again a layout that nobody disturbed, or one just exported, is idempotent whatever the
   document, however many clients apply it at once and however often: each entry takes the window it
   had, none of them is closed, and they stay as the document asks (apply_spec, export_spec). *)
THEOREM LayoutsAreKept == ApplySpecification => []LayoutIsKept
<1>1. LayoutInv => LayoutIsKept
  <2> SUFFICES ASSUME LayoutInv PROVE LayoutIsKept
    OBVIOUS
  <2>1. LayoutTypes /\ \A c \in Appliers : JobSound(c)
    BY DEF LayoutInv, Sound
  <2>2. settled.of \in Seq(Ids) /\ settled.doc \in Seq(AnyEntry) /\ Len(settled.of) = Len(settled.doc)
    BY <2>1, SettledFields DEF LayoutTypes
  <2>3. CASE settled = Unsettled
    BY <2>3, UnsettledIs DEF LayoutIsKept, LayoutIsAsAsked, LayoutStaysOpen, Reapplies
  <2>4. CASE settled # Unsettled
    <3>1. settled.distinct => LaysOut(desk, settled) /\ \A c \in Appliers : Follows(c)
      BY <2>4 DEF LayoutInv, SettledSound
    <3>2. LayoutIsAsAsked
      BY <3>1 DEF LayoutIsAsAsked, LaysOut, AsAsked, Open
    <3>3. settled.distinct => LayoutStaysOpen
      BY <3>1 DEF LayoutStaysOpen, LaysOut, Range, Open
    <3>4. ASSUME settled.distinct, NEW c \in Appliers, Reapplies(c) PROVE IsPrefix(jobs[c].of, settled.of)
      <4>1. /\ jobs[c].at = "entries" /\ jobs[c].doc = settled.doc /\ jobs[c] \in JobType
            /\ Len(jobs[c].of) <= Len(jobs[c].doc)
        BY <2>1, <3>4 DEF Reapplies, LayoutTypes, JobSound
      <4>2. \A i \in DOMAIN jobs[c].of : jobs[c].of[i] = settled.of[i]
        BY <3>1, <3>4, <4>1 DEF Follows
      <4>3. jobs[c].of \in Seq(Ids)
        BY <4>1, JobFields
      <4>4. Len(jobs[c].of) <= Len(settled.of)
        BY <2>2, <4>1
      <4> QED BY <2>2, <4>2, <4>3, <4>4, PrefixIs
    <3> QED BY <3>2, <3>3, <3>4 DEF LayoutIsKept
  <2> QED BY <2>3, <2>4
<1> QED BY <1>1, LayoutInvariant, PTL

(* The desk and the appliers' jobs stay in their types, and an id is drawn once. *)
THEOREM LayoutTypesHold == ApplySpecification => []ApplyTypeOK
<1>1. Sound => ApplyTypeOK
  <2> SUFFICES ASSUME Sound PROVE ApplyTypeOK
    OBVIOUS
  <2>1. LayoutTypes /\ \A c \in Appliers : JobSound(c) /\ jobs[c] \in JobType
    BY DEF Sound, LayoutTypes
  <2>2. Open \subseteq Ids /\ unused \subseteq Ids \ Open /\ \A w \in Open : desk[w] \in WindowRecord
    BY <2>1, DeskIs DEF LayoutTypes
  <2>3. ASSUME NEW c \in Appliers
        PROVE  /\ jobs[c].doc \in Seq(AnyEntry) /\ jobs[c].of \in Seq(Ids)
               /\ Len(jobs[c].of) <= Len(jobs[c].doc)
               /\ jobs[c].created \union jobs[c].looked \union since[c] \subseteq Ids
    BY <2>1, JobFields DEF LayoutTypes, JobSound
  <2>4. \A w \in Open : /\ desk[w].source \in Sources /\ desk[w].url \in Sources
                        /\ desk[w].desc \in Tags \union Ids \union {Unset}
    BY <2>2 DEF WindowRecord, NormalSources, TrimmedDescs
  <2> QED BY <2>2, <2>3, <2>4 DEF ApplyTypeOK, WindowRecord, AnyEntry
<1> QED BY <1>1, LayoutSoundness, PTL

-----------------------------------------------------------------------------
(* The sum *)

\* A behaviour of the sum is one of every part: the part that acts takes one of its own steps.
LEMMA PartsRun == AllSpec => DeskSpec /\ ApplySpecification /\ RequestSpec
<1>1. AllInit => DeskInit /\ ApplyInit /\ RequestInit
  BY DEF AllInit
<1>2. [AllNext]_allVars => [DeskNext]_deskVars /\ [ApplyNext]_applyVars /\ [RequestNext]_requestVars
  BY DEF AllNext, allVars
<1> QED BY <1>1, <1>2, PTL DEF AllSpec, DeskSpec, ApplySpecification, RequestSpec

\* The types of every part, in a behaviour that exercises any of them.
THEOREM DeskTypesHold == AllSpec => []DeskTypeOK
<1>1. DeskTypeOK <=> RegistryTypeOK /\ ApplyTypeOK /\ RequestTypeOK
  BY DEF DeskTypeOK
<1> QED BY <1>1, PartsRun, RegistryTypesHold, LayoutTypesHold, RequestTypesHold, PTL
=============================================================================
