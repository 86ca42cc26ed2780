------------------------------ MODULE Requests ------------------------------
(***************************************************************************)
(* A request from the command line to its answer (request.rs and           *)
(* validation.rs of the client; handler.rs, commands.rs and the modules    *)
(* whose checks they call): the client checks the arguments and sends, or  *)
(* refuses; the host checks again, serves one window, all of them or the   *)
(* entries of a manifest in order, and answers.  Other programs may send   *)
(* requests that no client has checked.                                    *)
(*                                                                         *)
(* Fields are abstracted to what the checks tell apart: a text is its      *)
(* length as typed and trimmed, one limit stands for that of every field,  *)
(* and formed says whether a path, a domain or a URL has the right form.   *)
(* What serving does to a window is the subject of the other modules: here *)
(* it succeeds, or fails before or after it has had an effect.             *)
(***************************************************************************)
EXTENDS Integers, Sequences, SequencesExt

CONSTANTS
  Asked,       \* bound: the requests that may be made
  Found,       \* how many windows a request for all windows finds
  MaxChars,    \* the limit of a text (MAX_DESCRIPTION_CHARS, MAX_INTERACTION_SELECTOR_CHARS, ...)
  MaxItems,    \* the limit of a list (MAX_OPEN_BATCH_WINDOWS, MAX_INTERACTION_ACTIONS)
  MaxNumber,   \* the limit of a number (MAX_RETENTION_DAYS, 16384 pixels, full volume, ...)
  MaxFrame,    \* MAX_FRAME_BYTES, less what a request has around its texts
  NotGiven,       \* a model value: an option that is not given, or null
  NaN          \* a model value: not a number

Texts == {t \in [raw : Nat, bare : Nat] : t.bare <= t.raw}
Bulk == {"console", "screenshot", "media", "tag", "resize"}
Kinds == Bulk \union {"close", "open", "batch", "history", "config", "record", "interact", "auth"}

(* all: --all, --clear or --domain; target: a window is named, that fits the operation or not. *)
RequestType ==
  [kind : Kinds, all : BOOLEAN, target : {"none", "fit", "unfit"}, texts : Seq(Texts),
   number : Int \union {NotGiven, NaN}, formed : BOOLEAN]

ASSUME RequestsAssumption ==
  /\ \A r \in Asked : r \in RequestType /\ (r.kind \in {"open", "tag"} => r.texts # <<>>)
  /\ NotGiven \notin Int /\ NaN \notin Int \union {NotGiven}
  /\ Found \in Nat /\ MaxChars \in Nat /\ MaxItems \in Nat \ {0} /\ MaxNumber \in Nat /\ MaxFrame \in Nat

VARIABLES
  request,  \* what is asked
  sender,   \* "client", or "other": a program that checks nothing
  stage,    \* "made", "refused" by the client, "sent", "serving" or "answered"
  todo,     \* what the host has still to serve: windows, or entries of a manifest
  touched,  \* what it has had an effect on
  results,  \* what the answer lists
  code      \* the exit code: 0, 1 (refused), 2 (another version), 6 (failed, however), 7 (no frame)
            \* or NotGiven

requestVars == <<request, sender, stage, todo, touched, results, code>>

-----------------------------------------------------------------------------
(* Checks *)

Blank(t) == t.bare = 0
Long(t) == t.bare > MaxChars
Typed(t) == t.raw <= MaxChars  \* a field that is measured as it was typed
Given(r) == ToSet(r.texts)
Within(n, least) == n # NaN /\ n # NotGiven /\ least <= n /\ n <= MaxNumber

Length(texts) == FoldSeq(LAMBDA t, n : t.raw + n, 0, texts)

\* encode_frame, read_frame
Fits(r) == Length(r.texts) <= MaxFrame

\* interaction_actions_for and validate_request, with the timeout
SoundSteps(r) ==
  /\ Len(r.texts) \in 1..MaxItems /\ Within(r.number, 1)
  /\ \A t \in Given(r) : ~Blank(t) /\ Typed(t)

\* A query is measured trimmed, and null days keep everything.
SoundQuery(r) == \A t \in Given(r) : ~Blank(t) /\ ~Long(t)
SoundDays(r) == r.number = NotGiven \/ Within(r.number, 1)

(* The client: request_for and auth_session_action_for *)

OneTarget(r) == r.kind \in Bulk \union {"close", "auth"} => r.all # (r.target # "none")

\* The scheme of a source, which the host looks at again, is left to it.
ClientOpens(r) ==
  /\ r.kind = "open" => ~Blank(r.texts[1]) /\ ~Long(r.texts[1])
  /\ r.kind = "batch" => Len(r.texts) \in 1..MaxItems

ClientSettings(r) ==
  /\ r.kind = "history" => ~(r.all /\ r.texts # <<>>) /\ SoundQuery(r)
  /\ r.kind = "config" => SoundDays(r)

ClientPages(r) ==
  /\ r.kind = "media" => Within(r.number, 0)
  /\ r.kind = "record" => r.number = NaN \/ Within(r.number, 1)  \* comparisons with NaN are false
  /\ r.kind = "interact" => SoundSteps(r)

ClientWindows(r) ==
  /\ r.kind = "tag" => Typed(r.texts[1])
  /\ r.kind = "resize" => r.number # NotGiven

ClientAccepts(r) ==
  OneTarget(r) /\ ClientOpens(r) /\ ClientSettings(r) /\ ClientPages(r) /\ ClientWindows(r) /\ Fits(r)

(* The host: what it refuses before it looks for a window *)

\* A frame holds no NaN, which is encoded as null and is no number to the host; a domain or a
\* window is a variant of the request, so that none has both or neither.
Decodes(r) == r.number # NaN /\ (r.kind = "auth" => r.all # (r.target # "none"))

\* handle: --all wins over a target, but for close.
Aimed(r) ==
  /\ r.kind \in Bulk => r.all \/ r.target # "none"
  /\ r.kind = "close" => r.all # (r.target # "none")

\* Fault: a manifest may have one entry too many.
OneMore(r) == Len(r.texts) \in 1..MaxItems + 1

\* open_batch
Manifest(r) == Len(r.texts) \in 1..MaxItems

Admitted(r) ==
  /\ Aimed(r)
  /\ r.kind = "batch" => Manifest(r)
  /\ r.kind = "history" /\ ~r.all => SoundQuery(r)
  /\ r.kind = "config" => SoundDays(r)
  /\ r.kind = "interact" => SoundSteps(r)

(* The host: what it refuses for one window, or one entry, before it acts on it *)

\* validate_url, validate_description
Describes(r, i) ==
  /\ r.kind = "open" => r.formed /\ ~Blank(r.texts[1]) /\ \A t \in Given(r) : ~Long(t)
  /\ r.kind = "batch" => ~Long(r.texts[i])
  /\ r.kind = "tag" => ~Long(r.texts[1])

\* validate_action of the authorizations
Grants(r) == r.kind = "auth" => r.formed /\ \A t \in Given(r) : ~Blank(t) /\ ~Long(t)

Suits(r, i) ==
  /\ r.target # "unfit"
  /\ r.kind \in {"screenshot", "record", "interact"} => r.formed
  /\ r.kind = "media" => Within(r.number, 0)
  /\ r.kind = "resize" => r.number = NotGiven \/ Within(r.number, 1)
  /\ Describes(r, i) /\ Grants(r)

\* The windows, or the entries, that a request is about.
Items(r) ==
  CASE r.kind = "batch" -> [i \in 1..Len(r.texts) |-> i]
    [] r.kind \in Bulk \union {"close"} /\ r.all -> [i \in 1..Found |-> i]
    [] OTHER -> <<1>>

-----------------------------------------------------------------------------
(* Steps *)

RequestInit ==
  /\ request \in Asked /\ sender \in {"client", "other"}
  /\ stage = "made" /\ todo = <<>> /\ touched = {} /\ results = <<>> /\ code = NotGiven

Answer(c) == stage' = "answered" /\ code' = c /\ todo' = <<>>

Send ==
  /\ stage = "made"
  /\ IF sender = "other" \/ ClientAccepts(request)
     THEN stage' = "sent" /\ UNCHANGED code
     ELSE stage' = "refused" /\ code' = 1
  /\ UNCHANGED <<request, sender, todo, touched, results>>

Receive ==
  /\ stage = "sent"
  /\ \/ ~Fits(request) /\ Answer(7)
     \/ Fits(request) /\ ~(Decodes(request) /\ Admitted(request)) /\ Answer(1)
     \/ Fits(request) /\ Decodes(request) /\ sender = "other" /\ Answer(2)
     \/ /\ Fits(request) /\ Decodes(request) /\ Admitted(request)
        /\ \/ request.kind \in Bulk /\ request.all /\ Answer(6)  \* the windows cannot be listed
           \/ stage' = "serving" /\ todo' = Items(request) /\ UNCHANGED code
  /\ UNCHANGED <<request, sender, touched, results>>

\* Whether the first failure ends the request: close_all and open_batch stop, the other requests
\* for all windows pass a window over.
Stops(r) == ~(r.kind \in Bulk /\ r.all)

Fails(c) ==
  /\ IF Stops(request) THEN Answer(c) ELSE todo' = Tail(todo) /\ UNCHANGED <<stage, code>>
  /\ UNCHANGED results

\* Fault: what is wrong with an entry is found out when it has been acted upon.
ServeFirst ==
  /\ stage = "serving" /\ todo # <<>>
  /\ touched' = touched \union {Head(todo)}
  /\ IF Suits(request, Head(todo))
     THEN results' = Append(results, Head(todo)) /\ todo' = Tail(todo) /\ UNCHANGED <<stage, code>>
     ELSE Fails(1)
  /\ UNCHANGED <<request, sender>>

Serve ==
  LET i == Head(todo) IN
  /\ stage = "serving" /\ todo # <<>>
  /\ \/ /\ Suits(request, i)
        /\ touched' = touched \union {i} /\ results' = Append(results, i)
        /\ todo' = Tail(todo) /\ UNCHANGED <<stage, code>>
     \/ ~Suits(request, i) /\ Fails(1) /\ UNCHANGED touched
     \/ Suits(request, i) /\ touched' \in {touched, touched \union {i}} /\ Fails(6)
  /\ UNCHANGED <<request, sender>>

Finish ==
  /\ stage = "serving" /\ todo = <<>>
  /\ Answer(0)
  /\ UNCHANGED <<request, sender, touched, results>>

RequestNext == Send \/ Receive \/ Serve \/ Finish

RequestSpec == RequestInit /\ [][RequestNext]_requestVars

-----------------------------------------------------------------------------
(* Properties *)

\* The types of the request, its progress and its answer.
RequestTypeOK ==
  /\ request \in Asked /\ sender \in {"client", "other"}
  /\ stage \in {"made", "refused", "sent", "serving", "answered"}
  /\ touched \subseteq 1..(MaxItems + Found)
  /\ ToSet(results) \subseteq touched /\ ToSet(todo) \intersect ToSet(results) = {}
  /\ code \in {NotGiven, 0, 1, 2, 6, 7}
  /\ code = NotGiven <=> stage \in {"made", "sent", "serving"}

\* Exit code 0 means that everything asked for was done, in its order, and the codes 1, 2 and 7
\* that nothing was: a validation error comes before the first effect, also when no client checked
\* (docs/CLI.md, exit codes).  It holds with two exceptions: a request for all windows passes
\* over those that fail, and a manifest is judged entry by entry, so that the entries before a
\* bad one have been opened, and none after it.
AnswerIsHonest ==
  LET everyWindow == request.all /\ request.kind \in Bulk IN
  stage \in {"refused", "answered"} =>
    /\ code = 0 /\ ~everyWindow => results = Items(request)
    /\ code \in {2, 7} \/ (code = 1 /\ request.kind # "batch") => touched = {}
    /\ ~everyWindow => \A i \in touched : \A j \in 1..i - 1 : j \in ToSet(results)

\* The checks of the host alone.
HostTakes(r) ==
  Fits(r) /\ Decodes(r) /\ Admitted(r) /\ \A i \in ToSet(Items(r)) : Suits(r, i)

\* What only the client refuses: both of two exclusive options, an operation that changes
\* nothing, a tag that is short enough only once trimmed, the duration of a recording, and
\* whatever a request for all windows asks for when there is none.
OnlyClient(r) ==
  \/ Items(r) = <<>>
  \/ r.all /\ (r.target # "none" \/ r.texts # <<>>)
  \/ r.kind = "resize" /\ r.number = NotGiven
  \/ r.kind = "tag" /\ ~Typed(r.texts[1])
  \/ r.kind = "record"

\* What only the host can know, or alone checks: windows, the forms of paths, domains and URLs,
\* descriptions, reasons, sizes, and a duration that is no number.
OnlyHost(r) ==
  r.target = "unfit" \/ ~r.formed \/ r.kind \in {"open", "batch", "auth", "resize"} \/ r.number = NaN

\* The client and the host check the same fields in two places: what one of them refuses the
\* other would refuse as well, but for what only one of them checks (validation.rs of the
\* client, validate_* of the host).
VerdictsAgree ==
  /\ stage = "refused" => ~HostTakes(request) \/ OnlyClient(request)
  /\ sender = "client" /\ stage = "answered" /\ code \in {1, 7} => OnlyHost(request)
=============================================================================
