----------------------------- MODULE ApplySpec -----------------------------
(***************************************************************************)
(* Declarative layouts (commands.rs: apply_spec, export_spec, open_batch): *)
(* a document lists the windows there should be; apply matches each entry  *)
(* with a window of the list it took at the start, updates the window or   *)
(* opens one, and at last closes the listed windows no entry took.  No     *)
(* lock is held: windows are opened, closed, tagged and navigated by       *)
(* others meanwhile.  open_batch opens the windows of a document without a *)
(* look at those there are.                                                *)
(*                                                                         *)
(* Sources, names and geometries are members of small sets, with what an   *)
(* open or a tag makes of them; the geometry of an entry stands for its    *)
(* media action too.  The registry lists windows by id, and ids are drawn  *)
(* at random.                                                              *)
(***************************************************************************)
EXTENDS Naturals, Sequences, FiniteSets, SequencesExt

CONSTANTS
  Ids,        \* window session ids, a set of naturals: the registry's order
  Sources,    \* URLs and paths
  Normal,     \* Normal[s]: what is recorded of a source s, a URL as the parser writes it
  Tags,       \* names and descriptions
  Trimmed,    \* Trimmed[d]: what is recorded of a description d; a blank one is none
  Geometries,
  Unset,      \* a model value: an omitted field, no description
  Documents,  \* bound: the documents that may be applied
  Appliers,   \* clients that apply or export
  MaxApplies, \* bound: how many applications begin
  OtherTags,  \* bound: the descriptions others give
  MaxOthers   \* bound: how many windows others open, close, tag or navigate

Entries(names) ==
  [name : names \union {Unset}, source : Sources, desc : names \union {Unset}, geo : Geometries \union {Unset}]

ASSUME ApplyAssumption ==
  /\ Ids \subseteq Nat /\ Unset \notin Ids \union Tags \union Geometries
  /\ Normal \in [Sources -> Sources] /\ \A s \in Sources : Normal[Normal[s]] = Normal[s]
  /\ Trimmed \in [Tags \union Ids \union {Unset} -> Tags \union Ids \union {Unset}]
  /\ \A d \in Ids \union {Unset} : Trimmed[d] = d
  /\ \A d \in Tags : Trimmed[Trimmed[d]] = Trimmed[d]
  /\ Documents \subseteq Seq(Entries(Tags))
  /\ OtherTags \subseteq Tags /\ MaxApplies \in Nat /\ MaxOthers \in Nat

VARIABLES
  desk,     \* the registry: [source, url, desc, geo] of each open window
  unused,   \* ids not drawn so far
  jobs,     \* what each applier is doing
  begun,    \* how many applications have begun
  others,   \* how often others have acted
  since,    \* history: the windows opened since each applier began
  settled   \* history: the last document laid out or exported undisturbed, and the window of each entry

applyVars == <<desk, unused, jobs, begun, others, since, settled>>

Open == DOMAIN desk
NoJob == [at |-> "idle", batch |-> FALSE, doc |-> <<>>, prune |-> FALSE, list |-> <<>>, of |-> <<>>, created |-> {},
          looked |-> {}, failed |-> FALSE, calm |-> TRUE]
Unsettled == [doc |-> <<>>, of |-> <<>>, distinct |-> TRUE, batch |-> FALSE]

ApplyInit ==
  /\ desk = [w \in {} |-> 0] /\ unused = Ids
  /\ jobs = [c \in Appliers |-> NoJob] /\ begun = 0 /\ others = 0
  /\ since = [c \in Appliers |-> {}] /\ settled = Unsettled

Entry(job) == job.doc[Len(job.of) + 1]
AllServed(job) == Len(job.of) = Len(job.doc)
Pending(job) == job.at = "entries" /\ ~AllServed(job)

-----------------------------------------------------------------------------
(* Matching *)

\* An entry names a window by its description or id, or has its source; it is compared as it is
\* written with what was recorded.
ByName(w, window, e) == e.name # Unset /\ (window.desc = e.name \/ w = e.name)
BySource(window, e) == window.source = e.source \/ window.url = e.source
Matching(w, window, e) == ByName(w, window, e) \/ BySource(window, e)

First(list, e) ==
  {w \in DOMAIN list : Matching(w, list[w], e) /\ \A v \in DOMAIN list : Matching(v, list[v], e) => w <= v}

\* The description a window is opened with: apply_spec prefers the description, open_batch the name.
Description(e) == IF e.desc # Unset THEN e.desc ELSE e.name
BatchDescription(e) == IF e.name # Unset THEN e.name ELSE e.desc

-----------------------------------------------------------------------------
(* Others *)

Disturbed == [c \in Appliers |-> [jobs[c] EXCEPT !.calm = FALSE]]

Other ==
  /\ others < MaxOthers /\ others' = others + 1
  /\ settled' = Unsettled /\ jobs' = Disturbed
  /\ UNCHANGED begun

Opened(w, window) ==
  /\ w \in unused
  /\ unused' = unused \ {w}
  /\ desk' = [v \in Open \union {w} |-> IF v = w THEN window ELSE desk[v]]

Closed(w) == desk' = [v \in Open \ {w} |-> desk[v]]

OtherOpens(w) ==
  /\ Other
  /\ \E s \in Range(Normal), d \in OtherTags \union {Unset} :
       Opened(w, [source |-> s, url |-> s, desc |-> Trimmed[d], geo |-> Unset])
  /\ since' = [c \in Appliers |-> since[c] \union {w}]

OtherCloses(w) == w \in Open /\ Other /\ Closed(w) /\ UNCHANGED <<unused, since>>

OtherChanges(w) ==
  /\ w \in Open /\ Other
  /\ \/ \E s \in Range(Normal) : desk' = [desk EXCEPT ![w].url = s]
     \/ \E d \in OtherTags : desk' = [desk EXCEPT ![w].desc = Trimmed[d]]
  /\ UNCHANGED <<unused, since>>

-----------------------------------------------------------------------------
(* Appliers *)

Become(c, job) == jobs' = [jobs EXCEPT ![c] = job]
Alone(c) == \A d \in Appliers \ {c} : jobs[d].at = "idle"

Start(c) ==
  /\ jobs[c].at = "idle" /\ begun < MaxApplies
  /\ begun' = begun + 1
  /\ \E doc \in Documents \union {settled.doc}, prune \in BOOLEAN :
       /\ jobs' = [Disturbed EXCEPT ![c] =
            [NoJob EXCEPT !.at = "entries", !.doc = doc, !.prune = prune, !.list = desk, !.calm = Alone(c)]]
       /\ settled' = IF doc = settled.doc THEN settled ELSE Unsettled
  /\ since' = [since EXCEPT ![c] = {}]
  /\ UNCHANGED <<desk, unused, others>>

\* A batch has at least one entry, and matches none with a window.
StartBatch(c) ==
  /\ jobs[c].at = "idle" /\ begun < MaxApplies
  /\ begun' = begun + 1
  /\ \E doc \in Documents \ {<<>>} :
       jobs' = [Disturbed EXCEPT ![c] =
         [NoJob EXCEPT !.at = "entries", !.batch = TRUE, !.doc = doc, !.calm = Alone(c)]]
  /\ settled' = Unsettled
  /\ since' = [since EXCEPT ![c] = {}]
  /\ UNCHANGED <<desk, unused, others>>

\* tag when the listed description differs, resize, media; what they answer is ignored.
Update(c) ==
  LET job == jobs[c]  e == Entry(job) IN
  /\ Pending(job)
  /\ \E w \in First(job.list, e), done \in SUBSET {"tag", "resize"} :
       LET asked == {step \in {"tag", "resize"} :
                       IF step = "tag" THEN e.desc \notin {Unset, job.list[w].desc} ELSE e.geo # Unset} IN
       /\ done \subseteq asked /\ (done # {} => w \in Open)
       /\ Become(c, [job EXCEPT !.of = Append(@, w), !.failed = @ \/ done # asked])
       /\ desk' = [v \in Open |->
            IF v # w THEN desk[v]
            ELSE [desk[v] EXCEPT !.desc = IF "tag" \in done THEN Trimmed[e.desc] ELSE @,
                                 !.geo = IF "resize" \in done THEN e.geo ELSE @]]
  /\ UNCHANGED <<unused, begun, others, since, settled>>

Create(c) ==
  LET job == jobs[c]  e == Entry(job) IN
  /\ Pending(job) /\ First(job.list, e) = {}
  /\ \E w \in unused :
       /\ Opened(w, [source |-> Normal[e.source], url |-> Normal[e.source], geo |-> e.geo,
                      desc |-> Trimmed[IF job.batch THEN BatchDescription(e) ELSE Description(e)]])
       /\ Become(c, [job EXCEPT !.of = Append(@, w), !.created = @ \union {w}])
       /\ since' = [d \in Appliers |-> since[d] \union {w}]
  /\ UNCHANGED <<begun, others, settled>>

\* The open of an entry fails: apply returns, and what it did before stays.
CreateFails(c) ==
  LET job == jobs[c] IN
  /\ Pending(job) /\ First(job.list, Entry(job)) = {}
  /\ Become(c, NoJob)
  /\ settled' = Unsettled
  /\ UNCHANGED <<desk, unused, begun, others, since>>

\* Fault: the windows that entries matched are not noted.
UnclaimedMatches(job) == DOMAIN job.list \ job.created

\* Fault: the windows are listed again.
UnclaimedNow(job) == Open \ Range(job.of)

Unclaimed(job) == DOMAIN job.list \ Range(job.of)

\* The windows prune still has to look at, in the order of the list.
Prunable(job) == {w \in Unclaimed(job) : w \notin job.looked}

Prune(c) ==
  LET job == jobs[c] IN
  /\ job.at = "entries" /\ AllServed(job) /\ job.prune
  /\ \E w \in Prunable(job) :
       /\ \A v \in Prunable(job) : w <= v
       /\ Become(c, [job EXCEPT !.looked = @ \union {w}])
       /\ \/ w \in Open /\ Closed(w)
          \/ UNCHANGED desk
  /\ UNCHANGED <<unused, begun, others, since, settled>>

\* An entry matches its own window and no other, also when windows have their entries' descriptions.
Distinct(doc, of) ==
  \A i \in DOMAIN of :
    /\ \A w \in Open : Matching(w, desk[w], doc[i]) <=> w = of[i]
    /\ \A j \in DOMAIN of : doc[j].desc # Unset =>
         (Matching(of[j], [desk[of[j]] EXCEPT !.desc = Trimmed[doc[j].desc]], doc[i]) <=> i = j)

Settle(doc, of, batch) == [doc |-> doc, of |-> of, distinct |-> Distinct(doc, of), batch |-> batch]

\* A layout is settled when every entry opened a window and nothing else happened.
Return(c) ==
  LET job == jobs[c] IN
  /\ job.at = "entries" /\ AllServed(job)
  /\ job.prune => Prunable(job) = {}
  /\ Become(c, NoJob)
  /\ settled' = IF job.calm /\ job.doc # <<>> /\ job.created = Range(job.of)
                THEN Settle(job.doc, job.of, job.batch)
                ELSE settled
  /\ UNCHANGED <<desk, unused, begun, others, since>>

\* export_spec: a window is named by its id.
Export(c) ==
  LET entry(w) == [name |-> w, source |-> desk[w].url, desc |-> desk[w].desc, geo |-> desk[w].geo] IN
  /\ jobs[c].at = "idle"
  /\ \E list \in [1..Cardinality(Open) -> Open] :
       /\ \A i, j \in DOMAIN list : i < j => list[i] < list[j]
       /\ settled' = IF Alone(c) THEN Settle([i \in DOMAIN list |-> entry(list[i])], list, FALSE) ELSE Unsettled
  /\ UNCHANGED <<desk, unused, jobs, begun, others, since>>

Applying(c) ==
  \/ Start(c) \/ StartBatch(c) \/ Update(c) \/ Create(c) \/ CreateFails(c)
  \/ Prune(c) \/ Return(c) \/ Export(c)

ApplyNext ==
  \/ \E w \in Ids : OtherOpens(w) \/ OtherCloses(w) \/ OtherChanges(w)
  \/ \E c \in Appliers : Applying(c)

ApplySpecification == ApplyInit /\ [][ApplyNext]_applyVars

-----------------------------------------------------------------------------
(* Properties *)

\* The types of the desk and of the appliers' jobs; an id is drawn once.
ApplyTypeOK ==
  /\ Open \subseteq Ids /\ unused \subseteq Ids \ Open
  /\ \A w \in Open :
       desk[w] \in [source : Sources, url : Sources, desc : Tags \union Ids \union {Unset},
                    geo : Geometries \union {Unset}]
  /\ \A c \in Appliers :
       LET job == jobs[c] IN
       /\ job.doc \in Seq(Entries(Tags \union Ids)) /\ job.of \in Seq(Ids) /\ Len(job.of) <= Len(job.doc)
       /\ job.created \union job.looked \union since[c] \subseteq Ids

Reapplies(c) == jobs[c].at = "entries" /\ ~jobs[c].batch /\ settled # Unsettled /\ jobs[c].doc = settled.doc

\* To apply a layout again that nobody disturbed closes none of its windows: "apply an entire
\* multi-window environment idempotently", prune closes "windows that are absent from the specification".
LayoutStaysOpen == \A c \in Appliers : Reapplies(c) => Range(settled.of) \subseteq Open

\* The windows of a settled layout have the source, description and geometry of their entries, as
\* these are recorded.
LayoutIsAsAsked ==
  settled.distinct /\ ~settled.batch => \A i \in DOMAIN settled.of :
    LET window == desk[settled.of[i]]  e == settled.doc[i] IN
    /\ settled.of[i] \in Open
    /\ window.url = Normal[e.source]
    /\ e.desc = Unset \/ window.desc = Trimmed[e.desc]
    /\ e.geo \in {Unset, window.geo}

\* To apply again a layout that nobody disturbed, or one just exported, changes nothing: each entry
\* takes the window it had, none is opened and none of them is closed.  It holds of the layouts in
\* which every entry matches its own window and no other, by the description that the window has or
\* by the one that its entry gives it (apply_spec); an entry that only has a URL written otherwise
\* than it is recorded matches none.  The layout is then as it was asked for.
LayoutIsKept ==
  /\ LayoutIsAsAsked
  /\ settled.distinct =>
       /\ LayoutStaysOpen
       /\ \A c \in Appliers : Reapplies(c) => IsPrefix(jobs[c].of, settled.of)

\* Prune closes no window that was opened after the apply began, by itself or by others, and none
\* that an entry took; it closes nothing before every entry has its window.
PruneIsSafe ==
  [][\A c \in Appliers : Prune(c) =>
       \A w \in Open \ DOMAIN desk' :
         /\ w \notin since[c] /\ w \notin Range(jobs[c].of)
         /\ AllServed(jobs[c])]_applyVars
=============================================================================
