------------------------------ MODULE PageLoad ------------------------------
(***************************************************************************)
(* How one web window's record follows its page (tauri_window.rs,          *)
(* window_core.rs).  The web view reports started, finished and failed     *)
(* loads on the GUI thread.  While the window is being opened the events   *)
(* are buffered in its ObservationGate; the opening thread then activates  *)
(* the gate, takes the buffer and applies it while the GUI thread applies  *)
(* new events directly.  Status requests write the URL they read from the  *)
(* web view.                                                               *)
(*                                                                         *)
(* The web view is external: a load reports started and finished; one that *)
(* fails reports the failure before finished, and may then load an error   *)
(* page under the same URL.                                                *)
(***************************************************************************)
EXTENDS Naturals, Sequences, FiniteSets, SequencesExt

CONSTANTS
  Urls,        \* pages
  Requested,   \* the URL the window is opened with
  Opens,       \* whether the run begins with the gate closed
  Retries,     \* whether a page that failed may be loaded again at once
  StatusPolls,       \* whether status requests are made
  MaxHistory,  \* MAX_URL_HISTORY_ENTRIES
  MaxLoads     \* bound: loads of the web view

ASSUME PageAssumption ==
  /\ Requested \in Urls
  /\ Opens \in BOOLEAN /\ Retries \in BOOLEAN /\ StatusPolls \in BOOLEAN
  /\ MaxHistory \in Nat \ {0}
  /\ MaxLoads \in Nat

VARIABLES
  view,      \* the web view: the loads it made, as [url, ok], and the events it still has to report
  gate,      \* ObservationGate: [active, pending]
  handed,    \* the event the GUI thread has past the gate, not yet applied (at most 1)
  replay,    \* the events activate_observations still has to apply
  record,    \* the window's record: [state, error, url, history, truncated]
  poll,      \* a status request: the URL it has read and not yet recorded (at most 1)
  polled,    \* history: whether a status request has written the record
  reported,  \* history: the events the web view has reported
  applied    \* history: the events the record has taken, in that order

pageLoadVars == <<view, gate, handed, replay, record, poll, polled, reported, applied>>

Event == [kind: {"started", "finished", "failed"}, url: Urls, load: Nat]
On(kind, url, load) == [kind |-> kind, url |-> url, load |-> load]

PageInit ==
  /\ view = [loads |-> <<>>, script |-> <<>>]
  /\ gate = [active |-> ~Opens, pending |-> <<>>]
  /\ handed = <<>> /\ replay = <<>> /\ poll = <<>> /\ polled = FALSE
  /\ reported = <<>> /\ applied = <<>>
  /\ record = [state |-> "started", error |-> FALSE, url |-> Requested,
               history |-> <<Requested>>, truncated |-> FALSE]

-----------------------------------------------------------------------------
(* The registry's observers *)

\* record_page_started: the error page of a failed load reports the URL that failed.
SameFailedUrl(url) == record.state = "failed" /\ record.url = url

\* Fault: the error page counts as a load of its own.
PageStartedAnew(url) ==
  [record EXCEPT !.state = "started", !.error = FALSE, !.url = url]

PageStarted(url) ==
  IF SameFailedUrl(url) THEN record
  ELSE [record EXCEPT !.state = "started", !.error = FALSE, !.url = url]

\* record_page_finished and trim_url_history
Visit(url) ==
  IF record.history # <<>> /\ Last(record.history) = url THEN record.history
  ELSE LET longer == Append(record.history, url)
       IN IF Len(longer) > MaxHistory THEN Tail(longer) ELSE longer

\* Fault: a load that failed is recorded as finished.
PageFinishedAnyway(url) ==
  [record EXCEPT !.state = "loaded", !.error = FALSE, !.url = url, !.history = Visit(url)]

PageFinished(url) ==
  IF record.state = "failed" \/ record.error THEN record
  ELSE [record EXCEPT !.state = "loaded", !.url = url, !.history = Visit(url),
                      !.truncated = @ \/ Head(Visit(url)) # Head(record.history)]

PageFailed(url) == [record EXCEPT !.state = "failed", !.error = TRUE, !.url = url]

\* apply_observation, under the registry's mutex
Apply(event) ==
  /\ record' = CASE event.kind = "started" -> PageStarted(event.url)
                 [] event.kind = "finished" -> PageFinished(event.url)
                 [] event.kind = "failed" -> PageFailed(event.url)
  /\ applied' = Append(applied, event)

-----------------------------------------------------------------------------
(* The web view *)

Loads == Len(view.loads)
LastLoad == Last(view.loads)
LoadFailed == view.loads # <<>> /\ ~LastLoad.ok

\* A navigation by the host, the user or the page.
Load(url) ==
  /\ view.script = <<>> /\ Loads < MaxLoads
  /\ view.loads = <<>> => url = Requested
  /\ LoadFailed /\ url = LastLoad.url => Retries
  /\ LET started == On("started", url, Loads + 1)
         finished == On("finished", url, Loads + 1)
         failed == On("failed", url, Loads + 1)
     IN \E script \in {<<started, finished>>,
                       <<started, failed, finished>>,
                       <<started, failed, finished, started, finished>>} :
          view' = [loads |-> Append(view.loads, [url |-> url, ok |-> Len(script) = 2]),
                   script |-> script]
  /\ UNCHANGED <<gate, handed, replay, record, poll, polled, reported, applied>>

\* record_or_buffer: the gate's lock is released before the event is applied.
HandEvent ==
  /\ view.script # <<>> /\ handed = <<>>
  /\ view' = [view EXCEPT !.script = Tail(@)]
  /\ reported' = Append(reported, Head(view.script))
  /\ IF gate.active
     THEN handed' = <<Head(view.script)>> /\ UNCHANGED gate
     ELSE gate' = [gate EXCEPT !.pending = Append(@, Head(view.script))] /\ UNCHANGED handed
  /\ UNCHANGED <<replay, record, poll, polled, applied>>

ApplyHanded ==
  /\ handed # <<>>
  /\ Apply(Head(handed))
  /\ handed' = <<>>
  /\ UNCHANGED <<view, gate, replay, poll, polled, reported>>

-----------------------------------------------------------------------------
(* The opening thread *)

\* activate_observations: one step under the gate's lock.
Activate ==
  /\ ~gate.active
  /\ replay' = gate.pending
  /\ gate' = [active |-> TRUE, pending |-> <<>>]
  /\ UNCHANGED <<view, handed, record, poll, polled, reported, applied>>

Replay ==
  /\ replay # <<>>
  /\ Apply(Head(replay))
  /\ replay' = Tail(replay)
  /\ UNCHANGED <<view, gate, handed, poll, polled, reported>>

-----------------------------------------------------------------------------
(* observed_status *)

ReadPolled ==
  /\ StatusPolls /\ poll = <<>> /\ view.loads # <<>>
  /\ poll' = <<LastLoad.url>>
  /\ UNCHANGED <<view, gate, handed, replay, record, polled, reported, applied>>

\* record_observed_url
RecordPolled ==
  /\ poll # <<>>
  /\ record' = [record EXCEPT !.url = Head(poll)]
  /\ poll' = <<>> /\ polled' = TRUE
  /\ UNCHANGED <<view, gate, handed, replay, reported, applied>>

PageNext ==
  \/ \E url \in Urls : Load(url)
  \/ HandEvent \/ ApplyHanded \/ Activate \/ Replay \/ ReadPolled \/ RecordPolled

PageSpec == PageInit /\ [][PageNext]_pageLoadVars

\* The event loop runs on, and so does the opening thread once there is an event; nobody has to
\* navigate or poll.
Opening == reported # <<>> /\ (Activate \/ Replay)
PageFairness ==
  /\ WF_pageLoadVars(Opening)
  /\ WF_pageLoadVars(HandEvent)
  /\ WF_pageLoadVars(ApplyHanded)
-----------------------------------------------------------------------------
(* Properties *)

PageTypeOK ==
  /\ view.loads \in Seq([url: Urls, ok: BOOLEAN]) /\ view.script \in Seq(Event)
  /\ gate.active \in BOOLEAN /\ gate.pending \in Seq(Event)
  /\ handed \in Seq(Event) /\ Len(handed) <= 1
  /\ replay \in Seq(Event)
  /\ record.state \in {"started", "loaded", "failed"}
  /\ record.error = (record.state = "failed")
  /\ record.url \in Urls /\ record.history \in Seq(Urls) /\ Len(record.history) <= MaxHistory
  /\ record.truncated \in BOOLEAN
  /\ poll \in Seq(Urls) /\ polled \in BOOLEAN

\* The gate neither loses an event nor applies one twice, at whatever moment it is
\* activated: what was reported is what was applied and what is on its way.
Times(events, event) == Cardinality({i \in DOMAIN events : events[i] = event})
EventsKept ==
  \A event \in ToSet(applied \o handed \o replay \o gate.pending \o reported) :
    Times(applied, event) + Times(handed, event) + Times(replay, event) + Times(gate.pending, event)
      = Times(reported, event)

\* Every event reported reaches the record, also one that finds the gate closed.
EventsArrive == []<>(Len(applied) = Len(reported))

\* Everything the web view had to report has reached the record.
Settled ==
  /\ view.loads # <<>> /\ view.script = <<>>
  /\ gate.active /\ handed = <<>> /\ replay = <<>> /\ poll = <<>>

\* The record took the events in the order they were reported, and nothing else.
Orderly == IsPrefix(applied, reported) /\ ~polled

\* A page that failed and was loaded again at once.
Retried ==
  \E i \in 2..Loads : ~view.loads[i - 1].ok /\ view.loads[i].url = view.loads[i - 1].url

\* Events applied in order leave the record with the last load and its outcome,
\* whatever error pages reported after a failure.
OrderlyIsLive ==
  Settled /\ Orderly /\ ~Retried
    => /\ record.url = LastLoad.url
       /\ record.state = (IF LastLoad.ok THEN "loaded" ELSE "failed")

\* No event is lost or applied twice, and events applied in order leave a URL
\* timeline that holds the requested URL and pages that loaded, never a page that
\* only failed, and that is marked as truncated when it is not whole.
TimelineIsTrue ==
  EventsKept /\
  LET loaded == {view.loads[i].url : i \in {j \in DOMAIN view.loads : view.loads[j].ok}}
  IN Orderly =>
     /\ ToSet(record.history) \subseteq {Requested} \cup loaded
     /\ record.truncated \/ Head(record.history) = Requested
=============================================================================
