---------------------------- MODULE WindowHistory ----------------------------
(***************************************************************************)
(* The window manager (tauri_window.rs and tauri_window/) in front of the  *)
(* database worker: API threads that open, close, list and inspect windows *)
(* or change the configuration, the GUI thread that delivers page events   *)
(* and Destroyed events, and users who close windows.  They share the      *)
(* registry of windows, the pending close reasons and the worker's queue.  *)
(*                                                                         *)
(* The lifecycle lock is a reader-writer lock and is not a variable: an    *)
(* open reads it from its first step to its return, a close or a change of *)
(* the history setting writes it.  The registry's mutex is held for one    *)
(* step at a time, except by config, which keeps it while it waits for the *)
(* worker.                                                                 *)
(*                                                                         *)
(* The pages a window shows are numbered in the order it shows them, so    *)
(* that a snapshot that is out of date has a smaller number.               *)
(***************************************************************************)
EXTENDS DbWorker

CONSTANTS
  Calls,     \* the requests the clients make in this instance
  MaxPages   \* bound: pages one window ever shows

\* What the registry records of windows that show at most MaxPages pages: the timeline
\* has the pages in the order they were shown, none newer than the one that is shown,
\* and lacks the first one only when it was cut.
Timelines == UNION {[1..n -> 1..MaxPages] : n \in 1..MaxTimeline}
Records ==
  {snap \in [win: Windows, url: 1..MaxPages, urls: Timelines, trunc: BOOLEAN] :
     /\ \A i, j \in DOMAIN snap.urls : i < j => snap.urls[i] < snap.urls[j]
     /\ \A i \in DOMAIN snap.urls : snap.urls[i] <= snap.url
     /\ snap.trunc => snap.urls[1] > 1 /\ Len(snap.urls) = MaxTimeline}

ASSUME HostAssumption ==
  /\ Calls \subseteq {"open", "close", "close_all", "list", "status",
                      "enable", "disable", "retention", "clear"}
  /\ MaxPages \in Nat \ {0}
  /\ Records \subseteq Snapshots

VARIABLES
  registry,    \* WindowRegistry: window -> its ActiveWindow, as a partial function
  native,      \* the native window: unused, hidden, live, dying, gone
  reasons,     \* pending_close_reasons: the windows with an explicit reason
  gates,       \* the windows whose ObservationGate is active
  observed,    \* the snapshots the GUI thread has taken and not yet sent (at most 1)
  task,        \* what each client's API thread is doing
  outcome,     \* history: what open returned for each window
  asked,       \* history: the windows a client asked to close
  byUser,      \* history: the windows a user closed
  final,       \* history: window -> its record when it left the registry by a close
  shown        \* history: window -> pages shown since history was last switched on

hostVars == <<registry, native, reasons, gates, observed, task>>
auxVars == <<outcome, asked, byUser, final, shown>>
vars == <<dbVars, hostVars, auxVars>>

Idle == [at |-> "idle"]
NoRecords == [w \in {} |-> NoUrl]

Put(f, w, value) == [v \in DOMAIN f \cup {w} |-> IF v = w THEN value ELSE f[v]]
Without(f, w) == [v \in DOMAIN f \ {w} |-> f[v]]

HostInit ==
  /\ Init
  /\ registry = NoRecords /\ final = NoRecords
  /\ native = [w \in Windows |-> "unused"]
  /\ reasons = {} /\ gates = {} /\ observed = {} /\ asked = {} /\ byUser = {}
  /\ task = [c \in Clients |-> Idle]
  /\ outcome = [w \in Windows |-> "none"]
  /\ shown = [w \in Windows |-> {}]

-----------------------------------------------------------------------------
(* Locks, the registry and the queue *)

Readers == {c \in Clients : task[c].at \in
              {"building", "placing", "tracking", "tracked", "replaying", "replayed", "opened"}}
Writers == {c \in Clients : \/ task[c].at \in {"closing", "targeted", "marked", "destroyed"}
                            \/ task[c].at \in {"refreshing", "refreshed", "configuring"}
                               /\ task[c].next = "enable"
                            \/ task[c].at = "configuring" /\ task[c].next = "disable"}

MayRead == Writers = {}
MayWrite == Writers = {} /\ Readers = {}
RegistryFree == \A c \in Clients : task[c].at # "configuring"

HasHandle(w) == native[w] \in {"hidden", "live", "dying"}

Goto(c, step) == task' = [task EXCEPT ![c] = step]
Return(c) == Goto(c, Idle)

Fits == Len(queue) < MaxQueue
\* Fault: a command overtakes the ones that wait.
EnqueueFirst(cmd) ==
  /\ Fits /\ phase = "running"
  /\ queue' = <<cmd>> \o queue
  /\ reply' = [c \in Clients |-> IF c = cmd.by THEN "waiting" ELSE reply[c]]
  /\ UNCHANGED <<phase, config, rows, sessions, day>>

Enqueue(cmd) == Fits /\ Send(cmd) /\ UNCHANGED <<phase, config, rows, sessions, day>>
Quiet == UNCHANGED dbVars

SyncCommand(snap, by) == [op |-> "sync", snap |-> snap, by |-> by]
CloseCommand(snap, reason) ==
  [op |-> "close", snap |-> snap, reason |-> reason, by |-> Nobody]

\* registry.insert_opened_web
NewRecord(w) == [win |-> w, url |-> 1, urls |-> <<1>>, trunc |-> FALSE]

\* record_page_started, record_observed_url: the window shows its next page.
PageStarted(snap) == [snap EXCEPT !.url = @ + 1]
Navigations(snap) == {snap} \cup (IF snap.url < MaxPages THEN {PageStarted(snap)} ELSE {})

\* record_page_finished: the page joins the timeline unless it is its last entry.
PageFinished(snap) ==
  IF snap.urls # <<>> /\ snap.urls[Len(snap.urls)] = snap.url THEN snap
  ELSE [snap EXCEPT !.urls = Trim(Append(@, snap.url)),
                    !.trunc = @ \/ Len(snap.urls) >= MaxTimeline]

\* What a page-load event makes of a record.
Observations(snap) == Navigations(snap) \cup {PageFinished(next) : next \in Navigations(snap)}

Record(w, snap) ==
  /\ registry' = Put(registry, w, snap)
  /\ shown' = [shown EXCEPT ![w] = @ \cup {snap.url}]

\* Fault: the record goes and its close is never sent.
RemoveOnly(w, reason) ==
  /\ registry' = Without(registry, w)
  /\ final' = Put(final, w, registry[w])
  /\ reasons' = reasons \ {w}
  /\ Quiet

\* Removes the window's record and queues the close that carries it, in one step:
\* the guard of the registry lives to the end of the `if let`.
RemoveAndClose(w, reason) ==
  /\ registry' = Without(registry, w)
  /\ final' = Put(final, w, registry[w])
  /\ reasons' = reasons \ {w}
  /\ Enqueue(CloseCommand(registry[w], reason))

Destroyed(w) == [native EXCEPT ![w] = IF @ \in {"hidden", "live"} THEN "dying" ELSE @]

-----------------------------------------------------------------------------
(* open *)

\* next_id, build the hidden native window, insert its record.
OpenCall(c) ==
  /\ "open" \in Calls /\ task[c] = Idle /\ phase = "running" /\ MayRead /\ RegistryFree
  /\ \E w \in Windows :
       /\ native[w] = "unused"
       /\ native' = [native EXCEPT ![w] = "hidden"]
       /\ Record(w, NewRecord(w))
       /\ Goto(c, [at |-> "building", win |-> w])
  /\ Quiet /\ UNCHANGED <<reasons, gates, observed, outcome, asked, byUser, final>>

\* load_uri or navigate fails: open returns, the record and the window stay.
OpenAbandoned(c) ==
  /\ task[c].at = "building"
  /\ outcome' = [outcome EXCEPT ![task[c].win] = "error"]
  /\ Return(c)
  /\ Quiet /\ UNCHANGED <<registry, native, reasons, gates, observed, asked, byUser, final, shown>>

\* Remove the record, destroy the window, return the error.
Rollback(c) ==
  /\ registry' = Without(registry, task[c].win)
  /\ native' = Destroyed(task[c].win)
  /\ outcome' = [outcome EXCEPT ![task[c].win] = "error"]
  /\ Return(c)
  /\ Quiet /\ UNCHANGED <<reasons, gates, observed, asked, byUser, final, shown>>

\* Geometry, show, workspace tracking or workspace placement fails.
OpenFails(c) ==
  /\ task[c].at \in {"building", "placing"} /\ RegistryFree
  /\ Rollback(c)

OpenShow(c) ==
  /\ task[c].at = "building" /\ RegistryFree
  /\ native' = [native EXCEPT ![task[c].win] = IF @ = "hidden" THEN "live" ELSE @]
  /\ Goto(c, [task[c] EXCEPT !.at = "placing"])
  /\ Quiet /\ UNCHANGED <<registry, reasons, gates, observed>> /\ UNCHANGED auxVars

\* let initial = self.status(...)?
OpenStatus(c) ==
  /\ task[c].at = "placing" /\ RegistryFree
  /\ LET w == task[c].win
     IN \/ /\ w \in DOMAIN registry
           /\ Goto(c, [at |-> "tracking", win |-> w, snap |-> registry[w]])
           /\ UNCHANGED outcome
        \/ /\ w \notin DOMAIN registry
           /\ outcome' = [outcome EXCEPT ![w] = "error"]
           /\ Return(c)
  /\ Quiet /\ UNCHANGED <<registry, native, reasons, gates, observed, asked, byUser, final, shown>>

OpenTrack(c) ==
  /\ task[c].at = "tracking" /\ Room
  /\ Enqueue([op |-> "open", snap |-> task[c].snap, by |-> c])
  /\ Goto(c, [at |-> "tracked", win |-> task[c].win])
  /\ UNCHANGED <<registry, native, reasons, gates, observed>> /\ UNCHANGED auxVars

OpenRefused(c) ==
  /\ task[c].at = "tracked" /\ reply[c] = "error" /\ RegistryFree
  /\ Rollback(c)

\* Fault: open does not wait for the worker's answer.
OpenActivateEarly(c) ==
  /\ task[c].at = "tracked"
  /\ gates' = gates \cup {task[c].win}
  /\ Goto(c, [at |-> "opened", win |-> task[c].win])
  /\ Quiet /\ UNCHANGED <<registry, native, reasons, observed>> /\ UNCHANGED auxVars

\* activate_observations: the gate opens and the buffered events are taken; the
\* number of events replayed is 0 or 1.
OpenActivate(c) ==
  /\ task[c].at = "tracked" /\ reply[c] = "ok"
  /\ gates' = gates \cup {task[c].win}
  /\ \E step \in {"replaying", "opened"} : Goto(c, [at |-> step, win |-> task[c].win])
  /\ Quiet /\ UNCHANGED <<registry, native, reasons, observed>> /\ UNCHANGED auxVars

\* apply_observation on the opening thread: the record, then (outside the lock) the sync.
OpenReplay(c) ==
  /\ task[c].at = "replaying" /\ RegistryFree
  /\ LET w == task[c].win
     IN \/ /\ w \in DOMAIN registry
           /\ \E snap \in Observations(registry[w]) :
                /\ Record(w, snap)
                /\ Goto(c, [at |-> "replayed", win |-> w, snap |-> snap])
        \/ /\ w \notin DOMAIN registry
           /\ Goto(c, [at |-> "opened", win |-> w])
           /\ UNCHANGED <<registry, shown>>
  /\ Quiet /\ UNCHANGED <<native, reasons, gates, observed, outcome, asked, byUser, final>>

OpenReplayed(c) ==
  /\ task[c].at = "replayed"
  /\ Enqueue(SyncCommand(task[c].snap, Nobody))
  /\ Goto(c, [at |-> "opened", win |-> task[c].win])
  /\ UNCHANGED <<registry, native, reasons, gates, observed>> /\ UNCHANGED auxVars

OpenReturns(c) ==
  /\ task[c].at = "opened" /\ RegistryFree
  /\ outcome' = [outcome EXCEPT ![task[c].win] =
                   IF task[c].win \in DOMAIN registry THEN "ok" ELSE "error"]
  /\ Return(c)
  /\ Quiet /\ UNCHANGED <<registry, native, reasons, gates, observed, asked, byUser, final, shown>>

Open(c) ==
  \/ OpenCall(c) \/ OpenAbandoned(c) \/ OpenFails(c) \/ OpenShow(c) \/ OpenStatus(c)
  \/ OpenTrack(c) \/ OpenRefused(c) \/ OpenActivate(c) \/ OpenReplay(c)
  \/ OpenReplayed(c) \/ OpenReturns(c)

-----------------------------------------------------------------------------
(* close and close_all *)

CloseCall(c) ==
  /\ task[c] = Idle /\ phase = "running" /\ MayWrite /\ RegistryFree
  /\ \E targets \in SUBSET DOMAIN registry :
       /\ \/ "close" \in Calls /\ Cardinality(targets) = 1
          \/ "close_all" \in Calls /\ targets = DOMAIN registry
       /\ targets # {}
       /\ asked' = asked \cup targets
       /\ Goto(c, [at |-> "closing", todo |-> targets])
  /\ Quiet /\ UNCHANGED <<registry, native, reasons, gates, observed, outcome, byUser, final, shown>>

\* get_webview_window; a window without a handle ends the whole call.
CloseTarget(c) ==
  /\ task[c].at = "closing"
  /\ \E w \in task[c].todo :
       \/ /\ HasHandle(w)
          /\ Goto(c, [at |-> "targeted", win |-> w, todo |-> task[c].todo \ {w}])
       \/ ~HasHandle(w) /\ Return(c)
  /\ Quiet /\ UNCHANGED <<registry, native, reasons, gates, observed>> /\ UNCHANGED auxVars

\* Fault: the reason is not recorded before the window is destroyed.
CloseMarkNothing(c) ==
  /\ task[c].at = "targeted"
  /\ Goto(c, [task[c] EXCEPT !.at = "marked"])
  /\ Quiet /\ UNCHANGED <<registry, native, reasons, gates, observed>> /\ UNCHANGED auxVars

CloseMark(c) ==
  /\ task[c].at = "targeted"
  /\ reasons' = reasons \cup {task[c].win}
  /\ Goto(c, [task[c] EXCEPT !.at = "marked"])
  /\ Quiet /\ UNCHANGED <<registry, native, gates, observed>> /\ UNCHANGED auxVars

CloseDestroy(c) ==
  /\ task[c].at = "marked"
  /\ \/ /\ native' = Destroyed(task[c].win)
        /\ Goto(c, [task[c] EXCEPT !.at = "destroyed"])
        /\ UNCHANGED reasons
     \/ /\ reasons' = reasons \ {task[c].win}
        /\ Return(c)
        /\ UNCHANGED native
  /\ Quiet /\ UNCHANGED <<registry, gates, observed>> /\ UNCHANGED auxVars

\* The Destroyed event may have taken the record first.
CloseRemove(c) ==
  /\ task[c].at = "destroyed" /\ RegistryFree
  /\ IF task[c].win \in DOMAIN registry
     THEN RemoveAndClose(task[c].win, "explicit")
     ELSE Quiet /\ UNCHANGED <<registry, final, reasons>>
  /\ IF task[c].todo = {} THEN Return(c)
     ELSE Goto(c, [at |-> "closing", todo |-> task[c].todo])
  /\ UNCHANGED <<native, gates, observed, outcome, asked, byUser, shown>>

Close(c) ==
  CloseCall(c) \/ CloseTarget(c) \/ CloseMark(c) \/ CloseDestroy(c) \/ CloseRemove(c)

-----------------------------------------------------------------------------
(* list, observed_status and config *)

\* list, and config when it enables history, start with refresh_all_workspaces.
RefreshCall(c) ==
  /\ task[c] = Idle /\ phase = "running" /\ RegistryFree
  /\ \/ "list" \in Calls /\ Goto(c, [at |-> "refreshing", todo |-> DOMAIN registry, next |-> "list"])
     \/ /\ "enable" \in Calls /\ MayWrite
        /\ Goto(c, [at |-> "refreshing", todo |-> DOMAIN registry, next |-> "enable"])
  /\ Quiet /\ UNCHANGED <<registry, native, reasons, gates, observed>> /\ UNCHANGED auxVars

\* observed_status reads the page the native window shows.
StatusCall(c) ==
  /\ "status" \in Calls /\ task[c] = Idle /\ phase = "running" /\ RegistryFree
  /\ \E w \in DOMAIN registry :
       /\ native[w] \in {"hidden", "live"}
       /\ \E snap \in Navigations(registry[w]) : Record(w, snap)
       /\ Goto(c, [at |-> "refreshing", todo |-> {w}, next |-> "status", win |-> w])
  /\ Quiet /\ UNCHANGED <<native, reasons, gates, observed, outcome, asked, byUser, final>>

\* refresh_workspace_for_window: the record, then (outside the lock) the sync; a
\* window that is gone, or whose placement cannot be read, ends the call.
RefreshOne(c) ==
  /\ task[c].at = "refreshing" /\ RegistryFree
  /\ \E w \in task[c].todo :
       \/ /\ HasHandle(w) /\ w \in DOMAIN registry
          /\ Goto(c, [at |-> "refreshed", todo |-> task[c].todo \ {w},
                      next |-> task[c].next, win |-> w, snap |-> registry[w]])
       \/ Return(c)
  /\ Quiet /\ UNCHANGED <<registry, native, reasons, gates, observed>> /\ UNCHANGED auxVars

RefreshSync(c) ==
  /\ task[c].at = "refreshed"
  /\ Enqueue(SyncCommand(task[c].snap, Nobody))
  /\ Goto(c, [at |-> "refreshing", todo |-> task[c].todo, next |-> task[c].next,
              win |-> task[c].win])
  /\ UNCHANGED <<registry, native, reasons, gates, observed>> /\ UNCHANGED auxVars

ListReturns(c) ==
  /\ task[c].at = "refreshing" /\ task[c].todo = {} /\ task[c].next = "list"
  /\ RegistryFree
  /\ Return(c)
  /\ Quiet /\ UNCHANGED <<registry, native, reasons, gates, observed>> /\ UNCHANGED auxVars

StatusSnapshot(c) ==
  /\ task[c].at = "refreshing" /\ task[c].todo = {} /\ task[c].next = "status"
  /\ RegistryFree
  /\ IF task[c].win \in DOMAIN registry
     THEN Goto(c, [at |-> "syncing", snap |-> registry[task[c].win]])
     ELSE Return(c)
  /\ Quiet /\ UNCHANGED <<registry, native, reasons, gates, observed>> /\ UNCHANGED auxVars

StatusSync(c) ==
  /\ task[c].at = "syncing"
  /\ Enqueue(SyncCommand(task[c].snap, c))
  /\ Goto(c, [at |-> "awaiting"])
  /\ UNCHANGED <<registry, native, reasons, gates, observed>> /\ UNCHANGED auxVars

ClearCall(c) ==
  /\ "clear" \in Calls /\ task[c] = Idle
  /\ Enqueue([op |-> "clear", by |-> c])
  /\ Goto(c, [at |-> "awaiting"])
  /\ UNCHANGED <<registry, native, reasons, gates, observed>> /\ UNCHANGED auxVars

\* Faults: a list that was taken before a window was removed; no list at all.
StaleActiveWindows ==
  {registry[w] : w \in DOMAIN registry} \cup {final[w] : w \in DOMAIN final}
NoActiveWindows == {}

\* What config hands the worker for active windows.
ActiveWindows == {registry[w] : w \in DOMAIN registry}

HistoryCommand(c, on) ==
  [op |-> "history", enabled |-> on, active |-> ActiveWindows, by |-> c]

\* config keeps the registry's lock until the worker has answered.
ConfigSend(c, cmd, next) ==
  /\ RegistryFree
  /\ Enqueue(cmd)
  /\ Goto(c, [at |-> "configuring", next |-> next])
  /\ UNCHANGED <<registry, native, reasons, gates, observed, outcome, asked, byUser, final>>

ConfigEnable(c) ==
  /\ task[c].at = "refreshing" /\ task[c].todo = {} /\ task[c].next = "enable"
  /\ Room /\ ConfigSend(c, HistoryCommand(c, TRUE), "enable")
  /\ shown' = [w \in Windows |-> IF config.enabled THEN shown[w]
                                 ELSE IF w \in DOMAIN registry THEN {registry[w].url} ELSE {}]

ConfigDisable(c) ==
  /\ "disable" \in Calls /\ task[c] = Idle /\ MayWrite
  /\ ConfigSend(c, HistoryCommand(c, FALSE), "disable")
  /\ UNCHANGED shown

ConfigRetention(c) ==
  /\ "retention" \in Calls /\ task[c] = Idle
  /\ \E days \in Retentions :
       ConfigSend(c, [op |-> "retention", days |-> days, by |-> c], "retention")
  /\ UNCHANGED shown

Answered(c) ==
  /\ task[c].at \in {"awaiting", "configuring"} /\ reply[c] # "waiting"
  /\ Return(c)
  /\ Quiet /\ UNCHANGED <<registry, native, reasons, gates, observed>> /\ UNCHANGED auxVars

Inspect(c) ==
  \/ RefreshCall(c) \/ StatusCall(c) \/ RefreshOne(c) \/ RefreshSync(c) \/ ListReturns(c)
  \/ StatusSnapshot(c) \/ StatusSync(c) \/ ClearCall(c) \/ ConfigEnable(c)
  \/ ConfigDisable(c) \/ ConfigRetention(c) \/ Answered(c)

-----------------------------------------------------------------------------
(* The GUI thread and the user *)

\* The window closes without a request to the host.
UserDestroys(w) ==
  /\ native[w] = "live"
  /\ native' = Destroyed(w)
  /\ byUser' = byUser \cup {w}
  /\ Quiet
  /\ UNCHANGED <<registry, reasons, gates, observed, task, outcome, asked, final, shown>>

\* WindowEvent::Destroyed
DestroyedEvent(w) ==
  /\ native[w] = "dying" /\ observed = {} /\ RegistryFree
  /\ native' = [native EXCEPT ![w] = "gone"]
  /\ IF w \in DOMAIN registry
     THEN RemoveAndClose(w, IF w \in reasons THEN "explicit" ELSE "destroyed")
     ELSE Quiet /\ UNCHANGED <<registry, final, reasons>>
  /\ UNCHANGED <<gates, observed, task, outcome, asked, byUser, shown>>

\* on_page_load with the gate open: record_or_buffer, apply_observation.
PageEvent(w) ==
  /\ w \in gates /\ native[w] \in {"live", "dying"} /\ observed = {} /\ RegistryFree
  /\ w \in DOMAIN registry
  /\ \E snap \in Observations(registry[w]) : Record(w, snap) /\ observed' = {snap}
  /\ Quiet /\ UNCHANGED <<native, reasons, gates, task, outcome, asked, byUser, final>>

PageSync ==
  /\ \E snap \in observed : Enqueue(SyncCommand(snap, Nobody))
  /\ observed' = {}
  /\ UNCHANGED <<registry, native, reasons, gates, task>> /\ UNCHANGED auxVars

\* The host dies: its windows go with it, the threads' work is lost.
HostCrash ==
  /\ Crash
  /\ registry' = NoRecords
  /\ native' = [w \in Windows |-> IF native[w] = "unused" THEN "unused" ELSE "gone"]
  /\ reasons' = {} /\ gates' = {} /\ observed' = {}
  /\ task' = [c \in Clients |-> Idle]
  /\ UNCHANGED auxVars

DbStep ==
  /\ Recover \/ RecoverPrune \/ Tick \/ Worker
  /\ UNCHANGED hostVars /\ UNCHANGED auxVars

HostNext ==
  \/ DbStep
  \/ HostCrash
  \/ \E c \in Clients : Open(c) \/ Close(c) \/ Inspect(c)
  \/ \E w \in Windows : UserDestroys(w) \/ DestroyedEvent(w) \/ PageEvent(w)
  \/ PageSync

HostSpec == HostInit /\ [][HostNext]_vars

\* The worker takes its commands, and each thread that has begun something gets on
\* with it; no one is obliged to begin anything.  Strong fairness stands for the
\* eventually fair mutex and for the event loop's queue: page events that keep
\* coming put off neither a waiting thread nor a Destroyed event for ever.
FairHostSpec ==
  /\ HostSpec
  /\ WF_vars(DbStep /\ Worker)
  /\ \A c \in Clients : SF_vars(task[c] # Idle /\ (Open(c) \/ Close(c) \/ Inspect(c)))
  /\ SF_vars(PageSync)
  /\ \A w \in Windows : SF_vars(DestroyedEvent(w))
-----------------------------------------------------------------------------
(* Properties *)

HostTypeOK ==
  /\ DOMAIN registry \subseteq Windows
  /\ \A w \in DOMAIN registry : registry[w] \in Snapshot /\ registry[w].win = w
  /\ native \in [Windows -> {"unused", "hidden", "live", "dying", "gone"}]
  /\ reasons \subseteq Windows /\ gates \subseteq Windows
  /\ observed \subseteq Snapshot /\ Cardinality(observed) <= 1
  /\ \A c \in Clients : (task[c] = Idle) => reply[c] # "waiting"
  /\ outcome \in [Windows -> {"none", "ok", "error"}]

\* While history is enabled, every window whose open has returned and that is
\* still registered is tracked, whatever toggles of the setting ran beside it.
TrackedWhileOpen ==
  \A w \in DOMAIN registry :
    phase = "running" /\ config.enabled /\ outcome[w] = "ok" => Tracked(w)

\* A window whose open succeeded is tracked only as long as it is registered or
\* its close is on its way to the worker: no list of active windows is out of date
\* when the worker applies it.
NoGhostSession ==
  \A w \in Windows :
    Tracked(w) /\ outcome[w] = "ok" =>
      \/ w \in DOMAIN registry
      \/ \E i \in DOMAIN queue : queue[i].op = "close" /\ queue[i].snap.win = w

\* A row closed by the host carries the page the registry last recorded, although
\* syncs with older snapshots may still arrive around the close.
FinalStateRecorded ==
  \A w \in Windows : \A i \in DOMAIN rows[w] :
    rows[w][i].status = "closed" /\ rows[w][i].reason \in CloseReasons =>
      w \in DOMAIN final /\ rows[w][i].url = final[w].url

\* The recorded reason is true: explicit only after a client asked, destroyed only
\* when a user closed the window, whoever wins the race to remove the record.
ReasonTruthful ==
  \A w \in Windows : \A i \in DOMAIN rows[w] :
    /\ rows[w][i].reason = "explicit" => w \in asked
    /\ rows[w][i].reason = "destroyed" => w \in byUser

\* A window leaves one row in the table at most, open or closed.
OneRowPerWindow ==
  \A w \in Windows :
    Cardinality({i \in DOMAIN rows[w] : rows[w][i].status # "deleted"}) <= 1

\* A window whose open failed is not left behind as an active session, which the
\* next startup would turn into recovery history.
FailedOpenIsNotTracked ==
  \A w \in Windows :
    outcome[w] = "error" /\ Tracked(w) =>
      \/ w \in DOMAIN registry
      \/ \E i \in DOMAIN queue : queue[i].op = "close" /\ queue[i].snap.win = w

\* Re-enabling history does not bring back pages shown before it.
NoBackfill ==
  \A w \in Windows :
    Tracked(w) /\ sessions[w].reset =>
      \A i \in DOMAIN sessions[w].urls : sessions[w].urls[i] \in shown[w]

\* The close of a tracked window reaches the table, if its open succeeded.
ClosesAreRecorded ==
  \A w \in Windows :
    (Tracked(w) /\ outcome[w] = "ok" /\ w \in DOMAIN final) ~> ~Tracked(w)

\* No request to the host hangs: threads waiting for the lifecycle lock, for the
\* registry or for the worker never wait for each other in a circle.
RequestsReturn ==
  \A c \in Clients : task[c] # Idle ~> task[c] = Idle

\* To the worker the manager is one of the clients its specification allows.
WorkerSpec == Spec
=============================================================================
