------------------------------ MODULE DbWorker ------------------------------
(***************************************************************************)
(* The dedicated database worker of the host (database.rs and              *)
(* database/service.rs): one thread that owns the SQLite connection and    *)
(* applies, in arrival order, the commands the rest of the host sends it.  *)
(*                                                                         *)
(* A row of the sessions table is identified by the window it tracks and   *)
(* its ordinal among the sessions of that window: the code draws a fresh   *)
(* UUID for every session, so an ordinal is never used twice and a deleted *)
(* row stays as a tombstone.  The observable data of a window is reduced   *)
(* to its URL (a number, NoUrl for a window that has none) and its bounded *)
(* URL timeline; the other columns travel with them in the same statement, *)
(* and the workspace timeline is maintained by the same code shape.        *)
(***************************************************************************)
EXTENDS Naturals, Sequences, FiniteSets

CONSTANTS
  Windows,        \* window session ids
  Clients,        \* threads that wait for the worker's answer
  Nobody,         \* the sender of a command that waits for no answer
  Snapshots,      \* the window snapshots the senders may hand over
  Retentions,     \* values retention_days may be set to (0 is null)
  DefaultRetention, \* DEFAULT_RETENTION_DAYS
  MaxTimeline,    \* MAX_URL_HISTORY_ENTRIES
  StorageMayFail, \* whether a SQL statement may report an error
  MaxDay,         \* bound: last day of the clock
  MaxQueue,       \* bound: commands waiting at any time
  MaxSessions     \* bound: sessions ever inserted for one window

NoUrl == 0
Forever == 0
NotClosed == 0

Snapshot == [win: Windows, url: Nat, urls: Seq(Nat), trunc: BOOLEAN]
CloseReasons == {"explicit", "destroyed"}

ASSUME DbAssumption ==
  /\ Nobody \notin Clients
  /\ Snapshots \subseteq Snapshot
  /\ Retentions \subseteq Nat
  /\ DefaultRetention \in Nat \ {0}
  /\ MaxTimeline \in Nat \ {0}
  /\ StorageMayFail \in BOOLEAN
  /\ MaxDay \in Nat
  /\ MaxQueue \in Nat
  /\ MaxSessions \in Nat

VARIABLES
  phase,     \* down, recovering, running, draining: the life of the worker
  config,    \* the config table: [enabled, retention]
  rows,      \* the sessions table: window -> sequence of rows
  sessions,  \* active_sessions: window -> ActiveSession, NoSession if absent
  queue,     \* the commands in the mpsc channel
  reply,     \* what each client has heard from its own reply channel
  day        \* now_unix(), in days

dbVars == <<phase, config, rows, sessions, queue, reply, day>>

Session == [id: Nat, reset: BOOLEAN, urls: Seq(Nat), trunc: BOOLEAN]
NoSession == [id |-> 0, reset |-> FALSE, urls |-> <<>>, trunc |-> FALSE]

\* A row has a reason exactly when it is closed.
Row == {row \in [status: {"open", "closed", "deleted"}, url: Nat, urls: Seq(Nat),
                 trunc: BOOLEAN, closedAt: Nat,
                 reason: {"none", "abrupt"} \cup CloseReasons] :
          row.status = "closed" <=> row.reason # "none"}
Deleted == [status |-> "deleted", url |-> NoUrl, urls |-> <<>>, trunc |-> FALSE,
            closedAt |-> NotClosed, reason |-> "none"]

Command ==
  [op: {"open"}, snap: Snapshot, by: Clients]
    \cup [op: {"abort"}, win: Windows, by: Clients]
    \cup [op: {"sync"}, snap: Snapshot, by: Clients \cup {Nobody}]
    \cup [op: {"close"}, snap: Snapshot, reason: CloseReasons, by: Clients \cup {Nobody}]
    \cup [op: {"clear"}, by: Clients]
    \cup [op: {"history"}, enabled: BOOLEAN, active: SUBSET Snapshot, by: Clients]
    \cup [op: {"retention"}, days: Nat, by: Clients]
    \cup [op: {"shutdown"}, by: {Nobody}]

-----------------------------------------------------------------------------
(* Timelines and rows *)

\* trim_url_history: the oldest entries go first.
Trim(urls) == IF Len(urls) > MaxTimeline
              THEN SubSeq(urls, Len(urls) - MaxTimeline + 1, Len(urls))
              ELSE urls

\* What a session opened while the window is already running starts from: the
\* window's present URL only, never what it visited before.
StartOf(snap) == IF snap.url = NoUrl THEN <<>> ELSE <<snap.url>>

NewSession(i, snap, reset) ==
  [id |-> i, reset |-> reset,
   urls |-> IF reset THEN StartOf(snap) ELSE snap.urls,
   trunc |-> ~reset /\ snap.trunc]

NewRow(snap, session) ==
  [status |-> "open", url |-> snap.url, urls |-> session.urls,
   trunc |-> session.trunc, closedAt |-> NotClosed, reason |-> "none"]

\* A session that reset its timeline takes only a URL that is not its last one.
AddsUrl(session, snap) ==
  /\ snap.url # NoUrl
  /\ session.urls = <<>> \/ session.urls[Len(session.urls)] # snap.url

Observe(session, snap) ==
  IF ~session.reset
  THEN [session EXCEPT !.urls = snap.urls, !.trunc = snap.trunc]
  ELSE IF AddsUrl(session, snap)
       THEN [session EXCEPT !.urls = Trim(Append(session.urls, snap.url)),
                            !.trunc = session.trunc \/ Len(session.urls) >= MaxTimeline]
       ELSE session

\* UPDATE sessions ... WHERE session_id = ? AND closed_at IS NULL
UpdateRow(rs, session, snap) ==
  [rs EXCEPT ![snap.win][session.id] =
     IF @.status = "open"
     THEN [@ EXCEPT !.url = snap.url, !.urls = session.urls, !.trunc = session.trunc]
     ELSE @]

\* Fault: the close trusts the last sync instead of its own snapshot.
CloseRowUnrefreshed(rs, session, snap, reason, now) ==
  [rs EXCEPT ![snap.win][session.id] =
     IF @.status = "open"
     THEN [@ EXCEPT !.status = "closed", !.closedAt = now, !.reason = reason]
     ELSE @]

CloseRow(rs, session, snap, reason, now) ==
  [rs EXCEPT ![snap.win][session.id] =
     IF @.status = "open"
     THEN [@ EXCEPT !.status = "closed", !.url = snap.url, !.urls = session.urls,
                    !.trunc = session.trunc, !.closedAt = now, !.reason = reason]
     ELSE @]

\* Replaces every row by what change makes of it.
EachRow(rs, change(_)) ==
  [w \in Windows |-> [i \in DOMAIN rs[w] |-> change(rs[w][i])]]

Expired(row, retention, now) ==
  /\ row.status = "closed"
  /\ retention # Forever
  /\ row.closedAt + retention < now

\* Fault: a row expires on the last day of its retention.
PruneEarly(rs, retention, now) ==
  EachRow(rs, LAMBDA row :
    IF row.status = "closed" /\ retention # Forever /\ row.closedAt + retention <= now
    THEN Deleted ELSE row)

Prune(rs, retention, now) ==
  EachRow(rs, LAMBDA row : IF Expired(row, retention, now) THEN Deleted ELSE row)

\* Fault: disabling leaves the open rows.
DeleteClosedOnly(rs, status) ==
  EachRow(rs, LAMBDA row : IF row.status = status /\ status = "closed" THEN Deleted ELSE row)

DeleteStatus(rs, status) ==
  EachRow(rs, LAMBDA row : IF row.status = status THEN Deleted ELSE row)

\* Faults: no recovery; recovery without its WHERE clause.
CloseNone(rs, now) == rs
CloseEverything(rs, now) ==
  EachRow(rs, LAMBDA row :
    IF row.status = "deleted" THEN row
    ELSE [row EXCEPT !.status = "closed", !.closedAt = now, !.reason = "abrupt"])

\* UPDATE sessions SET ... 'abrupt_termination' WHERE closed_at IS NULL
CloseAbruptly(rs, now) ==
  EachRow(rs, LAMBDA row :
    IF row.status = "open"
    THEN [row EXCEPT !.status = "closed", !.closedAt = now, !.reason = "abrupt"]
    ELSE row)

-----------------------------------------------------------------------------
Init ==
  /\ phase = "down"
  /\ config = [enabled |-> TRUE, retention |-> DefaultRetention]
  /\ rows = [w \in Windows |-> <<>>]
  /\ sessions = [w \in Windows |-> NoSession]
  /\ queue = <<>>
  /\ reply = [c \in Clients |-> "idle"]
  /\ day = 1

(* Startup: DbWorker::initialize.  The UPDATE and the DELETE are two        *)
(* statements outside a transaction, so the host may die between them.      *)

Recover ==
  /\ phase = "down"
  /\ phase' = "recovering"
  /\ rows' = CloseAbruptly(rows, day)
  /\ UNCHANGED <<config, sessions, queue, reply, day>>

RecoverPrune ==
  /\ phase = "recovering"
  /\ phase' = "running"
  /\ rows' = Prune(rows, config.retention, day)
  /\ UNCHANGED <<config, sessions, queue, reply, day>>

\* The host process dies: everything in memory is gone.
Crash ==
  /\ phase # "down"
  /\ phase' = "down"
  /\ sessions' = [w \in Windows |-> NoSession]
  /\ queue' = <<>>
  /\ reply' = [c \in Clients |-> "idle"]
  /\ UNCHANGED <<config, rows, day>>

\* Wall-clock time passes.
Tick ==
  /\ day < MaxDay
  /\ day' = day + 1
  /\ UNCHANGED <<phase, config, rows, sessions, queue, reply>>

-----------------------------------------------------------------------------
(* Senders *)

\* A client sends a command and waits on its reply channel, or, as Nobody, goes on.
Send(cmd) ==
  /\ phase = "running"
  /\ queue' = Append(queue, cmd)
  /\ reply' = [c \in Clients |-> IF c = cmd.by THEN "waiting" ELSE reply[c]]

\* DatabaseInner::drop: the last handle is gone, so no client waits or sends again.
Drop ==
  /\ phase = "running"
  /\ \A c \in Clients : reply[c] # "waiting"
  /\ phase' = "draining"
  /\ queue' = Append(queue, [op |-> "shutdown", by |-> Nobody])
  /\ UNCHANGED <<config, rows, sessions, reply, day>>

-----------------------------------------------------------------------------
(* DbWorker::run: one action per command. *)

Takes(op) ==
  /\ phase \in {"running", "draining"}
  /\ queue # <<>>
  /\ Head(queue).op = op
  /\ queue' = Tail(queue)

Answer(cmd, outcome) ==
  reply' = [c \in Clients |-> IF c = cmd.by THEN outcome ELSE reply[c]]

\* The outcomes of a statement or a transaction.
Outcomes == IF StorageMayFail THEN {"ok", "error"} ELSE {"ok"}

Tracked(w) == sessions[w].id # 0

\* Fault: an early return that forgets the reply channel.
Unanswered(cmd) == UNCHANGED <<reply, rows, sessions>>

\* A command that finds nothing to do succeeds and changes nothing.
Ignored(cmd) == Answer(cmd, "ok") /\ UNCHANGED <<rows, sessions>>
Failed(cmd) == Answer(cmd, "error") /\ UNCHANGED <<rows, sessions>>

WorkerOpen ==
  /\ Takes("open")
  /\ LET cmd == Head(queue)
         snap == cmd.snap
         session == NewSession(Len(rows[snap.win]) + 1, snap, FALSE)
     IN \/ ~config.enabled /\ Ignored(cmd)
        \/ config.enabled /\ Tracked(snap.win) /\ Failed(cmd)
        \/ config.enabled /\ ~Tracked(snap.win) /\ "error" \in Outcomes /\ Failed(cmd)
        \/ /\ config.enabled /\ ~Tracked(snap.win)
           /\ rows' = [rows EXCEPT ![snap.win] = Append(@, NewRow(snap, session))]
           /\ sessions' = [sessions EXCEPT ![snap.win] = session]
           /\ Answer(cmd, "ok")
  /\ UNCHANGED <<phase, config, day>>

WorkerAbort ==
  /\ Takes("abort")
  /\ LET cmd == Head(queue)
     IN \/ ~Tracked(cmd.win) /\ Ignored(cmd)
        \/ Tracked(cmd.win) /\ "error" \in Outcomes /\ Failed(cmd)
        \/ /\ Tracked(cmd.win)
           /\ rows' = [rows EXCEPT ![cmd.win][sessions[cmd.win].id] =
                         IF @.status = "open" THEN Deleted ELSE @]
           /\ sessions' = [sessions EXCEPT ![cmd.win] = NoSession]
           /\ Answer(cmd, "ok")
  /\ UNCHANGED <<phase, config, day>>

\* The session in memory has observed the snapshot even when the UPDATE fails.
WorkerSync ==
  /\ Takes("sync")
  /\ LET cmd == Head(queue)
         snap == cmd.snap
         session == Observe(sessions[snap.win], snap)
     IN \/ (~config.enabled \/ ~Tracked(snap.win)) /\ Ignored(cmd)
        \/ /\ config.enabled /\ Tracked(snap.win)
           /\ sessions' = [sessions EXCEPT ![snap.win] = session]
           /\ \E outcome \in Outcomes :
                /\ rows' = IF outcome = "ok" THEN UpdateRow(rows, session, snap) ELSE rows
                /\ Answer(cmd, outcome)
  /\ UNCHANGED <<phase, config, day>>

\* One transaction closes the row and prunes; on failure the session stays active.
WorkerClose ==
  /\ Takes("close")
  /\ LET cmd == Head(queue)
         snap == cmd.snap
         session == Observe(sessions[snap.win], snap)
     IN \/ (~config.enabled \/ ~Tracked(snap.win)) /\ Ignored(cmd)
        \/ config.enabled /\ Tracked(snap.win) /\ "error" \in Outcomes /\ Failed(cmd)
        \/ /\ config.enabled /\ Tracked(snap.win)
           /\ rows' = Prune(CloseRow(rows, session, snap, cmd.reason, day),
                            config.retention, day)
           /\ sessions' = [sessions EXCEPT ![snap.win] = NoSession]
           /\ Answer(cmd, "ok")
  /\ UNCHANGED <<phase, config, day>>

WorkerClear ==
  /\ Takes("clear")
  /\ LET cmd == Head(queue)
     IN \/ "error" \in Outcomes /\ Failed(cmd)
        \/ /\ rows' = DeleteStatus(rows, "closed")
           /\ Answer(cmd, "ok")
           /\ UNCHANGED sessions
  /\ UNCHANGED <<phase, config, day>>

\* The session enable_history opens for a window, if the window is listed.
Enabled(active, w) == {snap \in active : snap.win = w}

WorkerSetHistory ==
  /\ Takes("history")
  /\ LET cmd == Head(queue)
         listed(w) == Enabled(cmd.active, w) # {}
         snapOf(w) == CHOOSE snap \in Enabled(cmd.active, w) : TRUE
         session(w) == NewSession(Len(rows[w]) + 1, snapOf(w), TRUE)
     IN \/ cmd.enabled = config.enabled /\ Ignored(cmd) /\ UNCHANGED config
        \/ /\ cmd.enabled # config.enabled /\ "error" \in Outcomes
           /\ Failed(cmd) /\ UNCHANGED config
        \/ /\ cmd.enabled /\ ~config.enabled
           /\ rows' = [w \in Windows |-> IF listed(w)
                                         THEN Append(rows[w], NewRow(snapOf(w), session(w)))
                                         ELSE rows[w]]
           /\ sessions' = [w \in Windows |-> IF listed(w) THEN session(w) ELSE NoSession]
           /\ config' = [config EXCEPT !.enabled = TRUE]
           /\ Answer(cmd, "ok")
        \/ /\ ~cmd.enabled /\ config.enabled
           /\ rows' = DeleteStatus(rows, "open")
           /\ sessions' = [w \in Windows |-> NoSession]
           /\ config' = [config EXCEPT !.enabled = FALSE]
           /\ Answer(cmd, "ok")
  /\ UNCHANGED <<phase, day>>

WorkerSetRetention ==
  /\ Takes("retention")
  /\ LET cmd == Head(queue)
     IN \/ cmd.days = config.retention /\ Ignored(cmd) /\ UNCHANGED config
        \/ /\ cmd.days # config.retention /\ "error" \in Outcomes
           /\ Failed(cmd) /\ UNCHANGED config
        \/ /\ cmd.days # config.retention
           /\ rows' = Prune(rows, cmd.days, day)
           /\ config' = [config EXCEPT !.retention = cmd.days]
           /\ Answer(cmd, "ok")
           /\ UNCHANGED sessions
  /\ UNCHANGED <<phase, day>>

WorkerShutdown ==
  /\ Takes("shutdown")
  /\ phase' = "down"
  /\ sessions' = [w \in Windows |-> NoSession]
  /\ UNCHANGED <<config, rows, reply, day>>

Worker ==
  \/ WorkerOpen \/ WorkerAbort \/ WorkerSync \/ WorkerClose
  \/ WorkerClear \/ WorkerSetHistory \/ WorkerSetRetention \/ WorkerShutdown

-----------------------------------------------------------------------------
(* Any clients at all: the worker's own specification. *)

\* Inserts the worker may still make for a window, for the MaxSessions bound.
Inserts == {i \in DOMAIN queue : queue[i].op \in {"open", "history"}}
Room == /\ Len(queue) < MaxQueue
        /\ \A w \in Windows : Len(rows[w]) + Cardinality(Inserts) < MaxSessions

\* A list of active windows names each window once.
Listings == {S \in SUBSET Snapshots : \A s, t \in S : s.win = t.win => s = t}

ClientSend(c) ==
  /\ reply[c] # "waiting"
  /\ Len(queue) < MaxQueue
  /\ \/ \E snap \in Snapshots : Room /\ Send([op |-> "open", snap |-> snap, by |-> c])
     \/ \E w \in Windows : Send([op |-> "abort", win |-> w, by |-> c])
     \/ \E snap \in Snapshots : Send([op |-> "sync", snap |-> snap, by |-> c])
     \/ \E snap \in Snapshots, why \in CloseReasons :
          Send([op |-> "close", snap |-> snap, reason |-> why, by |-> c])
     \/ Send([op |-> "clear", by |-> c])
     \/ \E on \in BOOLEAN, active \in Listings :
          (on => Room) /\ Send([op |-> "history", enabled |-> on, active |-> active, by |-> c])
     \/ \E days \in Retentions : Send([op |-> "retention", days |-> days, by |-> c])
  /\ UNCHANGED <<phase, config, rows, sessions, day>>

AsyncSend ==
  /\ Len(queue) < MaxQueue
  /\ \E snap \in Snapshots :
       \/ Send([op |-> "sync", snap |-> snap, by |-> Nobody])
       \/ \E why \in CloseReasons :
            Send([op |-> "close", snap |-> snap, reason |-> why, by |-> Nobody])
  /\ UNCHANGED <<phase, config, rows, sessions, day>>

Next ==
  \/ Recover \/ RecoverPrune \/ Crash \/ Tick \/ Drop
  \/ Worker
  \/ \E c \in Clients : ClientSend(c)
  \/ AsyncSend

Spec == Init /\ [][Next]_dbVars
-----------------------------------------------------------------------------
(* Properties *)

\* Every variable stays in the type the code declares for it.
TypeOK ==
  /\ phase \in {"down", "recovering", "running", "draining"}
  /\ config \in [enabled: BOOLEAN, retention: Nat]
  /\ rows \in [Windows -> Seq(Row)]
  /\ sessions \in [Windows -> Session]
  /\ queue \in Seq(Command)
  /\ reply \in [Clients -> {"idle", "waiting", "ok", "error"}]
  /\ day \in Nat

\* The open rows of the table and the sessions in the worker's memory are the
\* same set while the worker runs: each session points at an open row and no open
\* row is without its session, so a window never has two open rows.  When no
\* worker runs there is no session, and recovery leaves no open row behind.
SessionsMatchOpenRows ==
  \A w \in Windows :
    /\ Tracked(w) => /\ phase \in {"running", "draining"}
                     /\ sessions[w].id \in DOMAIN rows[w]
                     /\ rows[w][sessions[w].id].status = "open"
    /\ \A i \in DOMAIN rows[w] :
         rows[w][i].status = "open" =>
           phase = "down" \/ (phase # "recovering" /\ sessions[w].id = i)

\* With history disabled nothing is tracked: disabling deletes the open rows in
\* the transaction that stores the setting, so not even a crash leaves one.
DisabledTracksNothing ==
  ~config.enabled => \A w \in Windows : \A i \in DOMAIN rows[w] : rows[w][i].status # "open"

\* A closed row is final: no late sync, second close or restart changes what it
\* recorded, and a deleted row never comes back.
HistoryIsFinal ==
  [][\A w \in Windows : \A i \in DOMAIN rows[w] :
       /\ i \in DOMAIN rows'[w]
       /\ rows[w][i].status = "closed" => rows'[w][i] \in {rows[w][i], Deleted}
       /\ rows[w][i].status = "deleted" => rows'[w][i] = rows[w][i]]_dbVars

\* A closed row goes only because it has outlived the retention in force after
\* the step, or because a client asked to clear the history.
NoPrematureLoss ==
  [][\A w \in Windows : \A i \in DOMAIN rows[w] :
       rows[w][i].status = "closed" /\ rows'[w][i] = Deleted =>
         \/ Expired(rows[w][i], config'.retention, day)
         \/ queue # <<>> /\ Head(queue).op = "clear"]_dbVars

\* The worker implements the history log: a session's identity is its window and
\* its ordinal, and the closed rows are the entries.
SessionIds(status) == {s \in UNION {{w} \X DOMAIN rows[w] : w \in Windows} :
                         rows[s[1]][s[2]].status \in status}
Entry(s) == [id |-> s, row |-> rows[s[1]][s[2]]]
Log == INSTANCE HistoryLog WITH
         used <- SessionIds({"open", "closed", "deleted"}),
         tracked <- SessionIds({"open"}),
         log <- {Entry(s) : s \in SessionIds({"closed"})}

\* Every behaviour of the worker is a behaviour of the abstract history log, and
\* of its invariant.
ImplementsLog == Log!LogSpec
=============================================================================
