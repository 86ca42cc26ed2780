--------------------------- MODULE DbWorkerProofs ---------------------------
(***************************************************************************)
(* Proofs about the database worker, for any number of windows, clients    *)
(* and snapshots, any queue length and any clock: its type invariant, the  *)
(* match between the sessions in memory and the open rows of the table,    *)
(* the finality of closed rows, that no row goes before its time, and that *)
(* the worker implements the history log.                                  *)
(***************************************************************************)
EXTENDS DbWorker, SequenceTheorems, TLAPS

OpenRows(rs, w) == {i \in DOMAIN rs[w] : rs[w][i].status = "open"}

\* The sessions in memory and the open rows, as sets: what SessionsMatchOpenRows
\* and DisabledTracksNothing say row by row.
OpenMatch ==
  \A w \in Windows :
    /\ Tracked(w) => /\ phase \in {"running", "draining"}
                     /\ OpenRows(rows, w) = {sessions[w].id}
    /\ ~Tracked(w) => phase = "down" \/ OpenRows(rows, w) = {}
    /\ ~config.enabled => OpenRows(rows, w) = {}

\* The inductive invariant.  The match is inductive once the types are known;
\* TypeOK alone is not inductive without it, because an update addresses the row
\* by the ordinal its session remembers.
WorkerInv == TypeOK /\ OpenMatch

\* What HistoryIsFinal says of a step, of two tables.
Final(rs, new) ==
  \A w \in Windows : \A i \in DOMAIN rs[w] :
    /\ i \in DOMAIN new[w]
    /\ rs[w][i].status = "closed" => new[w][i] \in {rs[w][i], Deleted}
    /\ rs[w][i].status = "deleted" => new[w][i] = rs[w][i]

-----------------------------------------------------------------------------
(* What the operators on timelines and rows return *)

LEMMA TypesOfConstants ==
  /\ NoSession \in Session
  /\ Deleted \in Row
  /\ NoSession.id = 0
  /\ Deleted.status = "deleted"
  BY DEF NoSession, Session, Deleted, Row, NoUrl, NotClosed, CloseReasons

\* Trimming a timeline leaves a timeline of at most MaxTimeline entries.
LEMMA TrimType ==
  ASSUME NEW urls \in Seq(Nat)
  PROVE  Trim(urls) \in Seq(Nat) /\ Len(Trim(urls)) <= MaxTimeline
<1>1. CASE Len(urls) > MaxTimeline
  <2>1. /\ Len(urls) - MaxTimeline + 1 \in 1..Len(urls)
        /\ Len(urls) \in Nat
    BY <1>1, DbAssumption
  <2>2. Trim(urls) = SubSeq(urls, Len(urls) - MaxTimeline + 1, Len(urls))
    BY <1>1 DEF Trim
  <2> QED BY <1>1, <2>1, <2>2, DbAssumption
<1>2. CASE ~(Len(urls) > MaxTimeline)
  BY <1>2, DbAssumption DEF Trim
<1> QED BY <1>1, <1>2

LEMMA NewSessionType ==
  ASSUME NEW i \in Nat, NEW snap \in Snapshot, NEW reset \in BOOLEAN
  PROVE  /\ NewSession(i, snap, reset) \in Session
         /\ NewSession(i, snap, reset).id = i
  BY DEF NewSession, Session, Snapshot, StartOf

LEMMA NewRowType ==
  ASSUME NEW snap \in Snapshot, NEW session \in Session
  PROVE  NewRow(snap, session) \in Row /\ NewRow(snap, session).status = "open"
  BY DEF NewRow, Row, Snapshot, Session, NotClosed, CloseReasons

LEMMA ObserveType ==
  ASSUME NEW session \in Session, NEW snap \in Snapshot
  PROVE  /\ Observe(session, snap) \in Session
         /\ Observe(session, snap).id = session.id
<1>1. Append(session.urls, snap.url) \in Seq(Nat)
  BY DEF Session, Snapshot
<1>2. Trim(Append(session.urls, snap.url)) \in Seq(Nat)
  BY <1>1, TrimType
<1>3. (session.trunc \/ Len(session.urls) >= MaxTimeline) \in BOOLEAN
  OBVIOUS
<1> QED BY <1>2, <1>3 DEF Observe, Session, Snapshot

\* Finality composes, and a table is final with respect to itself.
LEMMA FinalComposes ==
  /\ \A rs : Final(rs, rs)
  /\ \A rs, mid, new : Final(rs, mid) /\ Final(mid, new) => Final(rs, new)
BY TypesOfConstants DEF Final

\* Pruning keeps every open row.
LEMMA PruneRows ==
  ASSUME NEW rs \in [Windows -> Seq(Row)], NEW retention \in Nat, NEW now \in Nat
  PROVE  /\ Prune(rs, retention, now) \in [Windows -> Seq(Row)]
         /\ \A w \in Windows : OpenRows(Prune(rs, retention, now), w) = OpenRows(rs, w)
         /\ Final(rs, Prune(rs, retention, now))
<1> DEFINE pruned(w) == [i \in DOMAIN rs[w] |-> IF Expired(rs[w][i], retention, now)
                                                THEN Deleted ELSE rs[w][i]]
<1>1. Prune(rs, retention, now) = [w \in Windows |-> pruned(w)]
  BY DEF Prune, EachRow
<1>2. ASSUME NEW w \in Windows
      PROVE  /\ pruned(w) \in Seq(Row)
             /\ {i \in DOMAIN pruned(w) : pruned(w)[i].status = "open"}
                  = {i \in DOMAIN rs[w] : rs[w][i].status = "open"}
  BY TypesOfConstants DEF Expired
<1>3. Final(rs, [w \in Windows |-> pruned(w)])
  BY TypesOfConstants DEF Final, Expired
<1> HIDE DEF pruned
<1> QED BY <1>1, <1>2, <1>3 DEF OpenRows

\* Deleting the rows of one status keeps every other row.
LEMMA DeleteRows ==
  ASSUME NEW rs \in [Windows -> Seq(Row)], NEW status \in {"open", "closed"}
  PROVE  /\ DeleteStatus(rs, status) \in [Windows -> Seq(Row)]
         /\ \A w \in Windows : OpenRows(DeleteStatus(rs, status), w) =
                                 IF status = "open" THEN {} ELSE OpenRows(rs, w)
         /\ Final(rs, DeleteStatus(rs, status))
<1> DEFINE deleted(w) == [i \in DOMAIN rs[w] |-> IF rs[w][i].status = status
                                                 THEN Deleted ELSE rs[w][i]]
<1>1. DeleteStatus(rs, status) = [w \in Windows |-> deleted(w)]
  BY DEF DeleteStatus, EachRow
<1>2. ASSUME NEW w \in Windows
      PROVE  /\ deleted(w) \in Seq(Row)
             /\ {i \in DOMAIN deleted(w) : deleted(w)[i].status = "open"}
                  = IF status = "open" THEN {}
                    ELSE {i \in DOMAIN rs[w] : rs[w][i].status = "open"}
  BY TypesOfConstants
<1>3. Final(rs, [w \in Windows |-> deleted(w)])
  BY TypesOfConstants DEF Final
<1> HIDE DEF deleted
<1> QED BY <1>1, <1>2, <1>3 DEF OpenRows

\* Recovery closes every open row and touches no other.
LEMMA AbruptRows ==
  ASSUME NEW rs \in [Windows -> Seq(Row)], NEW now \in Nat
  PROVE  /\ CloseAbruptly(rs, now) \in [Windows -> Seq(Row)]
         /\ \A w \in Windows : OpenRows(CloseAbruptly(rs, now), w) = {}
         /\ Final(rs, CloseAbruptly(rs, now))
<1> DEFINE abrupt(r) == IF r.status = "open"
                        THEN [r EXCEPT !.status = "closed", !.closedAt = now,
                                       !.reason = "abrupt"]
                        ELSE r
           ended(w) == [i \in DOMAIN rs[w] |-> abrupt(rs[w][i])]
<1>1. CloseAbruptly(rs, now) = [w \in Windows |-> ended(w)]
  BY DEF CloseAbruptly, EachRow
<1>2. ASSUME NEW r \in Row
      PROVE  abrupt(r) \in Row /\ abrupt(r).status # "open"
  BY DEF Row
<1>3. \A r : r.status # "open" => abrupt(r) = r
  OBVIOUS
<1> HIDE DEF abrupt
<1>4. ASSUME NEW w \in Windows
      PROVE  /\ ended(w) \in Seq(Row)
             /\ {i \in DOMAIN ended(w) : ended(w)[i].status = "open"} = {}
  BY <1>2
<1>5. Final(rs, [w \in Windows |-> ended(w)])
  BY <1>3 DEF Final
<1> HIDE DEF ended
<1> QED BY <1>1, <1>4, <1>5 DEF OpenRows

\* What replacing one open row of one window does to the table.
WithRow(rs, w, i, row) == [rs EXCEPT ![w] = [rs[w] EXCEPT ![i] = row]]

LEMMA OneRow ==
  ASSUME NEW rs \in [Windows -> Seq(Row)], NEW w \in Windows, NEW i \in DOMAIN rs[w],
         NEW row \in Row
  PROVE  /\ WithRow(rs, w, i, row) \in [Windows -> Seq(Row)]
         /\ \A v \in Windows \ {w} : WithRow(rs, w, i, row)[v] = rs[v]
         /\ DOMAIN WithRow(rs, w, i, row)[w] = DOMAIN rs[w]
         /\ WithRow(rs, w, i, row)[w][i] = row
         /\ \A j \in DOMAIN rs[w] \ {i} : WithRow(rs, w, i, row)[w][j] = rs[w][j]
<1> DEFINE new == WithRow(rs, w, i, row)
<1>1. /\ new[w] = [rs[w] EXCEPT ![i] = row] /\ new[w] \in Seq(Row)
      /\ \A v \in Windows \ {w} : new[v] = rs[v]
      /\ new \in [Windows -> Seq(Row)]
  BY DEF WithRow
<1>2. /\ DOMAIN new[w] = DOMAIN rs[w] /\ new[w][i] = row
      /\ \A j \in DOMAIN rs[w] \ {i} : new[w][j] = rs[w][j]
  BY <1>1
<1> QED BY <1>1, <1>2

\* It stays open, or it is the one row less among the open ones.
LEMMA OneRowStaysOpen ==
  ASSUME NEW rs \in [Windows -> Seq(Row)], NEW w \in Windows, NEW i \in DOMAIN rs[w],
         NEW row \in Row, rs[w][i].status = "open", row.status = "open"
  PROVE  \A v \in Windows : OpenRows(WithRow(rs, w, i, row), v) = OpenRows(rs, v)
<1> DEFINE new == WithRow(rs, w, i, row)
<1> HIDE DEF new
<1>1. /\ \A v \in Windows \ {w} : new[v] = rs[v]
      /\ DOMAIN new[w] = DOMAIN rs[w] /\ new[w][i] = row
      /\ \A j \in DOMAIN rs[w] \ {i} : new[w][j] = rs[w][j]
  BY OneRow DEF new
<1>2. OpenRows(new, w) = OpenRows(rs, w)
  BY <1>1 DEF OpenRows
<1>3. \A v \in Windows \ {w} : OpenRows(new, v) = OpenRows(rs, v)
  BY <1>1 DEF OpenRows
<1> QED BY <1>2, <1>3 DEF new

LEMMA OneRowEnds ==
  ASSUME NEW rs \in [Windows -> Seq(Row)], NEW w \in Windows, NEW i \in DOMAIN rs[w],
         NEW row \in Row, row.status # "open"
  PROVE  /\ OpenRows(WithRow(rs, w, i, row), w) = OpenRows(rs, w) \ {i}
         /\ \A v \in Windows \ {w} : OpenRows(WithRow(rs, w, i, row), v) = OpenRows(rs, v)
<1> DEFINE new == WithRow(rs, w, i, row)
<1> HIDE DEF new
<1>1. /\ \A v \in Windows \ {w} : new[v] = rs[v]
      /\ DOMAIN new[w] = DOMAIN rs[w] /\ new[w][i] = row
      /\ \A j \in DOMAIN rs[w] \ {i} : new[w][j] = rs[w][j]
  BY OneRow DEF new
<1>2. OpenRows(new, w) = OpenRows(rs, w) \ {i}
  BY <1>1 DEF OpenRows
<1>3. \A v \in Windows \ {w} : OpenRows(new, v) = OpenRows(rs, v)
  BY <1>1 DEF OpenRows
<1> QED BY <1>2, <1>3 DEF new

LEMMA OneRowFinal ==
  ASSUME NEW rs \in [Windows -> Seq(Row)], NEW w \in Windows, NEW i \in DOMAIN rs[w],
         NEW row \in Row, rs[w][i].status = "open"
  PROVE  Final(rs, WithRow(rs, w, i, row))
<1> DEFINE new == WithRow(rs, w, i, row)
<1>1. /\ \A v \in Windows \ {w} : new[v] = rs[v]
      /\ DOMAIN new[w] = DOMAIN rs[w]
      /\ \A j \in DOMAIN rs[w] \ {i} : new[w][j] = rs[w][j]
  BY DEF WithRow
<1> HIDE DEF new
<1>2. ASSUME NEW v \in Windows, NEW j \in DOMAIN rs[v]
      PROVE  /\ j \in DOMAIN new[v]
             /\ rs[v][j].status # "open" => new[v][j] = rs[v][j]
  <2>1. CASE v = w
    BY <1>1, <2>1
  <2>2. CASE v # w
    BY <1>1, <2>2
  <2> QED BY <2>1, <2>2
<1> QED BY <1>2 DEF Final, new

\* An update of a session's open row opens and closes nothing.
LEMMA UpdateRows ==
  ASSUME NEW rs \in [Windows -> Seq(Row)], NEW session \in Session,
         NEW snap \in Snapshot, session.id \in OpenRows(rs, snap.win)
  PROVE  /\ UpdateRow(rs, session, snap) \in [Windows -> Seq(Row)]
         /\ \A w \in Windows : OpenRows(UpdateRow(rs, session, snap), w) = OpenRows(rs, w)
         /\ Final(rs, UpdateRow(rs, session, snap))
<1> DEFINE win == snap.win
           id == session.id
           row == [rs[win][id] EXCEPT !.url = snap.url, !.urls = session.urls,
                                      !.trunc = session.trunc]
<1>1. /\ win \in Windows /\ rs[win] \in Seq(Row) /\ id \in DOMAIN rs[win]
      /\ id \in OpenRows(rs, win) /\ rs[win][id] \in Row /\ rs[win][id].status = "open"
  BY DEF Snapshot, OpenRows
<1>2. row \in Row /\ row.status = "open"
  BY <1>1 DEF Row, Snapshot, Session
<1>3. UpdateRow(rs, session, snap) = WithRow(rs, win, id, row)
  BY <1>1 DEF UpdateRow, WithRow
<1> HIDE DEF row, win, id
<1>4. Final(rs, WithRow(rs, win, id, row))
  BY <1>1, <1>2, OneRowFinal
<1>5. /\ WithRow(rs, win, id, row) \in [Windows -> Seq(Row)]
      /\ \A w \in Windows : OpenRows(WithRow(rs, win, id, row), w) = OpenRows(rs, w)
  BY <1>1, <1>2, OneRow, OneRowStaysOpen
<1> QED BY <1>3, <1>4, <1>5

\* A close takes the session's row out of the open ones and no other.
LEMMA CloseRows ==
  ASSUME NEW rs \in [Windows -> Seq(Row)], NEW session \in Session,
         NEW snap \in Snapshot, session.id \in OpenRows(rs, snap.win),
         NEW reason \in CloseReasons, NEW now \in Nat
  PROVE  /\ CloseRow(rs, session, snap, reason, now) \in [Windows -> Seq(Row)]
         /\ \A w \in Windows :
              OpenRows(CloseRow(rs, session, snap, reason, now), w) =
                IF w = snap.win THEN OpenRows(rs, w) \ {session.id} ELSE OpenRows(rs, w)
         /\ Final(rs, CloseRow(rs, session, snap, reason, now))
<1> DEFINE win == snap.win
           id == session.id
           row == [rs[win][id] EXCEPT !.status = "closed", !.url = snap.url,
                                      !.urls = session.urls, !.trunc = session.trunc,
                                      !.closedAt = now, !.reason = reason]
<1>1. /\ win \in Windows /\ rs[win] \in Seq(Row) /\ id \in DOMAIN rs[win]
      /\ rs[win][id] \in Row /\ rs[win][id].status = "open"
  BY DEF Snapshot, OpenRows
<1>2. row \in Row /\ row.status # "open"
  BY <1>1 DEF Row, Snapshot, Session, CloseReasons
<1>3. CloseRow(rs, session, snap, reason, now) = WithRow(rs, win, id, row)
  BY <1>1 DEF CloseRow, WithRow
<1> HIDE DEF row, win, id
<1>4. Final(rs, WithRow(rs, win, id, row))
  BY <1>1, <1>2, OneRowFinal
<1>5. /\ WithRow(rs, win, id, row) \in [Windows -> Seq(Row)]
      /\ \A w \in Windows : OpenRows(WithRow(rs, win, id, row), w) =
           IF w = win THEN OpenRows(rs, w) \ {id} ELSE OpenRows(rs, w)
  BY <1>1, <1>2, OneRow, OneRowEnds
<1> QED BY <1>3, <1>4, <1>5 DEF win, id

-----------------------------------------------------------------------------
(* The step of the invariant, one lemma per group of actions; each also shows  *)
(* that the step leaves the closed rows final.                                 *)

StepOK == WorkerInv' /\ Final(rows, rows')

LEMMA InitInv == Init => WorkerInv
<1> SUFFICES ASSUME Init PROVE WorkerInv
  OBVIOUS
<1>1. TypeOK
  BY DbAssumption, TypesOfConstants DEF Init, TypeOK
<1>2. OpenMatch
  BY TypesOfConstants DEF Init, OpenMatch, OpenRows, Tracked
<1> QED BY <1>1, <1>2 DEF WorkerInv

\* A step that leaves the worker's phase, the table, the sessions and the
\* configuration alone.
LEMMA FrameStep ==
  ASSUME WorkerInv, TypeOK', UNCHANGED <<phase, config, rows, sessions>>
  PROVE  StepOK
<1>1. OpenMatch'
  BY DEF WorkerInv, OpenMatch, Tracked
<1> QED BY <1>1, FinalComposes DEF StepOK, WorkerInv

\* What every command at the head of the queue is, and what taking it leaves.
LEMMA HeadCommand ==
  ASSUME TypeOK, NEW op, Takes(op)
  PROVE  /\ Head(queue) \in Command
         /\ queue' \in Seq(Command)
         /\ phase \in {"running", "draining"}
         /\ \A outcome \in {"ok", "error"} :
              Answer(Head(queue), outcome) =>
                reply' \in [Clients -> {"idle", "waiting", "ok", "error"}]
         /\ op \in {"open", "sync", "close"} => Head(queue).snap \in Snapshot
         /\ op = "close" => Head(queue).reason \in CloseReasons
         /\ op = "abort" => Head(queue).win \in Windows
         /\ op = "history" => /\ Head(queue).enabled \in BOOLEAN
                              /\ Head(queue).active \in SUBSET Snapshot
         /\ op = "retention" => Head(queue).days \in Nat
<1>1. Head(queue) \in Command /\ queue' \in Seq(Command)
  BY DEF TypeOK, Takes
<1>2. \A outcome \in {"ok", "error"} :
        Answer(Head(queue), outcome) =>
          reply' \in [Clients -> {"idle", "waiting", "ok", "error"}]
  BY DEF Answer, TypeOK
<1> QED BY <1>1, <1>2 DEF Takes, Command

LEMMA LifeCycleStep ==
  ASSUME WorkerInv, Recover \/ RecoverPrune \/ Crash \/ Tick \/ Drop
  PROVE  StepOK
<1> USE DEF WorkerInv
<1>0. /\ rows \in [Windows -> Seq(Row)] /\ day \in Nat /\ config.retention \in Nat
      /\ \A w \in Windows : phase \in {"down", "recovering"} => ~Tracked(w)
  BY DEF TypeOK, OpenMatch
<1>1. CASE Recover
  <2>1. TypeOK'
    BY <1>0, <1>1, AbruptRows DEF Recover, TypeOK
  <2>2. OpenMatch'
    BY <1>0, <1>1, AbruptRows DEF Recover, OpenMatch, Tracked
  <2> QED BY <1>0, <1>1, <2>1, <2>2, AbruptRows DEF Recover, StepOK
<1>2. CASE RecoverPrune
  <2>1. TypeOK'
    BY <1>0, <1>2, PruneRows DEF RecoverPrune, TypeOK
  <2>2. \A w \in Windows : ~Tracked(w)' /\ OpenRows(rows', w) = {}
    <3>1. \A w \in Windows : ~Tracked(w) /\ OpenRows(rows, w) = {}
      BY <1>0, <1>2 DEF RecoverPrune, OpenMatch
    <3>2. \A w \in Windows : OpenRows(rows', w) = OpenRows(rows, w)
      BY <1>0, <1>2, PruneRows DEF RecoverPrune
    <3> QED BY <1>2, <3>1, <3>2 DEF RecoverPrune, Tracked
  <2> QED BY <1>0, <1>2, <2>1, <2>2, PruneRows DEF RecoverPrune, StepOK, OpenMatch
<1>3. CASE Crash
  <2>1. TypeOK'
    BY <1>3, TypesOfConstants DEF Crash, TypeOK
  <2>2. OpenMatch'
    BY <1>3, TypesOfConstants DEF Crash, OpenMatch, Tracked
  <2> QED BY <1>3, <2>1, <2>2, FinalComposes DEF Crash, StepOK
<1>4. CASE Tick
  <2>1. TypeOK'
    BY <1>4 DEF Tick, TypeOK
  <2> QED BY <1>4, <2>1, FrameStep DEF Tick
<1>5. CASE Drop
  <2>1. [op |-> "shutdown", by |-> Nobody] \in Command
    BY DEF Command
  <2>2. TypeOK'
    BY <1>5, <2>1 DEF Drop, TypeOK
  <2>3. OpenMatch'
    BY <1>5 DEF Drop, OpenMatch, Tracked
  <2> QED BY <1>5, <2>2, <2>3, FinalComposes DEF Drop, StepOK
<1> QED BY <1>1, <1>2, <1>3, <1>4, <1>5

\* Sending a command leaves the worker's state alone.
LEMMA SendStep ==
  ASSUME WorkerInv, NEW cmd \in Command, Send(cmd),
         UNCHANGED <<phase, config, rows, sessions, day>>
  PROVE  StepOK
<1>1. TypeOK'
  BY DEF WorkerInv, Send, TypeOK
<1> QED BY <1>1, FrameStep

LEMMA ClientStep ==
  ASSUME WorkerInv, AsyncSend \/ \E c \in Clients : ClientSend(c)
  PROVE  StepOK
<1>1. CASE AsyncSend
  BY <1>1, SendStep, DbAssumption DEF AsyncSend, Command
<1>2. ASSUME NEW c \in Clients, ClientSend(c) PROVE StepOK
  BY <1>2, SendStep, DbAssumption DEF ClientSend, Listings, Command
<1> QED BY <1>1, <1>2

\* What the worker's command handlers share: they keep the phase, the clock and
\* the configuration, so the table and the sessions decide.
LEMMA HandlerStep ==
  ASSUME WorkerInv, UNCHANGED <<phase, config, day>>,
         phase \in {"running", "draining"}, queue' \in Seq(Command),
         reply' \in [Clients -> {"idle", "waiting", "ok", "error"}],
         rows' \in [Windows -> Seq(Row)], sessions' \in [Windows -> Session],
         Final(rows, rows'),
         \A w \in Windows :
           /\ OpenRows(rows', w) = IF Tracked(w)' THEN {sessions'[w].id} ELSE {}
           /\ ~config.enabled => OpenRows(rows', w) = {}
  PROVE  StepOK
<1>1. TypeOK'
  BY DEF WorkerInv, TypeOK
<1>2. OpenMatch'
  BY DEF OpenMatch
<1> QED BY <1>1, <1>2 DEF StepOK, WorkerInv

\* A handler that ends with nothing changed but its answer.
LEMMA IdleStep ==
  ASSUME WorkerInv, UNCHANGED <<phase, config, day, rows, sessions>>,
         queue' \in Seq(Command),
         reply' \in [Clients -> {"idle", "waiting", "ok", "error"}]
  PROVE  StepOK
<1>1. TypeOK'
  BY DEF WorkerInv, TypeOK
<1> QED BY <1>1, FrameStep

LEMMA OpenStep == WorkerInv /\ WorkerOpen => StepOK
<1> SUFFICES ASSUME WorkerInv, WorkerOpen PROVE StepOK
  OBVIOUS
<1> DEFINE cmd == Head(queue)
           snap == cmd.snap
           win == snap.win
           session == NewSession(Len(rows[win]) + 1, snap, FALSE)
           row == NewRow(snap, session)
<1>1. Takes("open") /\ UNCHANGED <<phase, config, day>> /\ TypeOK /\ OpenMatch
  BY DEF WorkerOpen, WorkerInv
<1>2. /\ snap \in Snapshot /\ win \in Windows /\ queue' \in Seq(Command)
      /\ phase \in {"running", "draining"}
      /\ reply' \in [Clients -> {"idle", "waiting", "ok", "error"}]
  BY <1>1, HeadCommand DEF WorkerOpen, Ignored, Failed, Snapshot
<1>3. CASE UNCHANGED <<rows, sessions>>
  BY <1>1, <1>2, <1>3, IdleStep
<1>4. CASE /\ config.enabled /\ ~Tracked(win)
           /\ rows' = [rows EXCEPT ![win] = Append(@, row)]
           /\ sessions' = [sessions EXCEPT ![win] = session]
  <2>1. /\ rows \in [Windows -> Seq(Row)] /\ rows[win] \in Seq(Row)
        /\ Len(rows[win]) + 1 \in Nat /\ sessions \in [Windows -> Session]
    BY <1>1, <1>2 DEF TypeOK
  <2>2. session \in Session /\ session.id = Len(rows[win]) + 1
    BY <1>2, <2>1, NewSessionType, Zenon
  <2>3. row \in Row /\ row.status = "open"
    BY <1>2, <2>2, NewRowType
  <2> HIDE DEF session, row, win
  <2>4. rows' \in [Windows -> Seq(Row)] /\ sessions' \in [Windows -> Session]
    BY <1>2, <1>4, <2>1, <2>2, <2>3
  <2>5. OpenRows(rows, win) = {}
    BY <1>1, <1>2, <1>4 DEF OpenMatch
  <2>6. OpenRows(rows', win) = {session.id}
    BY <1>2, <1>4, <2>1, <2>2, <2>3, <2>5 DEF OpenRows
  <2>7. \A w \in Windows \ {win} : rows'[w] = rows[w] /\ sessions'[w] = sessions[w]
    BY <1>4, <2>1
  <2>8. Final(rows, rows')
    <3>1. \A i \in DOMAIN rows[win] : i \in DOMAIN rows'[win] /\ rows'[win][i] = rows[win][i]
      BY <1>2, <1>4, <2>1, <2>3
    <3> QED BY <2>7, <3>1 DEF Final
  <2>9. ASSUME NEW w \in Windows
        PROVE  OpenRows(rows', w) = IF Tracked(w)' THEN {sessions'[w].id} ELSE {}
    <3>1. CASE w = win
      <4>1. sessions'[w] = session /\ session.id # 0
        BY <1>2, <1>4, <2>1, <2>2, <3>1
      <4> QED BY <2>6, <3>1, <4>1 DEF Tracked
    <3>2. CASE w # win
      BY <1>1, <1>2, <2>7, <3>2 DEF Tracked, OpenMatch, OpenRows
    <3> QED BY <3>1, <3>2
  <2> QED BY <1>1, <1>2, <1>4, <2>4, <2>8, <2>9, HandlerStep
<1> QED BY <1>3, <1>4 DEF WorkerOpen, Ignored, Failed

LEMMA AbortStep == WorkerInv /\ WorkerAbort => StepOK
<1> SUFFICES ASSUME WorkerInv, WorkerAbort PROVE StepOK
  OBVIOUS
<1> DEFINE win == Head(queue).win
           id == sessions[win].id
<1>1. Takes("abort") /\ UNCHANGED <<phase, config, day>> /\ TypeOK /\ OpenMatch
  BY DEF WorkerAbort, WorkerInv
<1>2. /\ win \in Windows /\ queue' \in Seq(Command) /\ phase \in {"running", "draining"}
      /\ reply' \in [Clients -> {"idle", "waiting", "ok", "error"}]
      /\ rows \in [Windows -> Seq(Row)] /\ sessions \in [Windows -> Session]
  BY <1>1, HeadCommand DEF WorkerAbort, Ignored, Failed, TypeOK
<1>3. CASE UNCHANGED <<rows, sessions>>
  BY <1>1, <1>2, <1>3, IdleStep
<1>4. CASE /\ Tracked(win)
           /\ rows' = [rows EXCEPT ![win][id] = IF @.status = "open" THEN Deleted ELSE @]
           /\ sessions' = [sessions EXCEPT ![win] = NoSession]
  <2>1. OpenRows(rows, win) = {id}
    BY <1>1, <1>2, <1>4 DEF OpenMatch
  <2>2. id \in DOMAIN rows[win] /\ rows[win][id].status = "open"
    BY <2>1 DEF OpenRows
  <2> HIDE DEF win, id
  <2>3. rows' = WithRow(rows, win, id, Deleted)
    BY <1>2, <1>4, <2>2 DEF WithRow
  <2>4. Final(rows, rows')
    BY <1>2, <2>2, <2>3, OneRowFinal, TypesOfConstants
  <2>5. /\ rows' \in [Windows -> Seq(Row)]
        /\ \A w \in Windows \ {win} : OpenRows(rows', w) = OpenRows(rows, w)
        /\ OpenRows(rows', win) = OpenRows(rows, win) \ {id}
    <3>1. Deleted \in Row /\ Deleted.status # "open"
      BY TypesOfConstants
    <3>2. WithRow(rows, win, id, Deleted) \in [Windows -> Seq(Row)]
      BY <1>2, <2>2, <3>1, OneRow
    <3>3. /\ OpenRows(WithRow(rows, win, id, Deleted), win) = OpenRows(rows, win) \ {id}
          /\ \A w \in Windows \ {win} :
               OpenRows(WithRow(rows, win, id, Deleted), w) = OpenRows(rows, w)
      BY <1>2, <2>2, <3>1, OneRowEnds
    <3> QED BY <2>3, <3>2, <3>3
  <2>6. /\ sessions' \in [Windows -> Session] /\ sessions'[win] = NoSession
        /\ \A w \in Windows \ {win} : sessions'[w] = sessions[w]
    BY <1>2, <1>4, TypesOfConstants
  <2>7. ASSUME NEW w \in Windows
        PROVE  /\ OpenRows(rows', w) = IF Tracked(w)' THEN {sessions'[w].id} ELSE {}
               /\ ~config.enabled => OpenRows(rows', w) = {}
    <3>1. CASE w = win
      BY <2>1, <2>5, <2>6, <3>1, TypesOfConstants DEF Tracked
    <3>2. CASE w # win
      BY <1>1, <1>2, <2>5, <2>6, <3>2 DEF Tracked, OpenMatch
    <3> QED BY <3>1, <3>2
  <2> QED BY <1>1, <1>2, <2>4, <2>5, <2>6, <2>7, HandlerStep
<1> QED BY <1>3, <1>4 DEF WorkerAbort, Ignored, Failed

LEMMA SyncStep == WorkerInv /\ WorkerSync => StepOK
<1> SUFFICES ASSUME WorkerInv, WorkerSync PROVE StepOK
  OBVIOUS
<1> DEFINE snap == Head(queue).snap
           win == snap.win
           session == Observe(sessions[win], snap)
<1>1. Takes("sync") /\ UNCHANGED <<phase, config, day>> /\ TypeOK /\ OpenMatch
  BY DEF WorkerSync, WorkerInv
<1>2. /\ snap \in Snapshot /\ win \in Windows /\ queue' \in Seq(Command)
      /\ phase \in {"running", "draining"}
      /\ reply' \in [Clients -> {"idle", "waiting", "ok", "error"}]
      /\ rows \in [Windows -> Seq(Row)] /\ sessions \in [Windows -> Session]
  BY <1>1, HeadCommand DEF WorkerSync, Ignored, Outcomes, Snapshot, TypeOK
<1>3. CASE UNCHANGED <<rows, sessions>>
  BY <1>1, <1>2, <1>3, IdleStep
<1>4. CASE /\ Tracked(win)
           /\ sessions' = [sessions EXCEPT ![win] = session]
           /\ rows' = rows \/ rows' = UpdateRow(rows, session, snap)
  <2>1. OpenRows(rows, win) = {sessions[win].id} /\ sessions[win] \in Session
    BY <1>1, <1>2, <1>4 DEF OpenMatch
  <2>2. session \in Session /\ session.id = sessions[win].id
    BY <1>2, <2>1, ObserveType, Zenon
  <2>3. session.id \in OpenRows(rows, snap.win)
    BY <2>1, <2>2
  <2> HIDE DEF session, snap
  <2>4. /\ rows' \in [Windows -> Seq(Row)]
        /\ \A w \in Windows : OpenRows(rows', w) = OpenRows(rows, w)
        /\ Final(rows, rows')
    BY <1>2, <1>4, <2>2, <2>3, UpdateRows, FinalComposes
  <2>5. /\ sessions' \in [Windows -> Session]
        /\ \A w \in Windows : sessions'[w].id = sessions[w].id
    BY <1>2, <1>4, <2>2
  <2>6. \A w \in Windows :
          /\ OpenRows(rows', w) = IF Tracked(w)' THEN {sessions'[w].id} ELSE {}
          /\ ~config.enabled => OpenRows(rows', w) = {}
    BY <1>1, <1>2, <2>4, <2>5 DEF OpenMatch, Tracked
  <2> QED BY <1>1, <1>2, <2>4, <2>5, <2>6, HandlerStep
<1> QED BY <1>3, <1>4 DEF WorkerSync, Ignored

LEMMA CloseStep == WorkerInv /\ WorkerClose => StepOK
<1> SUFFICES ASSUME WorkerInv, WorkerClose PROVE StepOK
  OBVIOUS
<1> DEFINE snap == Head(queue).snap
           reason == Head(queue).reason
           win == snap.win
           session == Observe(sessions[win], snap)
           closed == CloseRow(rows, session, snap, reason, day)
           retention == config.retention
<1>1. Takes("close") /\ UNCHANGED <<phase, config, day>> /\ TypeOK /\ OpenMatch
  BY DEF WorkerClose, WorkerInv
<1>2. /\ snap \in Snapshot /\ win \in Windows /\ reason \in CloseReasons
      /\ queue' \in Seq(Command) /\ phase \in {"running", "draining"}
      /\ reply' \in [Clients -> {"idle", "waiting", "ok", "error"}]
      /\ rows \in [Windows -> Seq(Row)] /\ sessions \in [Windows -> Session]
      /\ day \in Nat /\ retention \in Nat
  BY <1>1, HeadCommand DEF WorkerClose, Ignored, Failed, Snapshot, TypeOK
<1>3. CASE UNCHANGED <<rows, sessions>>
  BY <1>1, <1>2, <1>3, IdleStep
<1>4. CASE /\ Tracked(win)
           /\ rows' = Prune(closed, retention, day)
           /\ sessions' = [sessions EXCEPT ![win] = NoSession]
  <2>1. OpenRows(rows, win) = {sessions[win].id} /\ sessions[win] \in Session
    BY <1>1, <1>2, <1>4 DEF OpenMatch
  <2>2. session \in Session /\ session.id = sessions[win].id
    BY <1>2, <2>1, ObserveType, Zenon
  <2>3. session.id \in OpenRows(rows, snap.win)
    BY <2>1, <2>2
  <2> HIDE DEF session, snap, reason, retention
  <2>4. /\ closed \in [Windows -> Seq(Row)]
        /\ \A w \in Windows : OpenRows(closed, w) =
             IF w = snap.win THEN OpenRows(rows, w) \ {session.id} ELSE OpenRows(rows, w)
        /\ Final(rows, closed)
    BY <1>2, <2>2, <2>3, CloseRows
  <2> HIDE DEF closed
  <2>5. /\ rows' \in [Windows -> Seq(Row)]
        /\ \A w \in Windows : OpenRows(rows', w) = OpenRows(closed, w)
        /\ Final(closed, rows')
    BY <1>2, <1>4, <2>4, PruneRows
  <2>6. Final(rows, rows')
    BY <2>4, <2>5, FinalComposes
  <2>7. /\ sessions' \in [Windows -> Session] /\ sessions'[win] = NoSession
        /\ \A w \in Windows \ {win} : sessions'[w] = sessions[w]
    BY <1>2, <1>4, TypesOfConstants
  <2>8. ASSUME NEW w \in Windows
        PROVE  /\ OpenRows(rows', w) = IF Tracked(w)' THEN {sessions'[w].id} ELSE {}
               /\ ~config.enabled => OpenRows(rows', w) = {}
    <3>1. CASE w = win
      <4>1. OpenRows(rows', w) = {}
        BY <1>2, <2>1, <2>2, <2>4, <2>5, <3>1
      <4> QED BY <2>7, <3>1, <4>1, TypesOfConstants DEF Tracked
    <3>2. CASE w # win
      <4>1. OpenRows(rows', w) = OpenRows(rows, w)
        BY <2>4, <2>5, <3>2
      <4> QED BY <1>1, <1>2, <2>7, <3>2, <4>1 DEF Tracked, OpenMatch
    <3> QED BY <3>1, <3>2
  <2> QED BY <1>1, <1>2, <2>5, <2>6, <2>7, <2>8, HandlerStep
<1> QED BY <1>3, <1>4 DEF WorkerClose, Ignored, Failed

LEMMA ClearStep == WorkerInv /\ WorkerClear => StepOK
<1> SUFFICES ASSUME WorkerInv, WorkerClear PROVE StepOK
  OBVIOUS
<1>1. Takes("clear") /\ UNCHANGED <<phase, config, day, sessions>> /\ TypeOK /\ OpenMatch
  BY DEF WorkerClear, Failed, WorkerInv
<1>2. /\ queue' \in Seq(Command) /\ phase \in {"running", "draining"}
      /\ reply' \in [Clients -> {"idle", "waiting", "ok", "error"}]
      /\ rows \in [Windows -> Seq(Row)] /\ sessions \in [Windows -> Session]
  BY <1>1, HeadCommand DEF WorkerClear, Failed, TypeOK
<1>3. CASE UNCHANGED rows
  BY <1>1, <1>2, <1>3, IdleStep
<1>4. CASE rows' = DeleteStatus(rows, "closed")
  <2>1. /\ rows' \in [Windows -> Seq(Row)]
        /\ \A w \in Windows : OpenRows(rows', w) = OpenRows(rows, w)
        /\ Final(rows, rows')
    BY <1>2, <1>4, DeleteRows
  <2>2. \A w \in Windows :
          /\ OpenRows(rows', w) = IF Tracked(w)' THEN {sessions'[w].id} ELSE {}
          /\ ~config.enabled => OpenRows(rows', w) = {}
    BY <1>1, <1>2, <2>1 DEF OpenMatch, Tracked
  <2> QED BY <1>1, <1>2, <2>1, <2>2, HandlerStep
<1> QED BY <1>3, <1>4 DEF WorkerClear, Failed

LEMMA RetentionStep == WorkerInv /\ WorkerSetRetention => StepOK
<1> SUFFICES ASSUME WorkerInv, WorkerSetRetention PROVE StepOK
  OBVIOUS
<1> DEFINE days == Head(queue).days
<1>1. Takes("retention") /\ UNCHANGED <<phase, day, sessions>> /\ TypeOK /\ OpenMatch
  BY DEF WorkerSetRetention, Ignored, Failed, WorkerInv
<1>2. /\ days \in Nat /\ queue' \in Seq(Command) /\ phase \in {"running", "draining"}
      /\ reply' \in [Clients -> {"idle", "waiting", "ok", "error"}]
      /\ rows \in [Windows -> Seq(Row)] /\ day \in Nat
      /\ config \in [enabled: BOOLEAN, retention: Nat]
  BY <1>1, HeadCommand DEF WorkerSetRetention, Ignored, Failed, TypeOK
<1>3. CASE UNCHANGED <<config, rows>>
  BY <1>1, <1>2, <1>3, IdleStep
<1>4. CASE /\ rows' = Prune(rows, days, day)
           /\ config' = [config EXCEPT !.retention = days]
  <2>1. /\ rows' \in [Windows -> Seq(Row)]
        /\ \A w \in Windows : OpenRows(rows', w) = OpenRows(rows, w)
        /\ Final(rows, rows')
    BY <1>2, <1>4, PruneRows
  <2>2. config' \in [enabled: BOOLEAN, retention: Nat] /\ config'.enabled = config.enabled
    BY <1>2, <1>4
  <2>3. TypeOK'
    BY <1>1, <1>2, <2>1, <2>2 DEF TypeOK
  <2>4. OpenMatch'
    BY <1>1, <2>1, <2>2 DEF OpenMatch, Tracked
  <2> QED BY <2>1, <2>3, <2>4 DEF StepOK, WorkerInv
<1> QED BY <1>3, <1>4 DEF WorkerSetRetention, Ignored, Failed

\* Appending an open row to a table with no open row leaves that row open.
LEMMA AppendOpen ==
  ASSUME NEW rs \in Seq(Row), NEW row \in Row, row.status = "open",
         {i \in DOMAIN rs : rs[i].status = "open"} = {}
  PROVE  /\ Append(rs, row) \in Seq(Row)
         /\ {i \in DOMAIN Append(rs, row) : Append(rs, row)[i].status = "open"}
              = {Len(rs) + 1}
         /\ \A i \in DOMAIN rs : /\ i \in DOMAIN Append(rs, row)
                                 /\ Append(rs, row)[i] = rs[i]
OBVIOUS

LEMMA EnableStep ==
  ASSUME WorkerInv, WorkerSetHistory, Head(queue).enabled, ~config.enabled,
         config' # config
  PROVE  StepOK
<1> DEFINE active == Head(queue).active
           listed(w) == Enabled(active, w) # {}
           snapOf(w) == CHOOSE snap \in Enabled(active, w) : TRUE
           session(w) == NewSession(Len(rows[w]) + 1, snapOf(w), TRUE)
           row(w) == NewRow(snapOf(w), session(w))
<1>1. Takes("history") /\ UNCHANGED <<phase, day>> /\ TypeOK /\ OpenMatch
  BY DEF WorkerSetHistory, WorkerInv
<1>2. /\ active \in SUBSET Snapshot
      /\ queue' \in Seq(Command) /\ phase \in {"running", "draining"}
      /\ reply' \in [Clients -> {"idle", "waiting", "ok", "error"}]
      /\ rows \in [Windows -> Seq(Row)]
      /\ config \in [enabled: BOOLEAN, retention: Nat]
  BY <1>1, HeadCommand DEF WorkerSetHistory, Ignored, Failed, TypeOK
<1>3. /\ rows' = [w \in Windows |-> IF listed(w) THEN Append(rows[w], row(w)) ELSE rows[w]]
      /\ sessions' = [w \in Windows |-> IF listed(w) THEN session(w) ELSE NoSession]
      /\ config' = [config EXCEPT !.enabled = TRUE]
  BY DEF WorkerSetHistory
<1>4. \A w \in Windows : rows[w] \in Seq(Row) /\ OpenRows(rows, w) = {}
  BY <1>1, <1>2 DEF OpenMatch
<1>5. ASSUME NEW w \in Windows, listed(w)
      PROVE  /\ session(w) \in Session /\ session(w).id = Len(rows[w]) + 1
             /\ row(w) \in Row /\ row(w).status = "open"
  <2>1. snapOf(w) \in Snapshot
    BY <1>2, <1>5 DEF Enabled
  <2>2. Len(rows[w]) + 1 \in Nat
    BY <1>4
  <2> HIDE DEF snapOf
  <2>3. session(w) \in Session /\ session(w).id = Len(rows[w]) + 1
    BY <2>1, <2>2, NewSessionType, Zenon
  <2> QED BY <2>1, <2>3, NewRowType
<1> HIDE DEF listed, session, row
<1>6. ASSUME NEW w \in Windows
      PROVE  /\ rows'[w] \in Seq(Row) /\ sessions'[w] \in Session
             /\ OpenRows(rows', w) = IF Tracked(w)' THEN {sessions'[w].id} ELSE {}
             /\ \A i \in DOMAIN rows[w] : i \in DOMAIN rows'[w] /\ rows'[w][i] = rows[w][i]
  <2>1. CASE listed(w)
    <3>1. rows'[w] = Append(rows[w], row(w)) /\ sessions'[w] = session(w)
      BY <1>3, <2>1
    <3>2. /\ rows[w] \in Seq(Row) /\ row(w) \in Row /\ row(w).status = "open"
          /\ {i \in DOMAIN rows[w] : rows[w][i].status = "open"} = {}
      BY <1>4, <1>5, <2>1 DEF OpenRows
    <3>3. /\ rows'[w] \in Seq(Row) /\ OpenRows(rows', w) = {Len(rows[w]) + 1}
          /\ \A i \in DOMAIN rows[w] : i \in DOMAIN rows'[w] /\ rows'[w][i] = rows[w][i]
      BY <3>1, <3>2, AppendOpen DEF OpenRows
    <3>4. Tracked(w)' /\ sessions'[w].id = Len(rows[w]) + 1 /\ sessions'[w] \in Session
      BY <1>5, <2>1, <3>1, <3>2 DEF Tracked
    <3> QED BY <3>3, <3>4
  <2>2. CASE ~listed(w)
    <3>1. rows'[w] = rows[w] /\ sessions'[w] = NoSession
      BY <1>3, <2>2
    <3> QED BY <1>4, <3>1, TypesOfConstants DEF OpenRows, Tracked
  <2> QED BY <2>1, <2>2
<1>7. /\ rows' \in [Windows -> Seq(Row)] /\ sessions' \in [Windows -> Session]
      /\ config' \in [enabled: BOOLEAN, retention: Nat] /\ config'.enabled
  BY <1>2, <1>3, <1>6
<1>8. TypeOK'
  BY <1>1, <1>2, <1>7 DEF TypeOK
<1>9. OpenMatch'
  BY <1>1, <1>2, <1>6, <1>7 DEF OpenMatch
<1>10. Final(rows, rows')
  BY <1>6 DEF Final
<1> QED BY <1>8, <1>9, <1>10 DEF StepOK, WorkerInv

LEMMA HistoryStep == WorkerInv /\ WorkerSetHistory => StepOK
<1> SUFFICES ASSUME WorkerInv, WorkerSetHistory PROVE StepOK
  OBVIOUS
<1>1. Takes("history") /\ UNCHANGED <<phase, day>> /\ TypeOK /\ OpenMatch
  BY DEF WorkerSetHistory, WorkerInv
<1>2. /\ queue' \in Seq(Command) /\ phase \in {"running", "draining"}
      /\ reply' \in [Clients -> {"idle", "waiting", "ok", "error"}]
      /\ rows \in [Windows -> Seq(Row)]
      /\ config \in [enabled: BOOLEAN, retention: Nat]
  BY <1>1, HeadCommand DEF WorkerSetHistory, Ignored, Failed, TypeOK
<1>3. CASE UNCHANGED <<config, rows, sessions>>
  BY <1>1, <1>2, <1>3, IdleStep
<1>4. CASE /\ rows' = DeleteStatus(rows, "open")
           /\ sessions' = [w \in Windows |-> NoSession]
           /\ config' = [config EXCEPT !.enabled = FALSE]
  <2>1. /\ rows' \in [Windows -> Seq(Row)]
        /\ \A w \in Windows : OpenRows(rows', w) = {}
        /\ Final(rows, rows')
    BY <1>2, <1>4, DeleteRows
  <2>2. /\ sessions' \in [Windows -> Session] /\ \A w \in Windows : ~Tracked(w)'
        /\ config' \in [enabled: BOOLEAN, retention: Nat]
    BY <1>2, <1>4, TypesOfConstants DEF Tracked
  <2>3. TypeOK'
    BY <1>1, <1>2, <2>1, <2>2 DEF TypeOK
  <2>4. OpenMatch'
    BY <2>1, <2>2 DEF OpenMatch
  <2> QED BY <2>1, <2>3, <2>4 DEF StepOK, WorkerInv
<1>5. CASE Head(queue).enabled /\ ~config.enabled /\ config' # config
  BY <1>5, EnableStep
<1>6. Head(queue).enabled /\ ~config.enabled /\ config' = [config EXCEPT !.enabled = TRUE]
        => config' # config
  BY <1>2
<1> QED BY <1>3, <1>4, <1>5, <1>6 DEF WorkerSetHistory, Ignored, Failed

LEMMA ShutdownStep == WorkerInv /\ WorkerShutdown => StepOK
<1> SUFFICES ASSUME WorkerInv, WorkerShutdown PROVE StepOK
  OBVIOUS
<1>1. TypeOK'
  BY TypesOfConstants, HeadCommand DEF WorkerShutdown, WorkerInv, TypeOK, Takes
<1>2. OpenMatch'
  BY TypesOfConstants DEF WorkerShutdown, WorkerInv, OpenMatch, Tracked
<1> QED BY <1>1, <1>2, FinalComposes DEF WorkerShutdown, StepOK, WorkerInv

\* The invariant is inductive, and every step leaves the closed rows final.
LEMMA NextStep == WorkerInv /\ [Next]_dbVars => StepOK
<1> SUFFICES ASSUME WorkerInv, [Next]_dbVars PROVE StepOK
  OBVIOUS
<1>1. CASE Recover \/ RecoverPrune \/ Crash \/ Tick \/ Drop
  BY <1>1, LifeCycleStep
<1>2. CASE AsyncSend \/ \E c \in Clients : ClientSend(c)
  BY <1>2, ClientStep
<1>3. CASE Worker
  BY <1>3, OpenStep, AbortStep, SyncStep, CloseStep, ClearStep, HistoryStep,
     RetentionStep, ShutdownStep DEF Worker
<1>4. CASE UNCHANGED dbVars
  <2>1. TypeOK'
    BY <1>4 DEF dbVars, WorkerInv, TypeOK
  <2> QED BY <1>4, <2>1, FrameStep DEF dbVars
<1> QED BY <1>1, <1>2, <1>3, <1>4 DEF Next

LEMMA InvAlways == Spec => []WorkerInv
<1>1. WorkerInv /\ [Next]_dbVars => WorkerInv'
  BY NextStep DEF StepOK
<1> QED BY InitInv, <1>1, PTL DEF Spec

-----------------------------------------------------------------------------
(* The theorems *)

\* Every command, answer, row and session of the worker keeps its type, whatever
\* the clients send and whenever the host dies.
THEOREM TypeCorrect == Spec => []TypeOK
<1>1. WorkerInv => TypeOK
  BY DEF WorkerInv
<1> QED BY <1>1, InvAlways, PTL

\* The sessions the worker remembers are exactly the open rows of the table.
THEOREM SessionsMatch == Spec => []SessionsMatchOpenRows
<1>1. WorkerInv => SessionsMatchOpenRows
  <2> SUFFICES ASSUME WorkerInv, NEW w \in Windows
               PROVE  /\ Tracked(w) => /\ phase \in {"running", "draining"}
                                       /\ sessions[w].id \in DOMAIN rows[w]
                                       /\ rows[w][sessions[w].id].status = "open"
                      /\ \A i \in DOMAIN rows[w] :
                           rows[w][i].status = "open" =>
                             phase = "down" \/ (phase # "recovering" /\ sessions[w].id = i)
    BY DEF SessionsMatchOpenRows
  <2>1. CASE Tracked(w)
    <3>1. phase \in {"running", "draining"} /\ OpenRows(rows, w) = {sessions[w].id}
      BY <2>1 DEF WorkerInv, OpenMatch
    <3> QED BY <3>1 DEF OpenRows
  <2>2. CASE ~Tracked(w)
    <3>1. phase = "down" \/ OpenRows(rows, w) = {}
      BY <2>2 DEF WorkerInv, OpenMatch
    <3> QED BY <2>2, <3>1 DEF OpenRows
  <2> QED BY <2>1, <2>2
<1> QED BY <1>1, InvAlways, PTL

\* While history is disabled the table holds no open row, even after a crash.
THEOREM DisabledIsUntracked == Spec => []DisabledTracksNothing
<1>1. WorkerInv => DisabledTracksNothing
  BY DEF WorkerInv, OpenMatch, OpenRows, DisabledTracksNothing
<1> QED BY <1>1, InvAlways, PTL

\* No step of any thread, and no restart, changes a closed row except to delete it.
THEOREM ClosedIsFinal == Spec => HistoryIsFinal
<1>1. WorkerInv /\ [Next]_dbVars =>
        [\A w \in Windows : \A i \in DOMAIN rows[w] :
           /\ i \in DOMAIN rows'[w]
           /\ rows[w][i].status = "closed" => rows'[w][i] \in {rows[w][i], Deleted}
           /\ rows[w][i].status = "deleted" => rows'[w][i] = rows[w][i]]_dbVars
  BY NextStep DEF StepOK, Final
<1> QED BY <1>1, InvAlways, PTL DEF Spec, HistoryIsFinal

-----------------------------------------------------------------------------
(* The refinement: what a step does to the table, row by row *)

\* Rows are added, and open.
RowsStart(rs, new) ==
  \A w \in Windows :
    /\ DOMAIN rs[w] \subseteq DOMAIN new[w]
    /\ \A i \in DOMAIN rs[w] : new[w][i] = rs[w][i]
    /\ \A i \in DOMAIN new[w] \ DOMAIN rs[w] : new[w][i].status = "open"

\* Open rows are updated, or go; and open rows are closed, and closed ones go.
RowsDrop(rs, new) ==
  \A w \in Windows :
    /\ DOMAIN new[w] = DOMAIN rs[w]
    /\ \A i \in DOMAIN rs[w] :
         new[w][i] = rs[w][i] \/ (rs[w][i].status = "open" /\ new[w][i].status \in {"open", "deleted"})
RowsEnd(rs, new) ==
  \A w \in Windows :
    /\ DOMAIN new[w] = DOMAIN rs[w]
    /\ \A i \in DOMAIN rs[w] :
         \/ new[w][i] = rs[w][i]
         \/ rs[w][i].status = "open" /\ new[w][i].status = "closed"
         \/ rs[w][i].status = "closed" /\ new[w][i] = Deleted

\* What NoPrematureLoss says of a step, of two tables.
Outlived(rs, new, retention, now) ==
  \A w \in Windows : \A i \in DOMAIN rs[w] :
    rs[w][i].status = "closed" /\ new[w][i] = Deleted => Expired(rs[w][i], retention, now)

TableStep ==
  /\ RowsStart(rows, rows') \/ RowsDrop(rows, rows') \/ RowsEnd(rows, rows')
  /\ \/ Outlived(rows, rows', config'.retention, day)
     \/ queue # <<>> /\ Head(queue).op = "clear"

LEMMA SameTable == \A rs, retention, now : RowsDrop(rs, rs) /\ Outlived(rs, rs, retention, now)
BY TypesOfConstants DEF RowsDrop, Outlived

LEMMA SameTableStep == ASSUME UNCHANGED rows PROVE TableStep
BY SameTable DEF TableStep

LEMMA PruneEnds ==
  ASSUME NEW rs \in [Windows -> Seq(Row)], NEW retention \in Nat, NEW now \in Nat
  PROVE  RowsEnd(rs, Prune(rs, retention, now)) /\ Outlived(rs, Prune(rs, retention, now), retention, now)
<1> DEFINE new == [w \in Windows |-> [i \in DOMAIN rs[w] |->
                     IF Expired(rs[w][i], retention, now) THEN Deleted ELSE rs[w][i]]]
<1>1. Prune(rs, retention, now) = new
  BY DEF Prune, EachRow
<1>2. RowsEnd(rs, new)
  BY DEF RowsEnd, Expired
<1>3. Outlived(rs, new, retention, now)
  BY TypesOfConstants DEF Outlived
<1> QED BY <1>1, <1>2, <1>3

LEMMA DeleteEnds ==
  ASSUME NEW rs \in [Windows -> Seq(Row)]
  PROVE  /\ RowsEnd(rs, DeleteStatus(rs, "closed"))
         /\ RowsDrop(rs, DeleteStatus(rs, "open"))
         /\ \A retention, now : Outlived(rs, DeleteStatus(rs, "open"), retention, now)
<1> DEFINE new(status) == [w \in Windows |-> [i \in DOMAIN rs[w] |->
                             IF rs[w][i].status = status THEN Deleted ELSE rs[w][i]]]
<1>1. DeleteStatus(rs, "closed") = new("closed") /\ DeleteStatus(rs, "open") = new("open")
  BY DEF DeleteStatus, EachRow
<1>2. RowsEnd(rs, new("closed"))
  BY DEF RowsEnd
<1>3. RowsDrop(rs, new("open"))
  BY TypesOfConstants DEF RowsDrop
<1>4. \A retention, now : Outlived(rs, new("open"), retention, now)
  BY TypesOfConstants DEF Outlived
<1> QED BY <1>1, <1>2, <1>3, <1>4

LEMMA AbruptEnds ==
  ASSUME NEW rs \in [Windows -> Seq(Row)], NEW now \in Nat
  PROVE  /\ RowsEnd(rs, CloseAbruptly(rs, now))
         /\ \A retention : Outlived(rs, CloseAbruptly(rs, now), retention, now)
<1> DEFINE abrupt(r) == IF r.status = "open"
                        THEN [r EXCEPT !.status = "closed", !.closedAt = now, !.reason = "abrupt"]
                        ELSE r
           new == [w \in Windows |-> [i \in DOMAIN rs[w] |-> abrupt(rs[w][i])]]
<1>1. CloseAbruptly(rs, now) = new
  BY DEF CloseAbruptly, EachRow
<1>2. ASSUME NEW r \in Row
      PROVE  IF r.status = "open" THEN abrupt(r).status = "closed" ELSE abrupt(r) = r
  BY DEF Row
<1> HIDE DEF abrupt
<1>3. RowsEnd(rs, new)
  BY <1>2 DEF RowsEnd
<1>4. \A retention : Outlived(rs, new, retention, now)
  BY <1>2, TypesOfConstants DEF Outlived
<1> QED BY <1>1, <1>3, <1>4

\* One open row is replaced: by an open or a deleted one, or by a closed one.
LEMMA OneRowStep ==
  ASSUME NEW rs \in [Windows -> Seq(Row)], NEW w \in Windows, NEW i \in DOMAIN rs[w],
         NEW row \in Row, rs[w][i].status = "open"
  PROVE  /\ row.status # "closed" => RowsDrop(rs, WithRow(rs, w, i, row))
         /\ row.status = "closed" => RowsEnd(rs, WithRow(rs, w, i, row))
         /\ \A retention, now : Outlived(rs, WithRow(rs, w, i, row), retention, now)
<1> DEFINE new == WithRow(rs, w, i, row)
<1>1. /\ \A v \in Windows \ {w} : new[v] = rs[v]
      /\ DOMAIN new[w] = DOMAIN rs[w] /\ new[w][i] = row
      /\ \A j \in DOMAIN rs[w] \ {i} : new[w][j] = rs[w][j]
  BY OneRow
<1> HIDE DEF new
<1>2. ASSUME NEW v \in Windows
      PROVE  /\ DOMAIN new[v] = DOMAIN rs[v]
             /\ \A j \in DOMAIN rs[v] :
                  new[v][j] = rs[v][j] \/ (rs[v][j].status = "open" /\ new[v][j] = row)
  <2>1. CASE v = w
    BY <1>1, <2>1
  <2>2. CASE v # w
    BY <1>1, <2>2
  <2> QED BY <2>1, <2>2
<1>3. row.status \in {"open", "closed", "deleted"}
  BY DEF Row
<1>4. row.status # "closed" => RowsDrop(rs, new)
  BY <1>2, <1>3 DEF RowsDrop
<1>5. row.status = "closed" => RowsEnd(rs, new)
  BY <1>2 DEF RowsEnd
<1>6. \A retention, now : Outlived(rs, new, retention, now)
  BY <1>2, TypesOfConstants DEF Outlived
<1> QED BY <1>4, <1>5, <1>6 DEF new

LEMMA UpdateDrops ==
  ASSUME NEW rs \in [Windows -> Seq(Row)], NEW session \in Session,
         NEW snap \in Snapshot, session.id \in OpenRows(rs, snap.win)
  PROVE  /\ RowsDrop(rs, UpdateRow(rs, session, snap))
         /\ \A retention, now : Outlived(rs, UpdateRow(rs, session, snap), retention, now)
<1> DEFINE win == snap.win
           id == session.id
           row == [rs[win][id] EXCEPT !.url = snap.url, !.urls = session.urls,
                                      !.trunc = session.trunc]
<1>1. /\ win \in Windows /\ rs[win] \in Seq(Row) /\ id \in DOMAIN rs[win]
      /\ rs[win][id] \in Row /\ rs[win][id].status = "open"
  BY DEF Snapshot, OpenRows
<1>2. row \in Row /\ row.status = "open"
  BY <1>1 DEF Row, Snapshot, Session
<1>3. UpdateRow(rs, session, snap) = WithRow(rs, win, id, row)
  BY <1>1 DEF UpdateRow, WithRow
<1> HIDE DEF row, win, id
<1> QED BY <1>1, <1>2, <1>3, OneRowStep

\* A row that closes today has not outlived any retention.
LEMMA CloseEnds ==
  ASSUME NEW rs \in [Windows -> Seq(Row)], NEW session \in Session,
         NEW snap \in Snapshot, session.id \in OpenRows(rs, snap.win),
         NEW reason \in CloseReasons, NEW now \in Nat, NEW retention \in Nat
  PROVE  LET new == Prune(CloseRow(rs, session, snap, reason, now), retention, now) IN
         RowsEnd(rs, new) /\ Outlived(rs, new, retention, now)
<1> DEFINE win == snap.win
           id == session.id
           row == [rs[win][id] EXCEPT !.status = "closed", !.url = snap.url,
                                      !.urls = session.urls, !.trunc = session.trunc,
                                      !.closedAt = now, !.reason = reason]
           kept(r) == IF Expired(r, retention, now) THEN Deleted ELSE r
<1>1. /\ win \in Windows /\ rs[win] \in Seq(Row) /\ id \in DOMAIN rs[win]
      /\ rs[win][id] \in Row /\ rs[win][id].status = "open"
  BY DEF Snapshot, OpenRows
<1>2. row \in Row /\ row.status = "closed" /\ row.closedAt = now
  BY <1>1 DEF Row, Snapshot, Session, CloseReasons
<1>3. CloseRow(rs, session, snap, reason, now) = WithRow(rs, win, id, row)
  BY <1>1 DEF CloseRow, WithRow
<1>4. kept(row) = row
  BY <1>2 DEF Expired
<1> HIDE DEF row, win, id
<1> DEFINE mid == WithRow(rs, win, id, row)
           new == [w \in Windows |-> [i \in DOMAIN mid[w] |-> kept(mid[w][i])]]
<1>5. Prune(mid, retention, now) = new
  BY DEF Prune, EachRow
<1>6. /\ \A v \in Windows \ {win} : mid[v] = rs[v]
      /\ DOMAIN mid[win] = DOMAIN rs[win] /\ mid[win][id] = row
      /\ \A j \in DOMAIN rs[win] \ {id} : mid[win][j] = rs[win][j]
  BY <1>1, <1>2, OneRow
<1> HIDE DEF mid, kept
<1>7. ASSUME NEW v \in Windows
      PROVE  /\ DOMAIN new[v] = DOMAIN rs[v]
             /\ \A j \in DOMAIN rs[v] :
                  new[v][j] = kept(rs[v][j]) \/ (rs[v][j].status = "open" /\ new[v][j] = row)
  <2>1. CASE v = win
    BY <1>1, <1>4, <1>6, <2>1
  <2>2. CASE v # win
    BY <1>6, <2>2
  <2> QED BY <2>1, <2>2
<1> HIDE DEF new
<1>8. RowsEnd(rs, new)
  BY <1>2, <1>7 DEF RowsEnd, kept, Expired
<1>9. Outlived(rs, new, retention, now)
  BY <1>2, <1>7, TypesOfConstants DEF Outlived, kept
<1> QED BY <1>3, <1>5, <1>8, <1>9 DEF mid

-----------------------------------------------------------------------------
(* The table step of each action *)

LEMMA LifeTable == ASSUME WorkerInv, Recover \/ RecoverPrune \/ Crash \/ Tick \/ Drop PROVE TableStep
<1>1. rows \in [Windows -> Seq(Row)] /\ day \in Nat /\ config.retention \in Nat
  BY DEF WorkerInv, TypeOK
<1>2. CASE Recover
  BY <1>1, <1>2, AbruptEnds DEF Recover, TableStep
<1>3. CASE RecoverPrune
  BY <1>1, <1>3, PruneEnds DEF RecoverPrune, TableStep
<1>4. CASE Crash \/ Tick \/ Drop
  BY <1>4, SameTableStep DEF Crash, Tick, Drop
<1> QED BY <1>2, <1>3, <1>4

LEMMA OpenTable == ASSUME WorkerInv, WorkerOpen PROVE TableStep
<1> DEFINE snap == Head(queue).snap
           win == snap.win
           session == NewSession(Len(rows[win]) + 1, snap, FALSE)
           row == NewRow(snap, session)
<1>1. /\ win \in Windows /\ rows \in [Windows -> Seq(Row)] /\ rows[win] \in Seq(Row)
  BY HeadCommand DEF WorkerOpen, Ignored, Failed, Snapshot, WorkerInv, TypeOK
<1>2. row.status = "open"
  BY DEF NewRow
<1>3. CASE rows' = [rows EXCEPT ![win] = Append(rows[win], row)]
  <2> HIDE DEF row, win
  <2>1. ASSUME NEW w \in Windows
        PROVE  /\ DOMAIN rows[w] \subseteq DOMAIN rows'[w]
               /\ \A i \in DOMAIN rows[w] : rows'[w][i] = rows[w][i]
               /\ \A i \in DOMAIN rows'[w] \ DOMAIN rows[w] : rows'[w][i].status = "open"
    <3>1. CASE w = win
      BY <1>1, <1>2, <1>3, <3>1
    <3>2. CASE w # win
      BY <1>1, <1>3, <3>2
    <3> QED BY <3>1, <3>2
  <2>2. RowsStart(rows, rows')
    BY <2>1 DEF RowsStart
  <2>3. \A retention, now : Outlived(rows, rows', retention, now)
    BY <2>1, TypesOfConstants DEF Outlived
  <2> QED BY <2>2, <2>3 DEF TableStep
<1> QED BY <1>3, SameTableStep DEF WorkerOpen, Ignored, Failed

LEMMA AbortTable == ASSUME WorkerInv, WorkerAbort PROVE TableStep
<1> DEFINE win == Head(queue).win
           id == sessions[win].id
<1>1. /\ win \in Windows /\ rows \in [Windows -> Seq(Row)] /\ sessions \in [Windows -> Session]
  BY HeadCommand DEF WorkerAbort, Ignored, Failed, WorkerInv, TypeOK
<1>2. CASE /\ Tracked(win)
           /\ rows' = [rows EXCEPT ![win][id] = IF @.status = "open" THEN Deleted ELSE @]
  <2>1. id \in DOMAIN rows[win] /\ rows[win][id].status = "open"
    BY <1>1, <1>2 DEF WorkerInv, OpenMatch, OpenRows
  <2> HIDE DEF win, id
  <2>2. rows' = WithRow(rows, win, id, Deleted)
    BY <1>1, <1>2, <2>1 DEF WithRow
  <2>3. Deleted \in Row /\ Deleted.status # "closed"
    BY TypesOfConstants
  <2> QED BY <1>1, <2>1, <2>2, <2>3, OneRowStep DEF TableStep
<1> QED BY <1>2, SameTableStep DEF WorkerAbort, Ignored, Failed

\* What the session of a tracked window becomes addresses the window's open row.
LEMMA Addressed ==
  ASSUME WorkerInv, NEW snap \in Snapshot, Tracked(snap.win)
  PROVE  LET session == Observe(sessions[snap.win], snap) IN
         session \in Session /\ session.id \in OpenRows(rows, snap.win)
<1>1. snap.win \in Windows /\ sessions[snap.win] \in Session
  BY DEF Snapshot, WorkerInv, TypeOK
<1>2. OpenRows(rows, snap.win) = {sessions[snap.win].id}
  BY <1>1 DEF WorkerInv, OpenMatch
<1> DEFINE old == sessions[snap.win]
<1> HIDE DEF old
<1>3. Observe(old, snap) \in Session /\ Observe(old, snap).id = old.id
  BY <1>1, ObserveType DEF old
<1> QED BY <1>2, <1>3 DEF old

LEMMA SyncTable == ASSUME WorkerInv, WorkerSync PROVE TableStep
<1> DEFINE snap == Head(queue).snap
           session == Observe(sessions[snap.win], snap)
<1>1. snap \in Snapshot /\ rows \in [Windows -> Seq(Row)]
  BY HeadCommand DEF WorkerSync, Ignored, Outcomes, WorkerInv, TypeOK
<1>2. CASE Tracked(snap.win) /\ rows' = UpdateRow(rows, session, snap)
  <2>1. session \in Session /\ session.id \in OpenRows(rows, snap.win)
    BY <1>1, <1>2, Addressed
  <2> HIDE DEF session, snap
  <2> QED BY <1>1, <1>2, <2>1, UpdateDrops DEF TableStep
<1> QED BY <1>2, SameTableStep DEF WorkerSync, Ignored

LEMMA CloseTable == ASSUME WorkerInv, WorkerClose PROVE TableStep
<1> DEFINE snap == Head(queue).snap
           reason == Head(queue).reason
           session == Observe(sessions[snap.win], snap)
           retention == config.retention
<1>1. /\ snap \in Snapshot /\ reason \in CloseReasons /\ config' = config
      /\ rows \in [Windows -> Seq(Row)] /\ day \in Nat /\ retention \in Nat
  BY HeadCommand DEF WorkerClose, Ignored, Failed, WorkerInv, TypeOK
<1>2. CASE Tracked(snap.win) /\ rows' = Prune(CloseRow(rows, session, snap, reason, day), retention, day)
  <2>1. session \in Session /\ session.id \in OpenRows(rows, snap.win)
    BY <1>1, <1>2, Addressed
  <2>2. config'.retention = retention
    BY <1>1
  <2> HIDE DEF session, snap, reason, retention
  <2> QED BY <1>1, <1>2, <2>1, <2>2, CloseEnds DEF TableStep
<1> QED BY <1>2, SameTableStep DEF WorkerClose, Ignored, Failed

LEMMA ClearTable == ASSUME WorkerInv, WorkerClear PROVE TableStep
<1>1. rows \in [Windows -> Seq(Row)] /\ queue # <<>> /\ Head(queue).op = "clear"
  BY DEF WorkerClear, Takes, WorkerInv, TypeOK
<1> QED BY <1>1, DeleteEnds, SameTableStep DEF WorkerClear, Failed, TableStep

LEMMA RetentionTable == ASSUME WorkerInv, WorkerSetRetention PROVE TableStep
<1> DEFINE days == Head(queue).days
<1>1. /\ rows \in [Windows -> Seq(Row)] /\ day \in Nat /\ days \in Nat
      /\ config \in [enabled: BOOLEAN, retention: Nat]
  BY HeadCommand DEF WorkerSetRetention, Ignored, Failed, WorkerInv, TypeOK
<1>2. CASE rows' = Prune(rows, days, day) /\ config' = [config EXCEPT !.retention = days]
  <2>1. config'.retention = days
    BY <1>1, <1>2
  <2> HIDE DEF days
  <2> QED BY <1>1, <1>2, <2>1, PruneEnds DEF TableStep
<1> QED BY <1>2, SameTableStep DEF WorkerSetRetention, Ignored, Failed

LEMMA HistoryTable == ASSUME WorkerInv, WorkerSetHistory PROVE TableStep
<1> DEFINE active == Head(queue).active
           listed(w) == Enabled(active, w) # {}
           snapOf(w) == CHOOSE snap \in Enabled(active, w) : TRUE
           session(w) == NewSession(Len(rows[w]) + 1, snapOf(w), TRUE)
           row(w) == NewRow(snapOf(w), session(w))
<1>1. rows \in [Windows -> Seq(Row)]
  BY DEF WorkerInv, TypeOK
<1>2. CASE rows' = DeleteStatus(rows, "open")
  BY <1>1, <1>2, DeleteEnds DEF TableStep
<1>3. CASE rows' = [w \in Windows |-> IF listed(w) THEN Append(rows[w], row(w)) ELSE rows[w]]
  <2>1. \A w \in Windows : row(w).status = "open"
    BY DEF NewRow
  <2> HIDE DEF listed, row
  <2>2. ASSUME NEW w \in Windows
        PROVE  /\ DOMAIN rows[w] \subseteq DOMAIN rows'[w]
               /\ \A i \in DOMAIN rows[w] : rows'[w][i] = rows[w][i]
               /\ \A i \in DOMAIN rows'[w] \ DOMAIN rows[w] : rows'[w][i].status = "open"
    <3>1. CASE listed(w)
      <4>1. rows'[w] = Append(rows[w], row(w)) /\ rows[w] \in Seq(Row)
        BY <1>1, <1>3, <3>1
      <4> QED BY <2>1, <4>1
    <3>2. CASE ~listed(w)
      BY <1>3, <3>2
    <3> QED BY <3>1, <3>2
  <2>3. RowsStart(rows, rows')
    BY <2>2 DEF RowsStart
  <2>4. \A retention, now : Outlived(rows, rows', retention, now)
    BY <2>2, TypesOfConstants DEF Outlived
  <2> QED BY <2>3, <2>4 DEF TableStep
<1> QED BY <1>2, <1>3, SameTableStep DEF WorkerSetHistory, Ignored, Failed

LEMMA EveryTable == WorkerInv /\ [Next]_dbVars => TableStep
<1> SUFFICES ASSUME WorkerInv, [Next]_dbVars PROVE TableStep
  OBVIOUS
<1>1. CASE Recover \/ RecoverPrune \/ Crash \/ Tick \/ Drop
  BY <1>1, LifeTable
<1>2. CASE AsyncSend \/ \E c \in Clients : ClientSend(c)
  BY <1>2, SameTableStep DEF AsyncSend, ClientSend
<1>3. CASE WorkerShutdown \/ UNCHANGED dbVars
  BY <1>3, SameTableStep DEF WorkerShutdown, dbVars
<1>4. CASE WorkerOpen \/ WorkerAbort \/ WorkerSync \/ WorkerClose \/ WorkerClear
           \/ WorkerSetHistory \/ WorkerSetRetention
  BY <1>4, OpenTable, AbortTable, SyncTable, CloseTable, ClearTable, HistoryTable, RetentionTable
<1> QED BY <1>1, <1>2, <1>3, <1>4 DEF Next, Worker

-----------------------------------------------------------------------------
(* The refinement: what a table is as a log *)

Slots(rs) == UNION {{w} \X DOMAIN rs[w] : w \in Windows}
Ids(rs, status) == {s \in Slots(rs) : rs[s[1]][s[2]].status \in status}
Logged(rs) == {[id |-> s, row |-> rs[s[1]][s[2]]] : s \in Ids(rs, {"closed"})}
Every == {"open", "closed", "deleted"}

LEMMA PlacesAre ==
  ASSUME NEW rs, NEW s \in Slots(rs)
  PROVE  /\ s[1] \in Windows /\ s[2] \in DOMAIN rs[s[1]]
         /\ \A new : s[2] \in DOMAIN new[s[1]] => s \in Slots(new)
<1>1. PICK w \in Windows : s \in {w} \X DOMAIN rs[w]
  BY DEF Slots
<1>2. PICK i \in DOMAIN rs[w] : s = <<w, i>>
  BY <1>1
<1>3. ASSUME NEW new, i \in DOMAIN new[w] PROVE s \in Slots(new)
  <2>1. s \in {w} \X DOMAIN new[w]
    BY <1>2, <1>3
  <2> QED BY <2>1 DEF Slots
<1> QED BY <1>2, <1>3

LEMMA IdsAre ==
  ASSUME NEW rs, NEW status, NEW s \in Ids(rs, status)
  PROVE  /\ s \in Slots(rs) /\ s[1] \in Windows /\ s[2] \in DOMAIN rs[s[1]]
         /\ rs[s[1]][s[2]].status \in status
BY PlacesAre DEF Ids

LEMMA IdIn ==
  ASSUME NEW rs, NEW status, NEW s, s[2] \in DOMAIN rs[s[1]], rs[s[1]][s[2]].status \in status,
         NEW old, s \in Slots(old)
  PROVE  s \in Ids(rs, status)
BY PlacesAre DEF Ids

LEMMA EveryRow ==
  ASSUME NEW rs \in [Windows -> Seq(Row)], NEW w \in Windows, NEW i \in DOMAIN rs[w]
  PROVE  rs[w][i].status \in Every
<1>1. rs[w] \in Seq(Row)
  OBVIOUS
<1>2. rs[w][i] \in Row
  BY <1>1
<1>3. \A row \in Row : row.status \in Every
  BY DEF Row, Every
<1> QED BY <1>2, <1>3

\* Rows that are added begin sessions.
LEMMA StartsBegin ==
  ASSUME NEW rs \in [Windows -> Seq(Row)], NEW new \in [Windows -> Seq(Row)], RowsStart(rs, new)
  PROVE  /\ Ids(rs, Every) \subseteq Ids(new, Every)
         /\ Ids(new, {"open"}) = Ids(rs, {"open"}) \union (Ids(new, Every) \ Ids(rs, Every))
         /\ Logged(new) = Logged(rs)
<1>1. /\ \A w \in Windows : \A i \in DOMAIN rs[w] : rs[w][i].status \in Every
      /\ \A w \in Windows : \A i \in DOMAIN new[w] : new[w][i].status \in Every
  BY EveryRow
<1>2. ASSUME NEW status, NEW s \in Ids(rs, status)
      PROVE  s \in Ids(new, status) /\ new[s[1]][s[2]] = rs[s[1]][s[2]]
  <2>1. /\ s \in Slots(rs) /\ s[1] \in Windows /\ s[2] \in DOMAIN rs[s[1]]
        /\ rs[s[1]][s[2]].status \in status
    BY IdsAre
  <2>2. s[2] \in DOMAIN new[s[1]] /\ new[s[1]][s[2]] = rs[s[1]][s[2]]
    BY <2>1 DEF RowsStart
  <2> QED BY <2>1, <2>2, IdIn
<1>3. ASSUME NEW status, NEW s \in Ids(new, status), s \notin Ids(rs, status)
      PROVE  s \in Ids(new, Every) \ Ids(rs, Every)
  <2>1. /\ s \in Slots(new) /\ s[1] \in Windows /\ s[2] \in DOMAIN new[s[1]]
        /\ new[s[1]][s[2]].status \in status
    BY IdsAre
  <2>2. s \in Ids(new, Every)
    BY <1>1, <2>1, IdIn
  <2>3. ASSUME s \in Ids(rs, Every) PROVE FALSE
    <3>1. s[2] \in DOMAIN rs[s[1]]
      BY <2>3, IdsAre
    <3>2. rs[s[1]][s[2]] = new[s[1]][s[2]]
      BY <2>1, <3>1 DEF RowsStart
    <3>3. s \in Ids(rs, status)
      BY <2>1, <3>1, <3>2, IdIn
    <3> QED BY <1>3, <3>3
  <2> QED BY <2>2, <2>3
<1>4. ASSUME NEW s \in Ids(new, Every), s \notin Ids(rs, Every) PROVE s \in Ids(new, {"open"})
  <2>1. s \in Slots(new) /\ s[1] \in Windows /\ s[2] \in DOMAIN new[s[1]]
    BY IdsAre
  <2>2. s[2] \notin DOMAIN rs[s[1]]
    <3>1. SUFFICES ASSUME s[2] \in DOMAIN rs[s[1]] PROVE FALSE
      OBVIOUS
    <3>2. rs[s[1]][s[2]].status \in Every
      BY <1>1, <2>1, <3>1
    <3> QED BY <1>4, <2>1, <3>1, <3>2, IdIn
  <2>3. new[s[1]][s[2]].status \in {"open"}
    BY <2>1, <2>2 DEF RowsStart
  <2> QED BY <2>1, <2>3, IdIn
<1>5. Ids(rs, Every) \subseteq Ids(new, Every) /\ Ids(rs, {"open"}) \subseteq Ids(new, {"open"})
  BY <1>2
<1>6. Ids(new, {"open"}) \ Ids(rs, {"open"}) \subseteq Ids(new, Every) \ Ids(rs, Every)
  BY <1>3
<1>7. Ids(new, {"closed"}) = Ids(rs, {"closed"})
  <2>1. ASSUME NEW s \in Ids(new, {"closed"}), s \notin Ids(rs, {"closed"}) PROVE FALSE
    <3>1. s \in Ids(new, {"open"})
      BY <1>3, <1>4, <2>1
    <3> QED BY <3>1, IdsAre
  <2> QED BY <1>2, <2>1
<1>8. Logged(new) = Logged(rs)
  BY <1>2, <1>7 DEF Logged
<1> QED BY <1>4, <1>5, <1>6, <1>8

LEMMA SameIds ==
  ASSUME NEW rs \in [Windows -> Seq(Row)], NEW new \in [Windows -> Seq(Row)],
         \A w \in Windows : DOMAIN new[w] = DOMAIN rs[w]
  PROVE  Ids(new, Every) = Ids(rs, Every)
<1>1. \A w \in Windows : \A i \in DOMAIN rs[w] : rs[w][i].status \in Every /\ new[w][i].status \in Every
  BY EveryRow
<1>2. ASSUME NEW s \in Ids(rs, Every) PROVE s \in Ids(new, Every)
  <2>1. s \in Slots(rs) /\ s[1] \in Windows /\ s[2] \in DOMAIN rs[s[1]]
    BY IdsAre
  <2> QED BY <1>1, <2>1, IdIn
<1>3. ASSUME NEW s \in Ids(new, Every) PROVE s \in Ids(rs, Every)
  <2>1. s \in Slots(new) /\ s[1] \in Windows /\ s[2] \in DOMAIN rs[s[1]]
    BY IdsAre
  <2> QED BY <1>1, <2>1, IdIn
<1> QED BY <1>2, <1>3

LEMMA DropsUntrack ==
  ASSUME NEW rs \in [Windows -> Seq(Row)], NEW new \in [Windows -> Seq(Row)], RowsDrop(rs, new)
  PROVE  /\ Ids(new, {"open"}) \subseteq Ids(rs, {"open"})
         /\ Ids(new, Every) = Ids(rs, Every) /\ Logged(new) = Logged(rs)
<1>1. ASSUME NEW s \in Ids(new, {"open"}) PROVE s \in Ids(rs, {"open"})
  <2>1. /\ s \in Slots(new) /\ s[1] \in Windows /\ s[2] \in DOMAIN new[s[1]]
        /\ new[s[1]][s[2]].status = "open"
    BY IdsAre
  <2>2. s[2] \in DOMAIN rs[s[1]] /\ rs[s[1]][s[2]].status \in {"open"}
    BY <2>1 DEF RowsDrop
  <2> QED BY <2>1, <2>2, IdIn
<1>2. ASSUME NEW s \in Ids(new, {"closed"}) PROVE s \in Ids(rs, {"closed"})
  <2>1. /\ s \in Slots(new) /\ s[1] \in Windows /\ s[2] \in DOMAIN new[s[1]]
        /\ new[s[1]][s[2]].status = "closed"
    BY IdsAre
  <2>2. s[2] \in DOMAIN rs[s[1]] /\ rs[s[1]][s[2]].status \in {"closed"}
    BY <2>1 DEF RowsDrop
  <2> QED BY <2>1, <2>2, IdIn
<1>3. ASSUME NEW s \in Ids(rs, {"closed"})
      PROVE  s \in Ids(new, {"closed"}) /\ new[s[1]][s[2]] = rs[s[1]][s[2]]
  <2>1. /\ s \in Slots(rs) /\ s[1] \in Windows /\ s[2] \in DOMAIN rs[s[1]]
        /\ rs[s[1]][s[2]].status = "closed"
    BY IdsAre
  <2>2. new[s[1]][s[2]] = rs[s[1]][s[2]] /\ s[2] \in DOMAIN new[s[1]]
    BY <2>1 DEF RowsDrop
  <2>3. new[s[1]][s[2]].status \in {"closed"}
    BY <2>1, <2>2
  <2> QED BY <2>1, <2>2, <2>3, IdIn
<1>4. Ids(new, {"closed"}) = Ids(rs, {"closed"})
  BY <1>2, <1>3
<1>5. Logged(new) = Logged(rs)
  BY <1>3, <1>4 DEF Logged
<1>6. Ids(new, Every) = Ids(rs, Every)
  BY SameIds DEF RowsDrop
<1> QED BY <1>1, <1>5, <1>6

LEMMA EndsFinish ==
  ASSUME NEW rs \in [Windows -> Seq(Row)], NEW new \in [Windows -> Seq(Row)], RowsEnd(rs, new)
  PROVE  LET added == Logged(new) \ Logged(rs) IN
         /\ {entry.id : entry \in added} = Ids(rs, {"open"}) \ Ids(new, {"open"})
         /\ \A d, e \in added : d.id = e.id => d = e
         /\ Ids(new, {"open"}) \subseteq Ids(rs, {"open"})
         /\ Ids(new, Every) = Ids(rs, Every)
<1> DEFINE added == Logged(new) \ Logged(rs)
           entry(s) == [id |-> s, row |-> new[s[1]][s[2]]]
<1>1. ASSUME NEW s \in Ids(new, {"open"}) PROVE s \in Ids(rs, {"open"})
  <2>1. /\ s \in Slots(new) /\ s[1] \in Windows /\ s[2] \in DOMAIN new[s[1]]
        /\ new[s[1]][s[2]].status = "open"
    BY IdsAre
  <2>2. s[2] \in DOMAIN rs[s[1]] /\ rs[s[1]][s[2]].status \in {"open"}
    BY <2>1, TypesOfConstants DEF RowsEnd
  <2> QED BY <2>1, <2>2, IdIn
<1>2. \A e \in Logged(new) : e.id \in Ids(new, {"closed"}) /\ e = entry(e.id)
  BY DEF Logged
<1>3. ASSUME NEW e \in added PROVE e.id \in Ids(rs, {"open"}) \ Ids(new, {"open"})
  <2>1. PICK s : s = e.id /\ s \in Ids(new, {"closed"}) /\ e = entry(s)
    BY <1>2
  <2>2. /\ s \in Slots(new) /\ s[1] \in Windows /\ s[2] \in DOMAIN new[s[1]]
        /\ new[s[1]][s[2]].status = "closed"
    BY <2>1, IdsAre
  <2>3. s \notin Ids(new, {"open"})
    BY <2>2, IdsAre
  <2>4. s[2] \in DOMAIN rs[s[1]]
    BY <2>2 DEF RowsEnd
  <2>5. CASE new[s[1]][s[2]] = rs[s[1]][s[2]]
    <3>1. rs[s[1]][s[2]].status \in {"closed"}
      BY <2>2, <2>5
    <3>2. s \in Ids(rs, {"closed"})
      BY <2>2, <2>4, <3>1, IdIn
    <3>3. e \in Logged(rs)
      BY <2>1, <2>5, <3>2 DEF Logged
    <3> QED BY <3>3
  <2>6. CASE rs[s[1]][s[2]].status = "open"
    <3>1. rs[s[1]][s[2]].status \in {"open"}
      BY <2>6
    <3>2. s \in Ids(rs, {"open"})
      BY <2>2, <2>4, <3>1, IdIn
    <3> QED BY <2>1, <2>3, <3>2
  <2> QED BY <2>2, <2>4, <2>5, <2>6, TypesOfConstants DEF RowsEnd
<1>4. ASSUME NEW s \in Ids(rs, {"open"}), s \notin Ids(new, {"open"})
      PROVE  entry(s) \in added /\ entry(s).id = s
  <2>1. /\ s \in Slots(rs) /\ s[1] \in Windows /\ s[2] \in DOMAIN rs[s[1]]
        /\ rs[s[1]][s[2]].status = "open"
    BY IdsAre
  <2>2. s[2] \in DOMAIN new[s[1]]
    BY <2>1 DEF RowsEnd
  <2>3. ~(new[s[1]][s[2]].status \in {"open"})
    BY <1>4, <2>1, <2>2, IdIn
  <2>4. new[s[1]][s[2]].status \in {"closed"}
    BY <2>1, <2>3 DEF RowsEnd
  <2>5. s \in Ids(new, {"closed"})
    BY <2>1, <2>2, <2>4, IdIn
  <2>6. entry(s) \in Logged(new)
    BY <2>5 DEF Logged
  <2>7. ASSUME entry(s) \in Logged(rs) PROVE FALSE
    <3>1. entry(s).id \in Ids(rs, {"closed"})
      BY <2>7 DEF Logged
    <3>2. s \in Ids(rs, {"closed"})
      BY <3>1
    <3>3. rs[s[1]][s[2]].status \in {"closed"}
      BY <3>2, IdsAre
    <3> QED BY <2>1, <3>3
  <2> QED BY <2>6, <2>7
<1>5. {e.id : e \in added} = Ids(rs, {"open"}) \ Ids(new, {"open"})
  <2> HIDE DEF added, entry
  <2> QED BY <1>3, <1>4
<1>6. \A d, e \in added : d.id = e.id => d = e
  <2>1. \A d, e \in added : d = entry(d.id) /\ e = entry(e.id)
    BY <1>2
  <2> HIDE DEF added, entry
  <2> QED BY <2>1
<1>7. Ids(new, Every) = Ids(rs, Every)
  BY SameIds DEF RowsEnd
<1> HIDE DEF added
<1> QED BY <1>1, <1>5, <1>6, <1>7 DEF added

\* The empty table is the empty log, and every step of the table is one of the log.
LEMMA SessionsOfTable ==
  /\ \A status : SessionIds(status) = Ids(rows, status)
  /\ {Entry(s) : s \in SessionIds({"closed"})} = Logged(rows)
<1>1. \A status : SessionIds(status) = Ids(rows, status)
  BY DEF SessionIds, Ids, Slots
<1>2. \A s : Entry(s) = [id |-> s, row |-> rows[s[1]][s[2]]]
  BY DEF Entry
<1>3. {Entry(s) : s \in SessionIds({"closed"})} = Logged(rows)
  BY <1>1, <1>2 DEF Logged
<1> QED BY <1>1, <1>3

LEMMA LogStarts == Init => Log!LogInit
<1> SUFFICES ASSUME Init PROVE Log!LogInit
  OBVIOUS
<1>1. \A w \in Windows : DOMAIN rows[w] = {}
  BY DEF Init
<1>2. \A status : Ids(rows, status) = {}
  BY <1>1, IdsAre
<1>3. \A status : SessionIds(status) = {}
  BY <1>2, SessionsOfTable
<1> QED BY <1>3 DEF Log!LogInit

LEMMA LogSteps == ASSUME WorkerInv, WorkerInv', TableStep PROVE Log!LogNext
<1>1. rows \in [Windows -> Seq(Row)] /\ rows' \in [Windows -> Seq(Row)]
  BY DEF WorkerInv, TypeOK
<1> DEFINE used == SessionIds({"open", "closed", "deleted"})
           tracked == SessionIds({"open"})
           log == {Entry(s) : s \in SessionIds({"closed"})}
<1>2. used = Ids(rows, Every) /\ tracked = Ids(rows, {"open"}) /\ log = Logged(rows)
  BY SessionsOfTable DEF Every
<1>3. used' = Ids(rows', Every) /\ tracked' = Ids(rows', {"open"}) /\ log' = Logged(rows')
  <2>1. used' = Ids(rows', Every) /\ tracked' = Ids(rows', {"open"})
    BY DEF SessionIds, Ids, Slots, Every
  <2>2. SessionIds({"closed"})' = Ids(rows', {"closed"})
    BY DEF SessionIds, Ids, Slots
  <2>3. log' = {[id |-> s, row |-> rows'[s[1]][s[2]]] : s \in SessionIds({"closed"})'}
    BY DEF Entry
  <2> QED BY <2>1, <2>2, <2>3 DEF Logged
<1>4. CASE RowsStart(rows, rows')
  <2>1. /\ Ids(rows, Every) \subseteq Ids(rows', Every)
        /\ Ids(rows', {"open"}) = Ids(rows, {"open"}) \union (Ids(rows', Every) \ Ids(rows, Every))
        /\ Logged(rows') = Logged(rows)
    BY <1>1, <1>4, StartsBegin
  <2>2. used \subseteq used' /\ tracked' = tracked \union (used' \ used) /\ log' = log
    BY <1>2, <1>3, <2>1
  <2> QED BY <2>2 DEF Log!LogNext, Log!Begin
<1>5. CASE RowsDrop(rows, rows')
  <2>1. /\ Ids(rows', {"open"}) \subseteq Ids(rows, {"open"})
        /\ Ids(rows', Every) = Ids(rows, Every) /\ Logged(rows') = Logged(rows)
    BY <1>1, <1>5, DropsUntrack
  <2>2. tracked' \subseteq tracked /\ used' = used /\ log' = log
    BY <1>2, <1>3, <2>1
  <2> QED BY <2>2 DEF Log!LogNext, Log!Untrack
<1>6. CASE RowsEnd(rows, rows')
  <2>1. LET added == Logged(rows') \ Logged(rows) IN
        /\ {entry.id : entry \in added} = Ids(rows, {"open"}) \ Ids(rows', {"open"})
        /\ \A d, e \in added : d.id = e.id => d = e
        /\ Ids(rows', {"open"}) \subseteq Ids(rows, {"open"})
        /\ Ids(rows', Every) = Ids(rows, Every)
    BY <1>1, <1>6, EndsFinish
  <2>2. LET added == log' \ log IN
        /\ {entry.id : entry \in added} = tracked \ tracked'
        /\ \A d, e \in added : d.id = e.id => d = e
        /\ tracked' \subseteq tracked /\ used' = used
    BY <1>2, <1>3, <2>1
  <2> QED BY <2>2 DEF Log!LogNext, Log!Finish
<1> QED BY <1>4, <1>5, <1>6 DEF TableStep

\* A closed row goes only when it has outlived the retention in force, or when a client cleared the
\* history (prune_expired, clear_history).
THEOREM NothingIsLostEarly == Spec => NoPrematureLoss
<1>1. WorkerInv /\ [Next]_dbVars =>
        [\A w \in Windows : \A i \in DOMAIN rows[w] :
           rows[w][i].status = "closed" /\ rows'[w][i] = Deleted =>
             \/ Expired(rows[w][i], config'.retention, day)
             \/ queue # <<>> /\ Head(queue).op = "clear"]_dbVars
  BY EveryTable DEF TableStep, Outlived
<1> QED BY <1>1, InvAlways, PTL DEF Spec, NoPrematureLoss

\* The worker, its queue, its failures and its restarts implement the abstract history log: a
\* session that is tracked ends as one entry or as none, and entries are final (HistoryLog).
THEOREM WorkerImplementsLog == Spec => ImplementsLog
<1>1. WorkerInv /\ WorkerInv' /\ [Next]_dbVars => [Log!LogNext]_(Log!logVars)
  BY EveryTable, LogSteps
<1> QED BY LogStarts, InvAlways, <1>1, PTL DEF Spec, ImplementsLog, Log!LogSpec
=============================================================================
