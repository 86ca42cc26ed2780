----------------------------- MODULE HistoryLog -----------------------------
(***************************************************************************)
(* What the durable history promises, with the database, the worker, its   *)
(* queue and restarts left out: a tracked session ends as one entry of the *)
(* log or as none, an entry never changes, and an entry that was forgotten *)
(* never comes back.                                                       *)
(***************************************************************************)
EXTENDS FiniteSets

VARIABLES
  used,     \* identities of all sessions ever tracked
  tracked,  \* identities of the sessions being tracked
  log       \* entries of ended sessions, each with the id of its session

logVars == <<used, tracked, log>>

LogInit == used = {} /\ tracked = {} /\ log = {}

\* Fresh sessions start.
Begin ==
  /\ used \subseteq used'
  /\ tracked' = tracked \cup (used' \ used)
  /\ log' = log

\* Sessions end, each leaving exactly one entry; older entries may go.
Finish ==
  LET added == log' \ log
  IN /\ {entry.id : entry \in added} = tracked \ tracked'
     /\ \A d, e \in added : d.id = e.id => d = e
     /\ tracked' \subseteq tracked
     /\ used' = used

\* Sessions are no longer tracked and leave no entry.
Untrack ==
  /\ tracked' \subseteq tracked
  /\ UNCHANGED <<used, log>>

\* Entries go, by request or by age.
Forget ==
  /\ log' \subseteq log
  /\ UNCHANGED <<used, tracked>>

LogNext == Begin \/ Finish \/ Untrack \/ Forget

LogSpec == LogInit /\ [][LogNext]_logVars

\* Every logged or tracked session was started, none is both logged and still
\* tracked, and no session has two entries.
LogInv ==
  /\ tracked \subseteq used
  /\ {entry.id : entry \in log} \subseteq used \ tracked
  /\ \A d, e \in log : d.id = e.id => d = e
=============================================================================
