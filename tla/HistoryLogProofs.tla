-------------------------- MODULE HistoryLogProofs --------------------------
(***************************************************************************)
(* The invariant of the abstract history log, for any identities at all.   *)
(***************************************************************************)
EXTENDS HistoryLog, TLAPS

\* An entry of the log belongs to a session that was started and is over, and a
\* session has one entry at most: what the history command of the host shows.
THEOREM LogIsSound == LogSpec => []LogInv
<1>1. LogInit => LogInv
  BY DEF LogInit, LogInv
<1>2. LogInv /\ [LogNext]_logVars => LogInv'
  <2> SUFFICES ASSUME LogInv, [LogNext]_logVars PROVE LogInv'
    OBVIOUS
  <2>1. CASE Begin
    BY <2>1 DEF Begin, LogInv
  <2>2. CASE Finish
    <3> DEFINE added == log' \ log
    <3>1. /\ {entry.id : entry \in added} = tracked \ tracked'
          /\ \A d, e \in added : d.id = e.id => d = e
          /\ tracked' \subseteq tracked /\ used' = used
      BY <2>2 DEF Finish
    <3>2. \A entry \in log' : entry \in log \/ (entry \in added /\ entry.id \in tracked \ tracked')
      BY <3>1
    <3>3. \A entry \in log : entry.id \in used \ tracked
      BY DEF LogInv
    <3>4. \A d, e \in log' : d.id = e.id => d = e
      BY <3>1, <3>2, <3>3 DEF LogInv
    <3> QED BY <3>1, <3>2, <3>3, <3>4 DEF LogInv
  <2>3. CASE Untrack
    BY <2>3 DEF Untrack, LogInv
  <2>4. CASE Forget
    BY <2>4 DEF Forget, LogInv
  <2>5. CASE UNCHANGED logVars
    BY <2>5 DEF logVars, LogInv
  <2> QED BY <2>1, <2>2, <2>3, <2>4, <2>5 DEF LogNext
<1> QED BY <1>1, <1>2, PTL DEF LogSpec
=============================================================================
