------------------------------ MODULE Exchange ------------------------------
(***************************************************************************)
(* One request and its answer (transport.rs of the client, ipc.rs of the   *)
(* host).  A client process validates, connects, writes one frame and      *)
(* reads one, each stage under its own timeout.  The host accepts, reads a *)
(* frame, runs the handler to its end on a thread of the runtime, and      *)
(* answers; a handler that blocks keeps its thread.  Either side may be    *)
(* gone while the other goes on: the host may be killed and started again. *)
(*                                                                         *)
(* A frame is its parts on the wire: nothing, some of it, or all of it     *)
(* with the newline that ends it.  The kernel's sockets are external.      *)
(***************************************************************************)
EXTENDS Naturals, FiniteSets

CONSTANTS
  Senders,   \* client processes: each sends one request
  Shapes,    \* bound: what they may send in one behaviour, a set of functions, see below
  Systems,   \* bound: the systems the host runs on
  Threads,   \* threads of the host's runtime
  MaxKills   \* bound: how often the host is killed

\* good: executed and answered; invalid: the client's own validation refuses it; huge: no frame
\* holds it; alien: a frame the host does not take for a request of its version; chatty: no frame
\* holds its answer; silent: a peer that connects, sends half a frame and stays.
AllShapes == {"good", "invalid", "huge", "alien", "chatty", "silent"}

ASSUME ExchangeAssumption ==
  /\ Shapes \subseteq [Senders -> AllShapes]
  /\ Systems \subseteq {"linux", "windows"}
  /\ Threads \in Nat \ {0} /\ MaxKills \in Nat

VARIABLES
  system,    \* where the host runs
  up,        \* whether the host listens
  kills,     \* how often it has been killed
  shape,     \* what each client sends
  stage,     \* client: idle, connecting, writing, reading, done
  outcome,   \* client: what it reports, none until it is done
  wire,      \* the part of the frame written and not yet read: none, part, whole
  peer,      \* host: none, backlog, reading, handling, answering, closed
  verdict,   \* host: the answer being written
  response,  \* the answer on its way to the client, none without one
  executed   \* history: how often a handler has acted on each request, in part or in whole

clientVars == <<shape, stage, outcome>>
hostVars == <<system, up, kills>>
peerVars == <<peer, verdict, response, executed>>
exchangeVars == <<clientVars, hostVars, peerVars, wire>>

ExchangeInit ==
  /\ system \in Systems /\ up = TRUE /\ kills = 0
  /\ shape \in Shapes
  /\ stage = [e \in Senders |-> "idle"] /\ outcome = [e \in Senders |-> "none"]
  /\ wire = [e \in Senders |-> "none"]
  /\ peer = [e \in Senders |-> "none"]
  /\ verdict = [e \in Senders |-> "none"] /\ response = [e \in Senders |-> "none"]
  /\ executed = [e \in Senders |-> 0]

-----------------------------------------------------------------------------
(* The client: execute, execute_on_stream *)

Goto(e, to) == stage' = [stage EXCEPT ![e] = to] /\ UNCHANGED outcome

\* The process reports and ends, and its end of the stream with it.
Report(e, what) == stage' = [stage EXCEPT ![e] = "done"] /\ outcome' = [outcome EXCEPT ![e] = what]

Issue(e) ==
  /\ stage[e] = "idle"
  /\ IF shape[e] = "invalid" THEN Report(e, "invalid") ELSE Goto(e, "connecting")
  /\ UNCHANGED <<shape, hostVars, peerVars, wire>>

\* A pipe that was taken and not yet replaced by the host leaves none to open.
Taken(e) == system = "windows" /\ \E d \in Senders \ {e} : peer[d] = "backlog"

\* The frame is encoded once there is a stream.
Connect(e) ==
  /\ stage[e] = "connecting" /\ up /\ ~Taken(e)
  /\ peer' = [peer EXCEPT ![e] = "backlog"]
  /\ IF shape[e] = "huge" THEN Report(e, "too large") ELSE Goto(e, "writing")
  /\ UNCHANGED <<shape, hostVars, verdict, response, executed, wire>>

Refused(e) ==
  /\ stage[e] = "connecting" /\ (~up \/ Taken(e))
  /\ Report(e, "unavailable")
  /\ UNCHANGED <<shape, hostVars, peerVars, wire>>

WriteSome(e) ==
  /\ stage[e] = "writing" /\ peer[e] # "closed" /\ wire[e] = "none"
  /\ wire' = [wire EXCEPT ![e] = "part"]
  /\ UNCHANGED <<clientVars, hostVars, peerVars>>

WriteRest(e) ==
  /\ stage[e] = "writing" /\ peer[e] # "closed" /\ wire[e] = "part" /\ shape[e] # "silent"
  /\ wire' = [wire EXCEPT ![e] = "whole"]
  /\ Goto(e, "reading")
  /\ UNCHANGED <<shape, hostVars, peerVars>>

\* The host has closed the stream.
WriteFails(e) ==
  /\ stage[e] = "writing" /\ peer[e] = "closed"
  /\ Report(e, "unsent")
  /\ UNCHANGED <<shape, hostVars, peerVars, wire>>

ReadReply(e) ==
  /\ stage[e] = "reading" /\ response[e] # "none"
  /\ Report(e, response[e])
  /\ UNCHANGED <<shape, hostVars, peerVars, wire>>

\* The stream ends without an answer, or is reset because the host left the frame unread.
ReadFails(e) ==
  /\ stage[e] = "reading" /\ peer[e] = "closed"
  /\ response[e] = "none" \/ wire[e] # "none"
  /\ Report(e, "invalid response")
  /\ UNCHANGED <<shape, hostVars, peerVars, wire>>

\* Fault: the read has no timeout.
TimeOutOfTwo(e) ==
  /\ \/ stage[e] = "connecting" /\ Report(e, "connect timeout")
     \/ stage[e] = "writing" /\ shape[e] # "silent" /\ Report(e, "write timeout")
  /\ UNCHANGED <<shape, hostVars, peerVars, wire>>

\* Each stage has a timeout of its own.
TimeOut(e) ==
  /\ \/ stage[e] = "connecting" /\ Report(e, "connect timeout")
     \/ stage[e] = "writing" /\ shape[e] # "silent" /\ Report(e, "write timeout")
     \/ stage[e] = "reading" /\ Report(e, "read timeout")
  /\ UNCHANGED <<shape, hostVars, peerVars, wire>>

-----------------------------------------------------------------------------
(* The host: serve, handle_connection, process_frame, read_frame *)

Busy == {e \in Senders : peer[e] = "handling"}
Free == up /\ Cardinality(Busy) < Threads

Accept(e) ==
  /\ peer[e] = "backlog" /\ Free
  /\ peer' = [peer EXCEPT ![e] = "reading"]
  /\ UNCHANGED <<clientVars, hostVars, verdict, response, executed, wire>>

Answering(e, what) == peer' = [peer EXCEPT ![e] = "answering"] /\ verdict' = [verdict EXCEPT ![e] = what]

\* The whole frame is there: it is decoded and handed to the handler.
TakeFrame(e) ==
  /\ peer[e] = "reading" /\ wire[e] = "whole" /\ Free
  /\ wire' = [wire EXCEPT ![e] = "none"]
  /\ IF shape[e] = "alien" THEN Answering(e, "refused")
     ELSE peer' = [peer EXCEPT ![e] = "handling"] /\ UNCHANGED verdict
  /\ UNCHANGED <<clientVars, hostVars, response, executed>>

\* Fault: what has come of a frame is handled when the stream ends.
TakeEndAnyway(e) ==
  /\ peer[e] = "reading" /\ stage[e] = "done" /\ wire[e] # "whole" /\ Free
  /\ wire' = [wire EXCEPT ![e] = "none"]
  /\ peer' = [peer EXCEPT ![e] = IF wire[e] = "part" THEN "handling" ELSE "closed"]
  /\ UNCHANGED <<clientVars, hostVars, verdict, response, executed>>

\* The stream ends before the newline.  The answer to it finds nobody; Windows gives none to an
\* empty frame.
TakeEnd(e) ==
  /\ peer[e] = "reading" /\ stage[e] = "done" /\ wire[e] # "whole" /\ Free
  /\ wire' = [wire EXCEPT ![e] = "none"]
  /\ IF system = "windows" /\ wire[e] = "none"
       THEN peer' = [peer EXCEPT ![e] = "closed"] /\ UNCHANGED verdict
       ELSE Answering(e, "refused")
  /\ UNCHANGED <<clientVars, hostVars, response, executed>>

\* Linux gives a frame five seconds.
FrameTimesOut(e) ==
  /\ system = "linux" /\ peer[e] = "reading" /\ wire[e] # "whole" /\ Free
  /\ Answering(e, "too slow")
  /\ UNCHANGED <<clientVars, hostVars, response, executed, wire>>

\* The handler does what the request asks for, or answers an error: that may be after a part of it,
\* as for a batch whose second window fails, or with a part of it still to come, as for a call the
\* window's thread did not finish in time, or before anything was done.
Execute(e) ==
  /\ peer[e] = "handling"
  /\ \/ executed' = [executed EXCEPT ![e] = @ + 1] /\ Answering(e, "ok")
     \/ executed' = [executed EXCEPT ![e] = @ + 1] /\ Answering(e, "failed")
     \/ Answering(e, "failed") /\ UNCHANGED executed
  /\ UNCHANGED <<clientVars, hostVars, response, wire>>

\* An answer that no frame holds ends the stream.  A pipe stays open for the next frame.
Respond(e) ==
  LET unsent == shape[e] = "chatty" /\ verdict[e] = "ok" IN
  /\ peer[e] = "answering" /\ Free
  /\ verdict' = [verdict EXCEPT ![e] = "none"]
  /\ response' = [response EXCEPT ![e] = IF unsent \/ stage[e] = "done" THEN @ ELSE verdict[e]]
  /\ peer' = [peer EXCEPT ![e] = IF system = "windows" /\ ~unsent /\ stage[e] # "done" THEN "reading" ELSE "closed"]
  /\ UNCHANGED <<clientVars, hostVars, executed, wire>>

Serves(e) == Accept(e) \/ TakeFrame(e) \/ TakeEnd(e) \/ FrameTimesOut(e) \/ Respond(e)

\* Every stream of the host ends with it.
KillHost ==
  /\ up /\ kills < MaxKills
  /\ up' = FALSE /\ kills' = kills + 1
  /\ peer' = [e \in Senders |-> IF peer[e] = "none" THEN "none" ELSE "closed"]
  /\ verdict' = [e \in Senders |-> "none"]
  /\ UNCHANGED <<system, clientVars, response, executed, wire>>

StartHost ==
  /\ ~up /\ up' = TRUE
  /\ UNCHANGED <<system, kills, clientVars, peerVars, wire>>

Sends(e) ==
  \/ Connect(e) \/ Refused(e) \/ WriteSome(e) \/ WriteRest(e) \/ WriteFails(e)
  \/ ReadReply(e) \/ ReadFails(e) \/ TimeOut(e)

ExchangeNext ==
  \/ KillHost \/ StartHost
  \/ \E e \in Senders : Issue(e) \/ Sends(e) \/ Serves(e) \/ Execute(e)

ExchangeSpec == ExchangeInit /\ [][ExchangeNext]_exchangeVars

\* Clients and the host's threads run on; nothing makes a handler return.
Talks(e) == shape[e] # "silent" /\ Sends(e)
ExchangeFairness ==
  \A e \in Senders :
    /\ WF_exchangeVars(Talks(e))
    /\ WF_exchangeVars(Serves(e))

-----------------------------------------------------------------------------
(* Properties *)

Verdicts == {"none", "ok", "failed", "refused", "too slow"}

Reports ==
  {"none", "invalid", "too large", "unavailable", "unsent", "connect timeout", "write timeout",
   "read timeout", "invalid response", "ok", "failed", "refused", "too slow"}

\* The types of the clients, the streams and the host's connections.
ExchangeTypeOK ==
  /\ stage \in [Senders -> {"idle", "connecting", "writing", "reading", "done"}]
  /\ outcome \in [Senders -> Reports]
  /\ wire \in [Senders -> {"none", "part", "whole"}]
  /\ peer \in [Senders -> {"none", "backlog", "reading", "handling", "answering", "closed"}]
  /\ verdict \in [Senders -> Verdicts]
  /\ response \in [Senders -> Verdicts]
  /\ \A e \in Senders : outcome[e] = "none" <=> stage[e] # "done"

\* What a client's report says of its request, also after the client is gone, whatever becomes of
\* the stream and the host: a result means that it was acted on; the client's own refusal, a failure
\* before it read, and the host's refusal of the frame mean that it was not and never will be.  Only
\* a failed read and an error of the handler leave it open, and no request is acted on twice
\* (execute_on_stream, read_frame, process_frame).
OnlyReadsLeaveDoubt ==
  \A e \in Senders :
    /\ executed[e] <= 1
    /\ outcome[e] = "ok" => executed[e] = 1
    /\ outcome[e] \notin {"none", "ok", "failed", "read timeout", "invalid response"} => executed[e] = 0

\* No client waits forever, although handlers may block every thread of the host.
ClientsReturn == []<>(\A e \in Senders : stage[e] \in {"idle", "done"} \/ shape[e] = "silent")

\* On Linux a peer that stays and sends nothing more is let go, unless handlers block every
\* thread (handle_connection).
SilentPeersEnd == []<>(system = "linux" /\ Free => \A e \in Senders : peer[e] # "reading")
=============================================================================
