--------------------------- MODULE ServicesProofs ---------------------------
(***************************************************************************)
(* Proofs about HostSocket, Exchange, Workspaces, PageLoad and Interaction,*)
(* for every set of hosts, clients, windows, desktops, pages and batches.  *)
(*                                                                         *)
(* HostSocket: the types, and that the path leads to the one host that     *)
(* serves.  That alone is not inductive: SocketInv adds that unless the    *)
(* hosts have strayed at most one is starting, and that one which starts   *)
(* beside a serving host has not got past its look at the path and its     *)
(* probe.                                                                  *)
(*                                                                         *)
(* Exchange: whatever clients send, on both systems and with any number of *)
(* threads and kills, what a client reports leaves no doubt whether its    *)
(* request was acted on, unless it failed to read or the handler answered  *)
(* an error.  ExchangeInv says of each client how far its frame has come,  *)
(* and what that leaves possible on both ends.  The lemmas speak of the    *)
(* values one client's variables have, before and after its step: s is the *)
(* system, st, o, w, p, v, r and x are the client's stage, outcome, wire,  *)
(* peer, verdict, response and executed.                                   *)
(*                                                                         *)
(* Workspaces: what the registry says of a window's place.  WorkspaceInv   *)
(* says when a placement is on its way from a watcher to the registry      *)
(* (Pending), and that otherwise the two agree, unless the record was      *)
(* written with a value the watcher had left (Follows); and, on Windows,   *)
(* which moves the window has reached before they are confirmed (Sure).    *)
(*                                                                         *)
(* PageLoad: how a record follows its page.  Story says which sequences of *)
(* events a view tells of its loads, Shows what a record that took the     *)
(* first of them in order says, and NoneLost that every event is applied,  *)
(* on its way or waiting at the gate, as often as it was reported: the     *)
(* lemmas on Times count events without induction.                         *)
(*                                                                         *)
(* Interaction: what a batch reports, whenever its scripts run.  BatchSound*)
(* says how far a batch is, ScriptSound of a script that has not run which *)
(* step gave it and that nothing of that step was found before it,         *)
(* RunSound the same of one that ran, RunsOrdered that scripts run in the  *)
(* order of their steps, FoundSound that what is ok was found, CutSound    *)
(* what a result is after some rounds of its cut.                          *)
(***************************************************************************)
EXTENDS MCServices, DbWorkerProofs, FiniteSetTheorems, SequenceTheorems, TLAPS

Bound == {"chmod", "claim", "setup", "serving"}

OneStarts == \A g, h \in Hosts : host[g] \in Starting /\ host[h] \in Starting => g = h

OthersOnlyLook ==
  \A g, h \in Hosts :
    host[g] = "serving" /\ host[h] \in Starting => host[h] \in {"look", "probe"}

PathIsHeld ==
  \A h \in Hosts :
    /\ host[h] \in Bound \union {"listen"} => atPath = h
    /\ host[h] \in Bound => h \in listening

SocketInv ==
  /\ SocketTypeOK
  /\ ~strayed => OneStarts /\ OthersOnlyLook /\ PathIsHeld

-----------------------------------------------------------------------------
(* The types *)

LEMMA TypeInit == SocketInit => SocketTypeOK
BY HostSocketAssumption DEF SocketInit, SocketTypeOK, Stages, Starting

LEMMA TypeStep == SocketTypeOK /\ [SocketNext]_socketVars => SocketTypeOK'
<1> SUFFICES ASSUME SocketTypeOK, [SocketNext]_socketVars PROVE SocketTypeOK'
  OBVIOUS
<1> USE DEF SocketTypeOK, Stages, Starting, Move, Silent
<1>1. ASSUME NEW h \in Hosts, Launch(h) PROVE SocketTypeOK'
  BY <1>1 DEF Launch
<1>2. ASSUME NEW h \in Hosts, Starts(h) PROVE SocketTypeOK'
  <2>1. CASE LookAtPath(h) \/ Probe(h)
    BY <2>1 DEF LookAtPath, Probe
  <2>2. CASE RemoveStale(h) \/ BindPath(h) \/ Listen(h)
    BY <2>2 DEF RemoveStale, BindPath, Listen
  <2>3. CASE Prepare(h)
    BY <2>3 DEF Prepare
  <2>4. CASE Claim(h)
    BY <2>4 DEF Claim
  <2>5. CASE SetUp(h)
    BY <2>5 DEF SetUp, DropCleanup
  <2> QED BY <1>2, <2>1, <2>2, <2>3, <2>4, <2>5 DEF Starts
<1>3. ASSUME NEW h \in Hosts, ServeFails(h) \/ Kill(h) PROVE SocketTypeOK'
  BY <1>3 DEF ServeFails, Kill
<1>4. CASE UNCHANGED socketVars
  BY <1>4 DEF socketVars
<1> QED BY <1>1, <1>2, <1>3, <1>4 DEF SocketNext

\* The path, the listeners and the hosts keep their types.
THEOREM SocketTypeCorrect == SocketSpec => []SocketTypeOK
<1>1. QED BY TypeInit, TypeStep, PTL DEF SocketSpec

-----------------------------------------------------------------------------
(* One host holds the path *)

LEMMA InvInit == SocketInit => SocketInv
BY TypeInit DEF SocketInit, SocketInv, OneStarts, OthersOnlyLook, PathIsHeld, Starting, Bound

\* A step of one host leaves the others where they are, and leaves the path to its holder.
LEMMA StepKeepsOrder ==
  ASSUME SocketInv, NEW h \in Hosts, Launch(h) \/ Starts(h) \/ ServeFails(h) \/ Kill(h), ~strayed'
  PROVE  OneStarts' /\ OthersOnlyLook' /\ PathIsHeld'
<1> USE DEF SocketInv, SocketTypeOK, OneStarts, OthersOnlyLook, PathIsHeld, Stages, Starting,
        Bound, Move, Silent
<1>1. CASE Launch(h)
  BY <1>1, ZenonT(60) DEF Launch
<1>2. CASE LookAtPath(h)
  BY <1>2, HostSocketAssumption DEF LookAtPath
<1>3. CASE Probe(h)
  BY <1>3, HostSocketAssumption DEF Probe
<1>4. CASE RemoveStale(h)
  BY <1>4 DEF RemoveStale
<1>5. CASE BindPath(h)
  BY <1>5 DEF BindPath
<1>6. CASE Listen(h)
  BY <1>6 DEF Listen
<1>7. CASE Prepare(h)
  BY <1>7 DEF Prepare
<1>8. CASE Claim(h)
  BY <1>8 DEF Claim
<1>9. CASE SetUp(h)
  BY <1>9 DEF SetUp, DropCleanup
<1>10. CASE ServeFails(h) \/ Kill(h)
  BY <1>10 DEF ServeFails, Kill
<1> QED BY <1>1, <1>2, <1>3, <1>4, <1>5, <1>6, <1>7, <1>8, <1>9, <1>10 DEF Starts

LEMMA InvStep == SocketInv /\ [SocketNext]_socketVars => SocketInv'
<1> SUFFICES ASSUME SocketInv, [SocketNext]_socketVars PROVE SocketInv'
  OBVIOUS
<1>1. SocketTypeOK'
  BY TypeStep DEF SocketInv
<1>2. CASE SocketNext
  BY <1>1, <1>2, StepKeepsOrder DEF SocketNext, SocketInv
<1>3. CASE UNCHANGED socketVars
  BY <1>1, <1>3 DEF socketVars, SocketInv, OneStarts, OthersOnlyLook, PathIsHeld, SocketTypeOK
<1> QED BY <1>2, <1>3

LEMMA InvServes == SocketInv => ServedPath
<1> SUFFICES ASSUME SocketInv PROVE ServedPath
  OBVIOUS
<1>1. ASSUME ~strayed PROVE Cardinality({h \in Hosts : host[h] \in Holding}) <= 1
  <2> DEFINE H == {h \in Hosts : host[h] \in Holding}
  <2>1. \A g, h \in H : g = h
    BY <1>1 DEF SocketInv, PathIsHeld, Holding, Bound
  <2>2. CASE H = {}
    <3>1. Cardinality({}) = 0
      BY FS_EmptySet
    <3> QED BY <2>2, <3>1
  <2>3. CASE H # {}
    <3>1. PICK h \in H : TRUE
      BY <2>3
    <3>2. H = {h}
      BY <2>1, <3>1
    <3>3. Cardinality({h}) = 1
      BY FS_Singleton
    <3> QED BY <3>2, <3>3
  <2> QED BY <2>2, <2>3
<1> QED BY <1>1 DEF SocketInv, PathIsHeld, Bound, ServedPath, OneHolder

\* However hosts are started, fail and are killed, unless two start at once one host holds the
\* path, listens on it and is led to by it (recover_stale_socket, bind_listener).
THEOREM PathIsServed == SocketSpec => []ServedPath
<1>1. QED BY InvInit, InvStep, InvServes, PTL DEF SocketSpec

-----------------------------------------------------------------------------
\* What a client reports that never sent the whole frame, and one whose reading failed.
Unsent == {"invalid", "unavailable", "connect timeout", "too large", "write timeout", "unsent"}
Doubtful == {"none", "read timeout", "invalid response"}

\* The client has written all it will.
Written(st) == st \in {"reading", "done"}

\* A pipe that stays open after its answer, with nothing more to come.
Lingers(s, st, w, p) == s = "windows" /\ p = "reading" /\ w = "none" /\ Written(st)

\* The host may still execute the request.
Live(w, p) == (p \in {"backlog", "reading"} /\ w = "whole") \/ p = "handling"

Typed(st, o, w, p, v, r, x) ==
  /\ st \in {"idle", "connecting", "writing", "reading", "done"}
  /\ o \in Reports
  /\ w \in {"none", "part", "whole"}
  /\ p \in {"none", "backlog", "reading", "handling", "answering", "closed"}
  /\ v \in {"none", "ok", "failed", "refused", "too slow"}
  /\ r \in {"none", "ok", "failed", "refused", "too slow"}
  /\ x \in {0, 1}
  /\ o = "none" <=> st # "done"

ClientSound(st, o, w, p, r, x) ==
  /\ st \in {"idle", "connecting"} => p = "none" /\ w = "none"
  /\ st = "writing" => w # "whole"
  /\ o \in Unsent => w # "whole" /\ x = 0
  /\ o \in {"refused", "too slow"} => r \in {"refused", "too slow"}

HostSound(s, st, o, w, p, r, x) ==
  /\ Live(w, p) => x = 0 /\ r = "none" /\ o \in Doubtful /\ Written(st)
  /\ p = "handling" => w = "none"
  /\ s = "windows" /\ p = "answering" =>
       w # "whole" /\ Written(st) /\ (st # "done" => w = "none")
  /\ r # "none" => p = "closed" \/ Lingers(s, st, w, p)

ExecutedSound(s, st, o, w, p, v, r, x) ==
  /\ x = 1 =>
       /\ Written(st) /\ w = "none" /\ r \in {"none", "ok", "failed"}
       /\ o \in Doubtful \union {"ok", "failed"}
       /\ p = "closed" \/ Lingers(s, st, w, p) \/ (p = "answering" /\ v \in {"ok", "failed"})
  /\ o = "ok" \/ r = "ok" \/ v = "ok" => x = 1

Sound(s, st, o, w, p, v, r, x) ==
  /\ Typed(st, o, w, p, v, r, x) /\ ClientSound(st, o, w, p, r, x)
  /\ HostSound(s, st, o, w, p, r, x) /\ ExecutedSound(s, st, o, w, p, v, r, x)

SoundNow(e) == Sound(system, stage[e], outcome[e], wire[e], peer[e], verdict[e], response[e], executed[e])

ExchangeInv ==
  /\ ExchangeTypeOK
  /\ executed \in [Senders -> {0, 1}]
  /\ \A e \in Senders : SoundNow(e)

\* A step that gives the variables of one client these values.
Becomes(d, st, o, w, p, v, r, x) ==
  /\ system' = system
  /\ stage' = [stage EXCEPT ![d] = st] /\ outcome' = [outcome EXCEPT ![d] = o]
  /\ wire' = [wire EXCEPT ![d] = w] /\ peer' = [peer EXCEPT ![d] = p]
  /\ verdict' = [verdict EXCEPT ![d] = v] /\ response' = [response EXCEPT ![d] = r]
  /\ executed' = [executed EXCEPT ![d] = x]

-----------------------------------------------------------------------------
(* The invariant *)

LEMMA ExchangeInitInv == ExchangeInit => ExchangeInv
BY DEF ExchangeInit, Verdicts, ExchangeInv, ExchangeTypeOK, Reports, SoundNow, Sound, Typed, ClientSound,
       HostSound, ExecutedSound, Live, Written, Lingers, Unsent, Doubtful

LEMMA InvSound == ASSUME ExchangeInv, NEW d \in Senders
  PROVE Sound(system, stage[d], outcome[d], wire[d], peer[d], verdict[d], response[d], executed[d])
BY DEF ExchangeInv, SoundNow

\* Soundness depends on the system and on the values, whenever they are read.
LEMMA SoundLater ==
  ASSUME NEW s, NEW st, NEW o, NEW w, NEW p, NEW v, NEW r, NEW x, system' = s,
         Sound(s, st, o, w, p, v, r, x), NEW e,
         stage'[e] = st, outcome'[e] = o, wire'[e] = w, peer'[e] = p, verdict'[e] = v,
         response'[e] = r, executed'[e] = x
  PROVE  SoundNow(e)'
BY DEF SoundNow

\* Such a step keeps the invariant if the new values are sound: the other clients see nothing of it.
LEMMA BecomesKeeps ==
  ASSUME ExchangeInv, NEW d \in Senders,
         NEW st, NEW o, NEW w, NEW p, NEW v, NEW r, NEW x,
         Becomes(d, st, o, w, p, v, r, x), Sound(system, st, o, w, p, v, r, x)
  PROVE  ExchangeInv'
<1>1. Typed(st, o, w, p, v, r, x)
  BY DEF Sound
<1>2. ExchangeTypeOK' /\ executed' \in [Senders -> {0, 1}]
  BY <1>1 DEF ExchangeInv, ExchangeTypeOK, Verdicts, Becomes, Typed
<1>3. SoundNow(d)'
  <2>1. /\ system' = system
        /\ stage'[d] = st /\ outcome'[d] = o /\ wire'[d] = w /\ peer'[d] = p /\ verdict'[d] = v
        /\ response'[d] = r /\ executed'[d] = x
    BY ZenonT(60) DEF ExchangeInv, ExchangeTypeOK, Becomes
  <2> QED BY <2>1, SoundLater
<1>4. ASSUME NEW e \in Senders, e # d PROVE SoundNow(e)'
  <2>1. /\ system' = system
        /\ stage'[e] = stage[e] /\ outcome'[e] = outcome[e] /\ wire'[e] = wire[e]
        /\ peer'[e] = peer[e] /\ verdict'[e] = verdict[e] /\ response'[e] = response[e]
        /\ executed'[e] = executed[e]
    BY <1>4, ZenonT(60) DEF ExchangeInv, ExchangeTypeOK, Becomes
  <2> QED BY <2>1, InvSound, SoundLater
<1> QED BY <1>2, <1>3, <1>4 DEF ExchangeInv

(* Each step of a client or of its connection is one of these. *)

LEMMA IssueKeeps == ASSUME ExchangeInv, NEW d \in Senders, Issue(d) PROVE ExchangeInv'
<1>1. Sound(system, stage[d], outcome[d], wire[d], peer[d], verdict[d], response[d], executed[d])
  BY InvSound
<1>2. CASE Report(d, "invalid")
  <2>1. Becomes(d, "done", "invalid", wire[d], peer[d], verdict[d], response[d], executed[d])
    BY <1>2 DEF Issue, Goto, Report, Becomes, ExchangeInv, ExchangeTypeOK, clientVars, hostVars,
                peerVars
  <2>2. Sound(system, "done", "invalid", wire[d], peer[d], verdict[d], response[d], executed[d])
    BY <1>1, <1>2 DEF Issue, Sound, Typed, Reports, ClientSound, HostSound, ExecutedSound, Live,
                Written, Lingers, Unsent, Doubtful
  <2> QED BY <2>1, <2>2, BecomesKeeps
<1>3. CASE Goto(d, "connecting")
  <2>1. Becomes(d, "connecting", outcome[d], wire[d], peer[d], verdict[d], response[d], executed[d])
    BY <1>3 DEF Issue, Goto, Report, Becomes, ExchangeInv, ExchangeTypeOK, clientVars, hostVars,
                peerVars
  <2>2. Sound(system, "connecting", outcome[d], wire[d], peer[d],
                      verdict[d], response[d], executed[d])
    BY <1>1, <1>3 DEF Issue, Sound, Typed, Reports, ClientSound, HostSound, ExecutedSound, Live,
                Written, Lingers, Unsent, Doubtful
  <2> QED BY <2>1, <2>2, BecomesKeeps
<1> QED BY <1>2, <1>3 DEF Issue

LEMMA ConnectKeeps == ASSUME ExchangeInv, NEW d \in Senders, Connect(d) PROVE ExchangeInv'
<1>1. Sound(system, stage[d], outcome[d], wire[d], peer[d], verdict[d], response[d], executed[d])
  BY InvSound
<1>2. CASE Report(d, "too large")
  <2>1. Becomes(d, "done", "too large", wire[d], "backlog", verdict[d], response[d], executed[d])
    BY <1>2 DEF Connect, Goto, Report, Becomes, ExchangeInv, ExchangeTypeOK, clientVars, hostVars,
                peerVars
  <2>2. Sound(system, "done", "too large", wire[d], "backlog", verdict[d], response[d], executed[d])
    BY <1>1, <1>2 DEF Connect, Sound, Typed, Reports, ClientSound, HostSound, ExecutedSound, Live,
                Written, Lingers, Unsent, Doubtful
  <2> QED BY <2>1, <2>2, BecomesKeeps
<1>3. CASE Goto(d, "writing")
  <2>1. Becomes(d, "writing", outcome[d], wire[d], "backlog", verdict[d], response[d], executed[d])
    BY <1>3 DEF Connect, Goto, Report, Becomes, ExchangeInv, ExchangeTypeOK, clientVars, hostVars,
                peerVars
  <2>2. Sound(system, "writing", outcome[d], wire[d], "backlog",
                      verdict[d], response[d], executed[d])
    BY <1>1, <1>3 DEF Connect, Sound, Typed, Reports, ClientSound, HostSound, ExecutedSound, Live,
                Written, Lingers, Unsent, Doubtful
  <2> QED BY <2>1, <2>2, BecomesKeeps
<1> QED BY <1>2, <1>3 DEF Connect

LEMMA RefusedKeeps == ASSUME ExchangeInv, NEW d \in Senders, Refused(d) PROVE ExchangeInv'
<1>1. Sound(system, stage[d], outcome[d], wire[d], peer[d], verdict[d], response[d], executed[d])
  BY InvSound
<1>2. Becomes(d, "done", "unavailable", wire[d], peer[d], verdict[d], response[d], executed[d])
  BY DEF Refused, Report, Becomes, ExchangeInv, ExchangeTypeOK, clientVars, hostVars, peerVars
<1>3. Sound(system, "done", "unavailable", wire[d], peer[d], verdict[d], response[d], executed[d])
  BY <1>1 DEF Refused, Sound, Typed, Reports, ClientSound, HostSound, ExecutedSound, Live,
              Written, Lingers, Unsent, Doubtful
<1> QED BY <1>2, <1>3, BecomesKeeps

LEMMA WriteSomeKeeps == ASSUME ExchangeInv, NEW d \in Senders, WriteSome(d) PROVE ExchangeInv'
<1>1. Sound(system, stage[d], outcome[d], wire[d], peer[d], verdict[d], response[d], executed[d])
  BY InvSound
<1>2. Becomes(d, stage[d], outcome[d], "part", peer[d], verdict[d], response[d], executed[d])
  BY DEF WriteSome, Becomes, ExchangeInv, ExchangeTypeOK, clientVars, hostVars, peerVars
<1>3. Sound(system, stage[d], outcome[d], "part", peer[d], verdict[d], response[d], executed[d])
  BY <1>1 DEF WriteSome, Sound, Typed, Reports, ClientSound, HostSound, ExecutedSound, Live,
              Written, Lingers, Unsent, Doubtful
<1> QED BY <1>2, <1>3, BecomesKeeps

LEMMA WriteRestKeeps == ASSUME ExchangeInv, NEW d \in Senders, WriteRest(d) PROVE ExchangeInv'
<1>1. Sound(system, stage[d], outcome[d], wire[d], peer[d], verdict[d], response[d], executed[d])
  BY InvSound
<1>2. Becomes(d, "reading", outcome[d], "whole", peer[d], verdict[d], response[d], executed[d])
  BY DEF WriteRest, Goto, Becomes, ExchangeInv, ExchangeTypeOK, clientVars, hostVars, peerVars
<1>3. Sound(system, "reading", outcome[d], "whole", peer[d], verdict[d], response[d], executed[d])
  BY <1>1 DEF WriteRest, Sound, Typed, Reports, ClientSound, HostSound, ExecutedSound, Live,
              Written, Lingers, Unsent, Doubtful
<1> QED BY <1>2, <1>3, BecomesKeeps

LEMMA WriteFailsKeeps == ASSUME ExchangeInv, NEW d \in Senders, WriteFails(d) PROVE ExchangeInv'
<1>1. Sound(system, stage[d], outcome[d], wire[d], peer[d], verdict[d], response[d], executed[d])
  BY InvSound
<1>2. Becomes(d, "done", "unsent", wire[d], peer[d], verdict[d], response[d], executed[d])
  BY DEF WriteFails, Report, Becomes, ExchangeInv, ExchangeTypeOK, clientVars, hostVars, peerVars
<1>3. Sound(system, "done", "unsent", wire[d], peer[d], verdict[d], response[d], executed[d])
  BY <1>1 DEF WriteFails, Sound, Typed, Reports, ClientSound, HostSound, ExecutedSound, Live,
              Written, Lingers, Unsent, Doubtful
<1> QED BY <1>2, <1>3, BecomesKeeps

LEMMA ReadReplyKeeps == ASSUME ExchangeInv, NEW d \in Senders, ReadReply(d) PROVE ExchangeInv'
<1>1. Sound(system, stage[d], outcome[d], wire[d], peer[d], verdict[d], response[d], executed[d])
  BY InvSound
<1>2. Becomes(d, "done", response[d], wire[d], peer[d], verdict[d], response[d], executed[d])
  BY DEF ReadReply, Report, Becomes, ExchangeInv, ExchangeTypeOK, clientVars, hostVars, peerVars
<1>3. Sound(system, "done", response[d], wire[d], peer[d], verdict[d], response[d], executed[d])
  BY <1>1 DEF ReadReply, Sound, Typed, Reports, ClientSound, HostSound, ExecutedSound, Live,
              Written, Lingers, Unsent, Doubtful
<1> QED BY <1>2, <1>3, BecomesKeeps

LEMMA ReadFailsKeeps == ASSUME ExchangeInv, NEW d \in Senders, ReadFails(d) PROVE ExchangeInv'
<1>1. Sound(system, stage[d], outcome[d], wire[d], peer[d], verdict[d], response[d], executed[d])
  BY InvSound
<1>2. Becomes(d, "done", "invalid response", wire[d], peer[d], verdict[d], response[d], executed[d])
  BY DEF ReadFails, Report, Becomes, ExchangeInv, ExchangeTypeOK, clientVars, hostVars, peerVars
<1>3. Sound(system, "done", "invalid response", wire[d], peer[d],
                    verdict[d], response[d], executed[d])
  BY <1>1 DEF ReadFails, Sound, Typed, Reports, ClientSound, HostSound, ExecutedSound, Live,
              Written, Lingers, Unsent, Doubtful
<1> QED BY <1>2, <1>3, BecomesKeeps

LEMMA TimeOutKeeps == ASSUME ExchangeInv, NEW d \in Senders, TimeOut(d) PROVE ExchangeInv'
<1>1. Sound(system, stage[d], outcome[d], wire[d], peer[d], verdict[d], response[d], executed[d])
  BY InvSound
<1>2. CASE stage[d] = "connecting" /\ Report(d, "connect timeout")
  <2>1. Becomes(d, "done", "connect timeout", wire[d], peer[d], verdict[d], response[d], executed[d])
    BY <1>2 DEF TimeOut, Report, Becomes, ExchangeInv, ExchangeTypeOK, clientVars, hostVars,
                peerVars
  <2>2. Sound(system, "done", "connect timeout", wire[d], peer[d],
                      verdict[d], response[d], executed[d])
    BY <1>1, <1>2 DEF TimeOut, Sound, Typed, Reports, ClientSound, HostSound, ExecutedSound, Live,
                Written, Lingers, Unsent, Doubtful
  <2> QED BY <2>1, <2>2, BecomesKeeps
<1>3. CASE stage[d] = "writing" /\ Report(d, "write timeout")
  <2>1. Becomes(d, "done", "write timeout", wire[d], peer[d], verdict[d], response[d], executed[d])
    BY <1>3 DEF TimeOut, Report, Becomes, ExchangeInv, ExchangeTypeOK, clientVars, hostVars,
                peerVars
  <2>2. Sound(system, "done", "write timeout", wire[d], peer[d],
                      verdict[d], response[d], executed[d])
    BY <1>1, <1>3 DEF TimeOut, Sound, Typed, Reports, ClientSound, HostSound, ExecutedSound, Live,
                Written, Lingers, Unsent, Doubtful
  <2> QED BY <2>1, <2>2, BecomesKeeps
<1>4. CASE stage[d] = "reading" /\ Report(d, "read timeout")
  <2>1. Becomes(d, "done", "read timeout", wire[d], peer[d], verdict[d], response[d], executed[d])
    BY <1>4 DEF TimeOut, Report, Becomes, ExchangeInv, ExchangeTypeOK, clientVars, hostVars,
                peerVars
  <2>2. Sound(system, "done", "read timeout", wire[d], peer[d], verdict[d], response[d], executed[d])
    BY <1>1, <1>4 DEF TimeOut, Sound, Typed, Reports, ClientSound, HostSound, ExecutedSound, Live,
                Written, Lingers, Unsent, Doubtful
  <2> QED BY <2>1, <2>2, BecomesKeeps
<1> QED BY <1>2, <1>3, <1>4 DEF TimeOut

LEMMA AcceptKeeps == ASSUME ExchangeInv, NEW d \in Senders, Accept(d) PROVE ExchangeInv'
<1>1. Sound(system, stage[d], outcome[d], wire[d], peer[d], verdict[d], response[d], executed[d])
  BY InvSound
<1>2. Becomes(d, stage[d], outcome[d], wire[d], "reading", verdict[d], response[d], executed[d])
  BY DEF Accept, Becomes, ExchangeInv, ExchangeTypeOK, clientVars, hostVars, peerVars
<1>3. Sound(system, stage[d], outcome[d], wire[d], "reading", verdict[d], response[d], executed[d])
  BY <1>1 DEF Accept, Sound, Typed, Reports, ClientSound, HostSound, ExecutedSound, Live,
              Written, Lingers, Unsent, Doubtful
<1> QED BY <1>2, <1>3, BecomesKeeps

LEMMA TakeFrameKeeps == ASSUME ExchangeInv, NEW d \in Senders, TakeFrame(d) PROVE ExchangeInv'
<1>1. Sound(system, stage[d], outcome[d], wire[d], peer[d], verdict[d], response[d], executed[d])
  BY InvSound
<1>2. CASE Answering(d, "refused")
  <2>1. Becomes(d, stage[d], outcome[d], "none", "answering", "refused", response[d], executed[d])
    BY <1>2 DEF TakeFrame, Answering, Becomes, ExchangeInv, ExchangeTypeOK, clientVars, hostVars,
                peerVars
  <2>2. Sound(system, stage[d], outcome[d], "none", "answering", "refused", response[d], executed[d])
    BY <1>1, <1>2 DEF TakeFrame, Sound, Typed, Reports, ClientSound, HostSound, ExecutedSound, Live,
                Written, Lingers, Unsent, Doubtful
  <2> QED BY <2>1, <2>2, BecomesKeeps
<1>3. CASE peer' = [peer EXCEPT ![d] = "handling"] /\ UNCHANGED verdict
  <2>1. Becomes(d, stage[d], outcome[d], "none", "handling", verdict[d], response[d], executed[d])
    BY <1>3 DEF TakeFrame, Answering, Becomes, ExchangeInv, ExchangeTypeOK, clientVars, hostVars,
                peerVars
  <2>2. Sound(system, stage[d], outcome[d], "none", "handling", verdict[d], response[d], executed[d])
    BY <1>1, <1>3 DEF TakeFrame, Sound, Typed, Reports, ClientSound, HostSound, ExecutedSound, Live,
                Written, Lingers, Unsent, Doubtful
  <2> QED BY <2>1, <2>2, BecomesKeeps
<1> QED BY <1>2, <1>3 DEF TakeFrame

LEMMA TakeEndKeeps == ASSUME ExchangeInv, NEW d \in Senders, TakeEnd(d) PROVE ExchangeInv'
<1>1. Sound(system, stage[d], outcome[d], wire[d], peer[d], verdict[d], response[d], executed[d])
  BY InvSound
<1>2. CASE /\ system = "windows" /\ wire[d] = "none"
           /\ peer' = [peer EXCEPT ![d] = "closed"] /\ UNCHANGED verdict
  <2>1. Becomes(d, stage[d], outcome[d], "none", "closed", verdict[d], response[d], executed[d])
    BY <1>2 DEF TakeEnd, Answering, Becomes, ExchangeInv, ExchangeTypeOK, clientVars, hostVars,
                peerVars
  <2>2. Sound(system, stage[d], outcome[d], "none", "closed", verdict[d], response[d], executed[d])
    BY <1>1, <1>2 DEF TakeEnd, Sound, Typed, Reports, ClientSound, HostSound, ExecutedSound, Live,
                Written, Lingers, Unsent, Doubtful
  <2> QED BY <2>1, <2>2, BecomesKeeps
<1>3. CASE ~(system = "windows" /\ wire[d] = "none") /\ Answering(d, "refused")
  <2>1. Becomes(d, stage[d], outcome[d], "none", "answering", "refused", response[d], executed[d])
    BY <1>3 DEF TakeEnd, Answering, Becomes, ExchangeInv, ExchangeTypeOK, clientVars, hostVars,
                peerVars
  <2>2. Sound(system, stage[d], outcome[d], "none", "answering", "refused", response[d], executed[d])
    BY <1>1, <1>3 DEF TakeEnd, Sound, Typed, Reports, ClientSound, HostSound, ExecutedSound, Live,
                Written, Lingers, Unsent, Doubtful
  <2> QED BY <2>1, <2>2, BecomesKeeps
<1> QED BY <1>2, <1>3 DEF TakeEnd

LEMMA FrameTimesOutKeeps == ASSUME ExchangeInv, NEW d \in Senders, FrameTimesOut(d) PROVE ExchangeInv'
<1>1. Sound(system, stage[d], outcome[d], wire[d], peer[d], verdict[d], response[d], executed[d])
  BY InvSound
<1>2. Becomes(d, stage[d], outcome[d], wire[d], "answering", "too slow", response[d], executed[d])
  BY DEF FrameTimesOut, Answering, Becomes, ExchangeInv, ExchangeTypeOK, clientVars, hostVars, peerVars
<1>3. Sound(system, stage[d], outcome[d], wire[d], "answering", "too slow", response[d], executed[d])
  BY <1>1 DEF FrameTimesOut, Sound, Typed, Reports, ClientSound, HostSound, ExecutedSound, Live,
              Written, Lingers, Unsent, Doubtful
<1> QED BY <1>2, <1>3, BecomesKeeps

LEMMA ExecuteKeeps == ASSUME ExchangeInv, NEW d \in Senders, Execute(d) PROVE ExchangeInv'
<1>1. Sound(system, stage[d], outcome[d], wire[d], peer[d], verdict[d], response[d], executed[d])
  BY InvSound
<1>2. executed[d] = 0
  BY <1>1 DEF Execute, Sound, HostSound, Live
<1>3. ASSUME NEW what \in {"ok", "failed"},
             executed' = [executed EXCEPT ![d] = @ + 1] /\ Answering(d, what)
      PROVE  ExchangeInv'
  <2>1. executed' = [executed EXCEPT ![d] = 1]
    BY <1>2, <1>3
  <2>2. Answering(d, what)
    BY <1>3
  <2>3. Becomes(d, stage[d], outcome[d], wire[d], "answering", what, response[d], 1)
    BY <2>1, <2>2 DEF Execute, Answering, Becomes, ExchangeInv, ExchangeTypeOK, clientVars, hostVars,
                peerVars
  <2>4. Sound(system, stage[d], outcome[d], wire[d], "answering", what, response[d], 1)
    BY <1>1, <1>2, <1>3 DEF Execute, Sound, Typed, Reports, ClientSound, HostSound, ExecutedSound,
                          Live, Written, Lingers, Unsent, Doubtful
  <2> QED BY <2>3, <2>4, BecomesKeeps
<1>4. CASE Answering(d, "failed") /\ UNCHANGED executed
  <2>1. Becomes(d, stage[d], outcome[d], wire[d], "answering", "failed", response[d], executed[d])
    BY <1>4, ZenonT(60) DEF Execute, Answering, Becomes, ExchangeInv, ExchangeTypeOK, clientVars,
                          hostVars, peerVars
  <2>2. Sound(system, stage[d], outcome[d], wire[d], "answering",
                      "failed", response[d], executed[d])
    BY <1>1, <1>4 DEF Execute, Sound, Typed, Reports, ClientSound, HostSound, ExecutedSound, Live,
                Written, Lingers, Unsent, Doubtful
  <2> QED BY <2>1, <2>2, BecomesKeeps
<1> QED BY <1>3, <1>4 DEF Execute

LEMMA AnswerKeeps == ASSUME ExchangeInv, NEW d \in Senders, Respond(d) PROVE ExchangeInv'
<1> DEFINE unsent == shape[d] = "chatty" /\ verdict[d] = "ok"
           r == IF unsent \/ stage[d] = "done" THEN response[d] ELSE verdict[d]
           p == IF system = "windows" /\ ~unsent /\ stage[d] # "done" THEN "reading" ELSE "closed"
<1>1. Sound(system, stage[d], outcome[d], wire[d], peer[d], verdict[d], response[d], executed[d])
  BY InvSound
<1>2. Becomes(d, stage[d], outcome[d], wire[d], p, "none", r, executed[d])
  BY DEF Respond, Becomes, ExchangeInv, ExchangeTypeOK, clientVars, hostVars
<1>3. Sound(system, stage[d], outcome[d], wire[d], p, "none", r, executed[d])
  BY <1>1 DEF Respond, Sound, Typed, Reports, ClientSound, HostSound, ExecutedSound, Live,
              Written, Lingers, Unsent, Doubtful
<1> HIDE DEF r, p
<1> QED BY <1>2, <1>3, BecomesKeeps

\* The end of the host closes every stream, and takes every answer not yet sent with it.
LEMMA KillKeeps == ASSUME ExchangeInv, KillHost PROVE ExchangeInv'
<1>1. ExchangeTypeOK' /\ executed' \in [Senders -> {0, 1}]
  BY DEF ExchangeInv, ExchangeTypeOK, Verdicts, KillHost, clientVars
<1>2. ASSUME NEW e \in Senders PROVE SoundNow(e)'
  <2> DEFINE p == IF peer[e] = "none" THEN "none" ELSE "closed"
  <2>1. Sound(system, stage[e], outcome[e], wire[e], peer[e], verdict[e], response[e], executed[e])
    BY InvSound
  <2>2. Sound(system, stage[e], outcome[e], wire[e], p, "none", response[e], executed[e])
    BY <2>1 DEF Sound, Typed, Reports, ClientSound, HostSound, ExecutedSound, Live, Written,
                Lingers, Unsent, Doubtful
  <2>3. /\ system' = system
        /\ stage'[e] = stage[e] /\ outcome'[e] = outcome[e] /\ wire'[e] = wire[e] /\ peer'[e] = p
        /\ verdict'[e] = "none" /\ response'[e] = response[e] /\ executed'[e] = executed[e]
    BY DEF KillHost, clientVars
  <2> HIDE DEF p
  <2> QED BY <2>2, <2>3, SoundLater
<1> QED BY <1>1, <1>2 DEF ExchangeInv

LEMMA ExchangeStep == ExchangeInv /\ [ExchangeNext]_exchangeVars => ExchangeInv'
<1> SUFFICES ASSUME ExchangeInv, [ExchangeNext]_exchangeVars PROVE ExchangeInv'
  OBVIOUS
<1>1. CASE KillHost
  BY <1>1, KillKeeps
<1>2. CASE StartHost
  BY <1>2 DEF StartHost, clientVars, peerVars, ExchangeInv, ExchangeTypeOK, SoundNow
<1>3. CASE UNCHANGED exchangeVars
  BY <1>3 DEF exchangeVars, clientVars, hostVars, peerVars, ExchangeInv, ExchangeTypeOK, SoundNow
<1>4. ASSUME NEW d \in Senders, Issue(d) \/ Sends(d) \/ Serves(d) \/ Execute(d) PROVE ExchangeInv'
  BY <1>4, IssueKeeps, ConnectKeeps, RefusedKeeps, WriteSomeKeeps,
     WriteRestKeeps, WriteFailsKeeps, ReadReplyKeeps, ReadFailsKeeps, TimeOutKeeps,
     AcceptKeeps, TakeFrameKeeps, TakeEndKeeps, FrameTimesOutKeeps, ExecuteKeeps, AnswerKeeps
     DEF Sends, Serves
<1> QED BY <1>1, <1>2, <1>3, <1>4 DEF ExchangeNext

LEMMA NoDoubt == ExchangeInv => OnlyReadsLeaveDoubt
<1> SUFFICES ASSUME ExchangeInv, NEW e \in Senders
             PROVE  /\ executed[e] <= 1
                    /\ outcome[e] = "ok" => executed[e] = 1
                    /\ outcome[e] \notin {"none", "ok", "failed", "read timeout", "invalid response"}
                         => executed[e] = 0
  BY DEF OnlyReadsLeaveDoubt
<1>1. executed[e] \in {0, 1}
  BY DEF ExchangeInv
<1>2. executed[e] <= 1
  BY <1>1
<1>3. ExecutedSound(system, stage[e], outcome[e], wire[e], peer[e], verdict[e], response[e], executed[e])
  BY InvSound DEF Sound
<1>4. outcome[e] = "ok" => executed[e] = 1
  BY <1>3 DEF ExecutedSound
<1>5. executed[e] = 1 => outcome[e] \in {"none", "ok", "failed", "read timeout", "invalid response"}
  BY <1>3 DEF ExecutedSound, Doubtful
<1> QED BY <1>1, <1>2, <1>4, <1>5

-----------------------------------------------------------------------------
(* Theorems *)

\* The clients, the streams and the host's connections keep their types.
THEOREM ExchangeTypeCorrect == ExchangeSpec => []ExchangeTypeOK
<1>1. ExchangeInv => ExchangeTypeOK
  BY DEF ExchangeInv
<1> QED BY <1>1, ExchangeInitInv, ExchangeStep, PTL DEF ExchangeSpec

\* Whenever a client ends without a failed read and without a handler's error, its report tells
\* whether the request was acted on, then and for ever, and no request is acted on twice
\* (execute_on_stream, process_frame).
THEOREM ReportsAreSure == ExchangeSpec => []OnlyReadsLeaveDoubt
<1>1. QED BY ExchangeInitInv, ExchangeStep, NoDoubt, PTL DEF ExchangeSpec

-----------------------------------------------------------------------------
(* Workspaces *)

Places == Catalog \union {All}
Placed ==
  {p \in [at : Places \union {Nowhere}, trail : Seq(Catalog), truncated : BOOLEAN] : Len(p.trail) <= MaxTrail}
CallType ==
  {NoCall}
    \union [kind : {"watch", "refresh"}, w : Panes, to : {Nowhere}, at : {"asking"}, read : {Nowhere}]
    \union [kind : {"move"}, w : Panes, to : Catalog, at : {"asking", "confirming"}, read : {Nowhere}]
    \union [kind : {"watch", "refresh"}, w : Panes, to : {Nowhere}, at : {"read"}, read : Places]
    \union [kind : {"watch"}, w : Panes, to : {Nowhere}, at : {"cached"}, read : Places]
    \union [kind : {"move"}, w : Panes, to : Catalog, at : {"read", "cached", "told"}, read : Catalog]
PollerType ==
  [todo : SUBSET Panes, w : {Nowhere}, read : {Nowhere}, at : {"idle"}]
    \union [todo : SUBSET Panes, w : Panes, read : Places, at : {"read", "swapped"}]

WorkspaceTypes ==
  /\ platform \in Platforms
  /\ onDesktop \in [Panes -> Desktops \union {All}]
  /\ asked \subseteq [w : Panes, to : Desktops]
  /\ open \subseteq Panes /\ passed \subseteq Panes
  /\ watcher \in [Panes -> Places \union {Nowhere}]
  /\ placed \in [Panes -> Placed]
  /\ poller \in PollerType
  /\ calls \in [Callers -> CallType]
  /\ reached \in [Callers -> BOOLEAN]

\* A placement cached for w and not yet recorded.
Pending(w) ==
  (poller.at = "swapped" /\ poller.w = w) \/ \E c \in Callers : calls[c].w = w /\ calls[c].at = "cached"
Follows(w) ==
  w \in open \ passed /\ watcher[w] # Nowhere /\ ~Pending(w) => placed[w].at = watcher[w]

\* A move that is confirmed, or will be if its window is seen now, has been reached.
Sure(c) ==
  calls[c].kind = "move" =>
    /\ calls[c].at = "confirming" /\ Index(onDesktop[calls[c].w]) = calls[c].to => reached[c]
    /\ calls[c].at \in {"read", "cached", "told"} => reached[c]

NoRepeats(trail) == \A i \in 1..Len(trail) - 1 : trail[i] # trail[i + 1]
TrueTrail(p) ==
  /\ p.at \in Nat => p.trail # <<>> /\ Last(p.trail) = p.at
  /\ NoRepeats(p.trail)
  /\ p.truncated => Len(p.trail) = MaxTrail

WorkspaceInv ==
  /\ WorkspaceTypes
  /\ \A w \in Panes : TrueTrail(placed[w]) /\ Follows(w)
  /\ platform = "windows" => \A c \in Callers : Sure(c)

LEMMA IndexIsPlace ==
  /\ Catalog \subseteq Nat /\ All \notin Nat /\ Nowhere \notin Places /\ Nowhere \notin Panes
  /\ \A d \in Desktops \union {All} : Index(d) \in Places
  /\ \A d \in Desktops : Index(d) \in Catalog
  /\ \A i \in Catalog : Native(i) \in Desktops
<1>1. /\ Desktops \subseteq Nat /\ All \notin Nat /\ Nowhere \notin Nat /\ Nowhere # All /\ Nowhere \notin Panes
      /\ Base \in {0, 1}
  BY WorkspacesAssumption DEF Base
<1>2. \A d \in Desktops : Index(d) = d + Base /\ Index(d) \in Nat /\ Native(Index(d)) = d
  BY <1>1 DEF Index, Native
<1> QED BY <1>1, <1>2 DEF Catalog, Places, Index

\* The indices are those of the platform, which stays.
LEMMA PlacesStay ==
  ASSUME UNCHANGED platform
  PROVE  /\ Catalog' = Catalog /\ Places' = Places /\ Placed' = Placed
         /\ CallType' = CallType /\ PollerType' = PollerType /\ \A d : Index(d)' = Index(d)
<1>1. \A d : Index(d)' = Index(d)
  BY DEF Index, Base
<1>2. Catalog' = Catalog
  BY <1>1 DEF Catalog
<1>3. Places' = Places
  BY <1>2 DEF Places
<1> QED BY <1>1, <1>2, <1>3 DEF Placed, CallType, PollerType, NoCall

\* One more entry in a trail: the oldest goes when it is full.
Grown(trail, index) == Append(IF Len(trail) >= MaxTrail THEN Tail(trail) ELSE trail, index)

LEMMA TrailGrows ==
  ASSUME NEW trail \in Seq(Catalog), NEW index \in Catalog, Len(trail) <= MaxTrail, NoRepeats(trail),
         trail = <<>> \/ Last(trail) # index
  PROVE  LET more == Grown(trail, index) IN
         /\ more \in Seq(Catalog) /\ more # <<>> /\ Last(more) = index /\ NoRepeats(more)
         /\ Len(more) = IF Len(trail) >= MaxTrail THEN MaxTrail ELSE Len(trail) + 1
<1>. DEFINE S == Catalog
<1>0. PICK max \in Nat \ {0} : max = MaxTrail
  BY WorkspacesAssumption
<1>9. PICK more : more = Grown(trail, index)
  OBVIOUS
<1>1. PICK base : base = IF Len(trail) >= max THEN Tail(trail) ELSE trail
  OBVIOUS
<1>2. Len(trail) \in Nat /\ Len(trail) <= max /\ more = Append(base, index)
  BY <1>0, <1>1, <1>9 DEF Grown
<1>3. /\ base \in Seq(S) /\ NoRepeats(base) /\ (base # <<>> => base[Len(base)] = trail[Len(trail)] /\ trail # <<>>)
      /\ Len(base) = IF Len(trail) >= max THEN max - 1 ELSE Len(trail)
  <2>1. CASE Len(trail) >= max
    <3>1. trail # <<>> /\ base = Tail(trail) /\ Len(trail) = max
      BY <1>1, <1>2, <2>1
    <3>2. /\ Tail(trail) \in Seq(S) /\ Len(Tail(trail)) = Len(trail) - 1
          /\ \A i \in 1..Len(Tail(trail)) : Tail(trail)[i] = trail[i + 1]
      BY <3>1, HeadTailProperties
    <3>3. base \in Seq(S) /\ Len(base) = max - 1 /\ \A i \in 1..max - 1 : base[i] = trail[i + 1]
      BY <3>1, <3>2
    <3>4. NoRepeats(base)
      <4>1. ASSUME NEW i \in 1..Len(base) - 1 PROVE base[i] # base[i + 1]
        <5>1. i + 1 \in 1..Len(trail) - 1 /\ i \in 1..max - 1 /\ i + 1 \in 1..max - 1
          BY <3>1, <3>3
        <5>2. base[i] = trail[i + 1] /\ base[i + 1] = trail[(i + 1) + 1]
          BY <3>3, <5>1
        <5> QED BY <5>1, <5>2 DEF NoRepeats
      <4> QED BY <4>1 DEF NoRepeats
    <3>5. base # <<>> => base[Len(base)] = trail[Len(trail)]
      <4>1. ASSUME base # <<>> PROVE Len(base) \in 1..max - 1
        BY <3>3, <4>1, EmptySeq
      <4>2. ASSUME base # <<>> PROVE base[Len(base)] = trail[Len(base) + 1]
        BY <3>3, <4>1, <4>2
      <4>3. Len(base) + 1 = Len(trail)
        BY <3>1, <3>3
      <4> QED BY <4>2, <4>3
    <3> QED BY <2>1, <3>1, <3>3, <3>4, <3>5
  <2>2. CASE ~(Len(trail) >= max)
    BY <1>1, <2>2
  <2> QED BY <2>1, <2>2
<1>4. /\ more = Append(base, index) /\ more \in Seq(S) /\ Len(more) = Len(base) + 1
      /\ more[Len(base) + 1] = index /\ \A i \in 1..Len(base) : more[i] = base[i]
  BY <1>2, <1>3
<1>5. PICK n \in Nat : n = Len(base)
  BY <1>3
<1>6. NoRepeats(more)
  <2>1. ASSUME NEW i \in 1..Len(more) - 1 PROVE more[i] # more[i + 1]
    <3>1. i \in 1..n /\ more[i] = base[i]
      BY <1>4, <1>5
    <3>2. CASE i = n
      <4>1. base # <<>>
        BY <3>1, <3>2, <1>5
      <4>2. more[i] = trail[Len(trail)] /\ more[i + 1] = index /\ trail # <<>>
        BY <1>3, <1>4, <1>5, <3>1, <3>2, <4>1
      <4> QED BY <4>2 DEF Last
    <3>3. CASE i # n
      <4>1. i \in 1..Len(base) - 1 /\ i + 1 \in 1..Len(base)
        BY <1>5, <3>1, <3>3
      <4> QED BY <1>3, <1>4, <3>1, <4>1 DEF NoRepeats
    <3> QED BY <3>2, <3>3
  <2> QED BY <2>1 DEF NoRepeats
<1>7. more # <<>> /\ Last(more) = index
  BY <1>4, <1>5 DEF Last
<1>8. Len(more) = IF Len(trail) >= max THEN max ELSE Len(trail) + 1
  BY <1>2, <1>3, <1>4
<1> QED BY <1>0, <1>4, <1>6, <1>7, <1>8, <1>9

\* A record written for a window keeps its trail true, and says the place.
LEMMA RecordKeeps ==
  ASSUME WorkspacesAssumption, NEW p \in Placed, TrueTrail(p), NEW place \in Places, NEW q,
         q = [(IF place = All THEN p ELSE Trail(p, place)) EXCEPT !.at = place]
  PROVE  q \in Placed /\ TrueTrail(q) /\ q.at = place
<1>1. PICK trail, more : trail = p.trail /\ more = Grown(trail, place)
  OBVIOUS
<1>2. /\ p \in [at : Places \union {Nowhere}, trail : Seq(Catalog), truncated : BOOLEAN]
      /\ trail \in Seq(Catalog) /\ Len(trail) \in Nat /\ Len(trail) <= MaxTrail /\ MaxTrail \in Nat \ {0}
      /\ NoRepeats(trail) /\ (p.truncated => Len(trail) = MaxTrail)
  BY <1>1 DEF Placed, TrueTrail, WorkspacesAssumption
<1>3. Catalog \subseteq Nat /\ All \notin Nat
  BY IndexIsPlace
<1>4. CASE place = All
  <2>1. q = [p EXCEPT !.at = place]
    BY <1>4
  <2>2. q \in [at : Places \union {Nowhere}, trail : Seq(Catalog), truncated : BOOLEAN]
        /\ q.at = place /\ q.trail = trail /\ q.truncated = p.truncated
    BY <1>1, <1>2, <2>1
  <2> QED BY <1>2, <1>3, <1>4, <2>2 DEF Placed, TrueTrail
<1>5. CASE place # All /\ trail # <<>> /\ Last(trail) = place
  <2>1. q = [p EXCEPT !.at = place]
    BY <1>1, <1>5 DEF Trail
  <2>2. q \in [at : Places \union {Nowhere}, trail : Seq(Catalog), truncated : BOOLEAN]
        /\ q.at = place /\ q.trail = trail /\ q.truncated = p.truncated
    BY <1>1, <1>2, <2>1
  <2> QED BY <1>2, <1>3, <1>5, <2>2 DEF Placed, TrueTrail
<1>6. CASE place # All /\ ~(trail # <<>> /\ Last(trail) = place)
  <2>1. place \in Catalog
    BY <1>6 DEF Places
  <2>2. /\ more \in Seq(Catalog) /\ more # <<>> /\ Last(more) = place /\ NoRepeats(more)
        /\ Len(more) = IF Len(trail) >= MaxTrail THEN MaxTrail ELSE Len(trail) + 1
    <3>1. /\ trail \in Seq(Catalog) /\ place \in Catalog /\ MaxTrail \in Nat \ {0} /\ Len(trail) <= MaxTrail
          /\ NoRepeats(trail) /\ (trail = <<>> \/ Last(trail) # place)
      BY <1>2, <1>6, <2>1
    <3>2. more = Grown(trail, place)
      BY <1>1
    <3> QED BY <3>1, <3>2, TrailGrows
  <2>3. q = [[p EXCEPT !.trail = more, !.truncated = @ \/ Len(trail) >= MaxTrail] EXCEPT !.at = place]
    BY <1>1, <1>6 DEF Trail, Grown
  <2>4. q \in [at : Places \union {Nowhere}, trail : Seq(Catalog), truncated : BOOLEAN]
        /\ q.at = place /\ q.trail = more /\ q.truncated = (p.truncated \/ Len(trail) >= MaxTrail)
    BY <1>2, <2>2, <2>3
  <2> QED BY <1>2, <2>2, <2>4 DEF Placed, TrueTrail
<1> QED BY <1>4, <1>5, <1>6

\* A step that writes no record keeps what the records say, if it delivers nothing.
LEMMA RecordsStay ==
  ASSUME WorkspaceInv, UNCHANGED recordVars, open' \subseteq open,
         \A w \in open' : ~Pending(w)' => ~Pending(w) /\ watcher'[w] \in {watcher[w], Nowhere}
  PROVE  (\A w \in Panes : TrueTrail(placed[w]) /\ Follows(w))'
<1>1. ASSUME NEW w \in Panes PROVE TrueTrail(placed[w])'
  BY DEF WorkspaceInv, recordVars, TrueTrail, NoRepeats, Last
<1>2. ASSUME NEW w \in Panes PROVE Follows(w)'
  <2>1. Follows(w)
    BY DEF WorkspaceInv
  <2> QED BY <2>1 DEF Follows, recordVars
<1> QED BY <1>1, <1>2

\* A step that writes one record.
LEMMA RecordedStep ==
  ASSUME WorkspaceInv, NEW w \in Panes, NEW place \in Places, Recorded(w, place), UNCHANGED <<open, watcher>>,
         \A v \in Panes \ {w} : Pending(v) => Pending(v)'
  PROVE  /\ placed' \in [Panes -> Placed] /\ passed' \subseteq Panes
         /\ (\A v \in Panes : TrueTrail(placed[v]) /\ Follows(v))'
<1>1. /\ placed \in [Panes -> Placed] /\ passed \subseteq Panes
      /\ \A v \in Panes : TrueTrail(placed[v]) /\ Follows(v)
  BY DEF WorkspaceInv, WorkspaceTypes
<1>2. CASE w \notin open
  <2>1. placed' = placed /\ passed' = passed
    BY <1>2 DEF Recorded, recordVars
  <2>2. ASSUME NEW v \in Panes PROVE TrueTrail(placed[v])' /\ Follows(v)'
    <3>1. TrueTrail(placed[v])'
      BY <1>1, <2>1 DEF TrueTrail, NoRepeats, Last
    <3>2. Follows(v)'
      <4>1. CASE v = w
        BY <1>2, <4>1 DEF Follows
      <4>2. CASE v # w
        BY <1>1, <2>1, <4>2 DEF Follows
      <4> QED BY <4>1, <4>2
    <3> QED BY <3>1, <3>2
  <2> QED BY <1>1, <2>1, <2>2
<1>3. CASE w \in open
  <2>1. PICK q : q = [(IF place = All THEN placed[w] ELSE Trail(placed[w], place)) EXCEPT !.at = place]
    OBVIOUS
  <2>2. /\ placed' = [placed EXCEPT ![w] = q]
        /\ passed' = IF watcher[w] = place THEN passed \ {w} ELSE passed \union {w}
    BY <1>3, <2>1 DEF Recorded, RecordWorkspace
  <2>3. q \in Placed /\ TrueTrail(q) /\ q.at = place
    <3>1. placed[w] \in Placed /\ TrueTrail(placed[w])
      BY <1>1
    <3> QED BY <2>1, <3>1, RecordKeeps, WorkspacesAssumption
  <2>4. placed' \in [Panes -> Placed] /\ placed'[w] = q /\ \A v \in Panes \ {w} : placed'[v] = placed[v]
    BY <1>1, <2>2, <2>3
  <2>5. ASSUME NEW v \in Panes PROVE TrueTrail(placed[v])'
    <3>1. TrueTrail(placed'[v])
      BY <1>1, <2>3, <2>4
    <3> QED BY <3>1 DEF TrueTrail, NoRepeats, Last
  <2>6. ASSUME NEW v \in Panes PROVE Follows(v)'
    <3>1. CASE v = w
      BY <2>2, <2>3, <2>4, <3>1 DEF Follows
    <3>2. CASE v # w
      BY <1>1, <2>2, <2>4, <3>2 DEF Follows
    <3> QED BY <3>1, <3>2
  <2> QED BY <1>1, <2>2, <2>4, <2>5, <2>6
<1> QED BY <1>2, <1>3

\* Nothing is delivered and nothing recorded.
LEMMA RecordsIdle ==
  ASSUME WorkspaceInv, UNCHANGED <<open, watcher, recordVars>>, \A w \in Panes : Pending(w) => Pending(w)'
  PROVE  (\A w \in Panes : TrueTrail(placed[w]) /\ Follows(w))'
<1>1. open \subseteq Panes
  BY DEF WorkspaceInv, WorkspaceTypes
<1> QED BY <1>1, RecordsStay

LEMMA PutStep ==
  ASSUME WorkspaceInv, NEW w \in Panes, NEW d \in Desktops \union {All}, Put(w, d), asked' \subseteq asked,
         UNCHANGED <<platform, open, watcher, recordVars, poller, calls, called>>
  PROVE  WorkspaceInv'
<1>1. onDesktop' = [onDesktop EXCEPT ![w] = d]
      /\ reached' = [c \in Callers |-> reached[c] \/ (calls[c].kind = "move" /\ Index(onDesktop'[calls[c].w]) = calls[c].to)]
  BY DEF Put, Reaching
<1>2. WorkspaceTypes'
  BY <1>1, PlacesStay DEF WorkspaceInv, WorkspaceTypes, recordVars
<1>3. (\A v \in Panes : TrueTrail(placed[v]) /\ Follows(v))'
  BY RecordsIdle DEF Pending
<1>4. ASSUME platform' = "windows", NEW c \in Callers PROVE Sure(c)'
  <2>1. Sure(c)
    BY <1>4 DEF WorkspaceInv
  <2>2. reached'[c] = (reached[c] \/ (calls[c].kind = "move" /\ Index(onDesktop'[calls[c].w]) = calls[c].to))
    BY <1>1
  <2>3. Index(onDesktop'[calls[c].w]) = Index(onDesktop[calls[c].w])'
    BY DEF Index, Base
  <2> QED BY <2>1, <2>2, <2>3 DEF Sure
<1> QED BY <1>2, <1>3, <1>4 DEF WorkspaceInv

LEMMA UserMovesStep == ASSUME WorkspaceInv, NEW w \in Panes, UserMoves(w) PROVE WorkspaceInv'
<1>1. PICK d \in Desktops \union {All} : Put(w, d)
  BY DEF UserMoves
<1> QED BY <1>1, PutStep DEF UserMoves

LEMMA ServeStep == ASSUME WorkspaceInv, Serve PROVE WorkspaceInv'
<1>1. PICK move \in asked : Put(move.w, move.to) /\ asked' = asked \ {move}
  BY DEF Serve
<1>2. move.w \in Panes /\ move.to \in Desktops
  BY <1>1 DEF WorkspaceInv, WorkspaceTypes
<1> QED BY <1>1, <1>2, PutStep DEF Serve

LEMMA PaneCloseStep == ASSUME WorkspaceInv, NEW w \in Panes, Close(w) PROVE WorkspaceInv'
<1>1. /\ open' = open \ {w} /\ watcher' = [watcher EXCEPT ![w] = Nowhere]
      /\ UNCHANGED <<nativeVars, recordVars, poller, calls, called, reached>>
  BY DEF Close
<1>2. WorkspaceTypes'
  BY <1>1, PlacesStay DEF WorkspaceInv, WorkspaceTypes, nativeVars, recordVars
<1>3. \A v \in open' : watcher'[v] = watcher[v]
  BY <1>1 DEF WorkspaceInv, WorkspaceTypes
<1>4. (\A v \in Panes : TrueTrail(placed[v]) /\ Follows(v))'
  BY <1>1, <1>3, RecordsStay DEF Pending
<1>5. ASSUME platform' = "windows", NEW c \in Callers PROVE Sure(c)'
  BY <1>1, <1>5 DEF WorkspaceInv, Sure, nativeVars, Index, Base
<1> QED BY <1>2, <1>4, <1>5 DEF WorkspaceInv

\* One caller goes on to its next call; windows stay where they are.
LEMMA CallGoes ==
  ASSUME WorkspaceInv, NEW c \in Callers, NEW call \in CallType, Goes(c, call),
         UNCHANGED <<platform, onDesktop, open, poller>>, asked' \subseteq [w : Panes, to : Desktops],
         watcher' \in [Panes -> Places \union {Nowhere}], reached' \in [Callers -> BOOLEAN],
         placed' \in [Panes -> Placed], passed' \subseteq Panes,
         \A d \in Callers \ {c} : reached'[d] = reached[d],
         platform = "windows" => Sure(c)',
         (\A v \in Panes : TrueTrail(placed[v]) /\ Follows(v))'
  PROVE  WorkspaceInv'
<1>1. calls \in [Callers -> CallType] /\ calls' = [calls EXCEPT ![c] = call]
  BY DEF WorkspaceInv, WorkspaceTypes, Goes
<1>2. calls' \in [Callers -> CallType] /\ \A d \in Callers \ {c} : calls'[d] = calls[d]
  BY <1>1
<1>3. WorkspaceTypes'
  BY <1>2, PlacesStay DEF WorkspaceInv, WorkspaceTypes
<1>4. ASSUME platform' = "windows", NEW d \in Callers PROVE Sure(d)'
  <2>1. CASE d = c
    BY <1>4, <2>1
  <2>2. CASE d # c
    <3>1. Sure(d) /\ calls'[d] = calls[d] /\ reached'[d] = reached[d]
      BY <1>2, <1>4, <2>2 DEF WorkspaceInv
    <3> QED BY <3>1 DEF Sure, Index, Base
  <2> QED BY <2>1, <2>2
<1> QED BY <1>3, <1>4 DEF WorkspaceInv

\* A request that neither caches nor records, nor has a placement cached.
LEMMA QuietCall ==
  ASSUME WorkspaceInv, NEW c \in Callers, NEW call \in CallType, Goes(c, call), calls[c].at # "cached",
         UNCHANGED <<platform, onDesktop, moved, open, watcher, recordVars, poller>>,
         asked' \subseteq [w : Panes, to : Desktops], reached' \in [Callers -> BOOLEAN],
         \A d \in Callers \ {c} : reached'[d] = reached[d],
         platform = "windows" => Sure(c)'
  PROVE  WorkspaceInv'
<1>1. calls \in [Callers -> CallType] /\ calls' = [calls EXCEPT ![c] = call]
  BY DEF WorkspaceInv, WorkspaceTypes, Goes
<1>2. ASSUME NEW w \in Panes, Pending(w) PROVE Pending(w)'
  <2>1. \A d \in Callers : calls[d].at = "cached" => calls'[d] = calls[d]
    BY <1>1
  <2> QED BY <1>2, <2>1 DEF Pending
<1>3. (\A v \in Panes : TrueTrail(placed[v]) /\ Follows(v))'
  BY <1>2, RecordsIdle
<1>4. /\ watcher' \in [Panes -> Places \union {Nowhere}] /\ placed' \in [Panes -> Placed] /\ passed' \subseteq Panes
  BY DEF WorkspaceInv, WorkspaceTypes, recordVars
<1> QED BY <1>3, <1>4, CallGoes

\* What a request that is under way holds.
LEMMA CallFields ==
  ASSUME WorkspaceInv, NEW c \in Callers
  PROVE  /\ calls[c] \in CallType
         /\ calls[c].at # "idle" => calls[c].w \in Panes
         /\ calls[c].at \in {"read", "cached", "told"} => calls[c].read \in Places
         /\ calls[c].kind = "move" => calls[c].to \in Catalog
         /\ calls[c].kind \in {"watch", "refresh"} => calls[c].to = Nowhere
         /\ calls[c].at \in {"asking", "confirming"} => calls[c].read = Nowhere
         /\ calls[c].at = "confirming" => calls[c].kind = "move"
         /\ calls[c].at \in {"asking", "read", "cached"} => calls[c].kind \in {"watch", "refresh", "move"}
         /\ calls[c].kind = "move" /\ calls[c].at \in {"read", "cached", "told"} => calls[c].read \in Catalog
<1>1. calls[c] \in CallType
  BY DEF WorkspaceInv, WorkspaceTypes
<1> QED BY <1>1 DEF CallType, NoCall, Places

LEMMA BeginStep == ASSUME WorkspaceInv, NEW c \in Callers, Begin(c) PROVE WorkspaceInv'
<1>1. /\ calls[c] = NoCall /\ reached' = [reached EXCEPT ![c] = FALSE]
      /\ UNCHANGED <<nativeVars, open, watcher, recordVars, poller>>
  BY DEF Begin
<1>2. open \subseteq Panes /\ calls \in [Callers -> CallType] /\ asked \subseteq [w : Panes, to : Desktops]
      /\ reached \in [Callers -> BOOLEAN]
  BY DEF WorkspaceInv, WorkspaceTypes
<1>3. PICK call \in CallType : Goes(c, call) /\ call.at = "asking"
  <2>1. CASE \E w \in open : Goes(c, [NoCall EXCEPT !.kind = "watch", !.w = w, !.at = "asking"])
    <3>1. PICK w \in open : Goes(c, [NoCall EXCEPT !.kind = "watch", !.w = w, !.at = "asking"])
      BY <2>1
    <3>2. PICK call : call = [NoCall EXCEPT !.kind = "watch", !.w = w, !.at = "asking"]
      OBVIOUS
    <3>3. call \in [kind : {"watch", "refresh"}, w : Panes, to : {Nowhere}, at : {"asking"}, read : {Nowhere}]
          /\ call.at = "asking"
      BY <1>2, <3>2 DEF NoCall
    <3> QED BY <3>1, <3>2, <3>3 DEF CallType
  <2>2. CASE \E w \in open : Goes(c, [NoCall EXCEPT !.kind = "refresh", !.w = w, !.at = "asking"])
    <3>1. PICK w \in open : Goes(c, [NoCall EXCEPT !.kind = "refresh", !.w = w, !.at = "asking"])
      BY <2>2
    <3>2. PICK call : call = [NoCall EXCEPT !.kind = "refresh", !.w = w, !.at = "asking"]
      OBVIOUS
    <3>3. call \in [kind : {"watch", "refresh"}, w : Panes, to : {Nowhere}, at : {"asking"}, read : {Nowhere}]
          /\ call.at = "asking"
      BY <1>2, <3>2 DEF NoCall
    <3> QED BY <3>1, <3>2, <3>3 DEF CallType
  <2>3. CASE \E w \in open, to \in Catalog : Goes(c, [NoCall EXCEPT !.kind = "move", !.w = w, !.at = "asking", !.to = to])
    <3>1. PICK w \in open, to \in Catalog : Goes(c, [NoCall EXCEPT !.kind = "move", !.w = w, !.at = "asking", !.to = to])
      BY <2>3
    <3>2. PICK call : call = [NoCall EXCEPT !.kind = "move", !.w = w, !.at = "asking", !.to = to]
      OBVIOUS
    <3>3. call \in [kind : {"move"}, w : Panes, to : Catalog, at : {"asking", "confirming"}, read : {Nowhere}]
          /\ call.at = "asking"
      BY <1>2, <3>2 DEF NoCall
    <3> QED BY <3>1, <3>2, <3>3 DEF CallType
  <2> QED BY <2>1, <2>2, <2>3 DEF Begin
<1>4. Sure(c)'
  <2>1. calls'[c] = call
    BY <1>2, <1>3 DEF Goes
  <2> QED BY <1>3, <2>1 DEF Sure
<1>5. calls[c].at # "cached"
  BY <1>1 DEF NoCall
<1> QED BY <1>1, <1>2, <1>3, <1>4, <1>5, QuietCall DEF nativeVars

LEMMA ReadStep == ASSUME WorkspaceInv, NEW c \in Callers, Read(c) PROVE WorkspaceInv'
<1>1. PICK call : call = calls[c]
  OBVIOUS
<1>2. PICK place : place = Index(onDesktop[calls[c].w])
  OBVIOUS
<1>3. PICK next : next = [calls[c] EXCEPT !.at = "read", !.read = place]
  OBVIOUS
<1>4. /\ Goes(c, next) /\ call.at = "asking" /\ call.kind \in {"watch", "refresh"}
      /\ UNCHANGED <<nativeVars, open, watcher, recordVars, poller, called, reached>>
  BY <1>1, <1>2, <1>3 DEF Read, Serving
<1>5. call \in CallType /\ call.w \in Panes /\ call.to = Nowhere
  BY <1>1, <1>4, CallFields
<1>6. place \in Places
  <2>1. onDesktop[call.w] \in Desktops \union {All}
    BY <1>5 DEF WorkspaceInv, WorkspaceTypes
  <2> QED BY <1>1, <1>2, <2>1, IndexIsPlace
<1>7. next \in CallType /\ next.kind # "move"
  <2>1. call \in [kind : {"watch", "refresh"}, w : Panes, to : {Nowhere}, at : {"asking"}, read : {Nowhere}]
    BY <1>4, <1>5 DEF CallType, NoCall
  <2>2. /\ next \in [kind : {"watch", "refresh"}, w : Panes, to : {Nowhere}, at : {"read"}, read : Places]
        /\ next.kind = call.kind
    BY <1>1, <1>3, <1>6, <2>1
  <2> QED BY <1>4, <2>2 DEF CallType
<1>8. Sure(c)'
  <2>1. calls'[c] = next
    BY <1>4 DEF Goes, WorkspaceInv, WorkspaceTypes
  <2> QED BY <1>7, <2>1 DEF Sure
<1>9. asked \subseteq [w : Panes, to : Desktops] /\ reached \in [Callers -> BOOLEAN]
  BY DEF WorkspaceInv, WorkspaceTypes
<1> QED BY <1>1, <1>4, <1>7, <1>8, <1>9, QuietCall DEF nativeVars

LEMMA AskMoveStep == ASSUME WorkspaceInv, NEW c \in Callers, AskMove(c) PROVE WorkspaceInv'
<1>1. PICK call : call = calls[c]
  OBVIOUS
<1>2. PICK next : next = IF platform = "x11" THEN [call EXCEPT !.at = "read", !.read = call.to]
                         ELSE [call EXCEPT !.at = "confirming"]
  OBVIOUS
<1>3. /\ Goes(c, next) /\ call.kind = "move" /\ call.at = "asking"
      /\ asked' = asked \union {[w |-> call.w, to |-> Native(call.to)]}
      /\ reached' = [reached EXCEPT ![c] = Index(onDesktop[call.w]) = call.to]
      /\ UNCHANGED <<platform, onDesktop, moved, open, watcher, recordVars, poller, called>>
  BY <1>1, <1>2 DEF AskMove, Serving
<1>4. call \in CallType /\ call.w \in Panes /\ call.to \in Catalog
  BY <1>1, <1>3, CallFields
<1>5. call \in [kind : {"move"}, w : Panes, to : Catalog, at : {"asking"}, read : {Nowhere}]
  BY <1>3, <1>4 DEF CallType, NoCall
<1>6. /\ next \in CallType /\ next.w = call.w /\ next.to = call.to
      /\ (platform = "windows" => next.at = "confirming")
  BY <1>2, <1>5 DEF CallType
<1>7. asked' \subseteq [w : Panes, to : Desktops]
  <2>1. asked \subseteq [w : Panes, to : Desktops]
    BY DEF WorkspaceInv, WorkspaceTypes
  <2>2. Native(call.to) \in Desktops
    BY <1>4, IndexIsPlace
  <2> QED BY <1>3, <1>4, <2>1, <2>2
<1>8. /\ reached' \in [Callers -> BOOLEAN] /\ \A d \in Callers \ {c} : reached'[d] = reached[d]
      /\ reached'[c] = (Index(onDesktop[call.w]) = call.to)
  BY <1>3 DEF WorkspaceInv, WorkspaceTypes
<1>9. ASSUME platform = "windows" PROVE Sure(c)'
  <2>1. calls'[c] = next
    BY <1>3 DEF Goes, WorkspaceInv, WorkspaceTypes
  <2>2. Index(onDesktop'[next.w]) = Index(onDesktop[next.w])'
    BY <1>3 DEF Index, Base
  <2>3. Index(onDesktop[calls[c].w])' = Index(onDesktop[call.w])
    BY <1>3, <1>6, <2>1 DEF Index, Base
  <2> QED BY <1>6, <1>8, <1>9, <2>1, <2>3 DEF Sure
<1> QED BY <1>1, <1>3, <1>6, <1>7, <1>8, <1>9, QuietCall

LEMMA ConfirmStep == ASSUME WorkspaceInv, NEW c \in Callers, Confirm(c) PROVE WorkspaceInv'
<1>1. PICK call : call = calls[c]
  OBVIOUS
<1>2. PICK next : next = [call EXCEPT !.at = "read", !.read = call.to]
  OBVIOUS
<1>3. /\ Goes(c, next) /\ call.kind = "move" /\ call.at = "confirming" /\ Index(onDesktop[call.w]) = call.to
      /\ UNCHANGED <<nativeVars, open, watcher, recordVars, poller, called, reached>>
  BY <1>1, <1>2 DEF Confirm, Serving
<1>4. call \in CallType
  BY <1>1, CallFields
<1>5. call \in [kind : {"move"}, w : Panes, to : Catalog, at : {"confirming"}, read : {Nowhere}]
  BY <1>3, <1>4 DEF CallType, NoCall
<1>6. next \in CallType /\ next.at = "read"
  BY <1>2, <1>5 DEF CallType
<1>7. asked \subseteq [w : Panes, to : Desktops] /\ reached \in [Callers -> BOOLEAN]
  BY DEF WorkspaceInv, WorkspaceTypes
<1>8. ASSUME platform = "windows" PROVE Sure(c)'
  <2>1. calls'[c] = next /\ reached'[c] = reached[c]
    BY <1>3 DEF Goes, WorkspaceInv, WorkspaceTypes
  <2>2. reached[c]
    BY <1>1, <1>3, <1>8 DEF WorkspaceInv, Sure
  <2> QED BY <1>6, <2>1, <2>2 DEF Sure
<1> QED BY <1>1, <1>3, <1>6, <1>7, <1>8, QuietCall DEF nativeVars

LEMMA FailsStep == ASSUME WorkspaceInv, NEW c \in Callers, Fails(c) PROVE WorkspaceInv'
<1>1. /\ Goes(c, NoCall) /\ calls[c].at # "cached"
      /\ UNCHANGED <<nativeVars, open, watcher, recordVars, poller, called, reached>>
  BY DEF Fails, Ends, Serving
<1>2. NoCall \in CallType /\ NoCall.kind # "move"
  BY DEF CallType, NoCall
<1>3. asked \subseteq [w : Panes, to : Desktops] /\ reached \in [Callers -> BOOLEAN]
  BY DEF WorkspaceInv, WorkspaceTypes
<1>4. Sure(c)'
  <2>1. calls'[c] = NoCall
    BY <1>1 DEF Goes, WorkspaceInv, WorkspaceTypes
  <2> QED BY <1>2, <2>1 DEF Sure, NoCall
<1> QED BY <1>1, <1>2, <1>3, <1>4, QuietCall DEF nativeVars

LEMMA CacheStep == ASSUME WorkspaceInv, NEW c \in Callers, Cache(c) PROVE WorkspaceInv'
<1>1. PICK call : call = calls[c]
  OBVIOUS
<1>2. PICK next : next = [call EXCEPT !.at = "cached"]
  OBVIOUS
<1>3. /\ Goes(c, next) /\ call.at = "read" /\ call.kind \in {"watch", "move"}
      /\ watcher' = [watcher EXCEPT ![call.w] = IF call.w \in open THEN call.read ELSE @]
      /\ UNCHANGED <<nativeVars, open, recordVars, poller, called, reached>>
  BY <1>1, <1>2 DEF Cache, Serving
<1>4. call \in CallType /\ call.w \in Panes /\ call.read \in Places
  BY <1>1, <1>3, CallFields
<1>5. /\ watcher \in [Panes -> Places \union {Nowhere}] /\ calls \in [Callers -> CallType]
      /\ reached \in [Callers -> BOOLEAN] /\ asked \subseteq [w : Panes, to : Desktops]
      /\ placed \in [Panes -> Placed] /\ passed \subseteq Panes
  BY DEF WorkspaceInv, WorkspaceTypes
<1>6. /\ next \in CallType /\ next.at = "cached" /\ next.w = call.w /\ next.kind = call.kind
  <2>1. CASE call.kind = "watch"
    <3>1. call \in [kind : {"watch", "refresh"}, w : Panes, to : {Nowhere}, at : {"read"}, read : Places]
      BY <1>3, <1>4, <2>1 DEF CallType, NoCall
    <3>2. /\ next \in [kind : {"watch"}, w : Panes, to : {Nowhere}, at : {"cached"}, read : Places]
          /\ next.w = call.w /\ next.kind = call.kind
      BY <1>2, <2>1, <3>1
    <3> QED BY <3>2 DEF CallType
  <2>2. CASE call.kind = "move"
    <3>1. call \in [kind : {"move"}, w : Panes, to : Catalog, at : {"read", "cached", "told"}, read : Catalog]
      BY <1>3, <1>4, <2>2 DEF CallType, NoCall
    <3>2. /\ next \in [kind : {"move"}, w : Panes, to : Catalog, at : {"read", "cached", "told"}, read : Catalog]
          /\ next.at = "cached" /\ next.w = call.w /\ next.kind = call.kind
      BY <1>2, <3>1
    <3> QED BY <3>2 DEF CallType
  <2> QED BY <1>3, <2>1, <2>2
<1>7. calls' = [calls EXCEPT ![c] = next] /\ calls'[c] = next /\ \A d \in Callers \ {c} : calls'[d] = calls[d]
  BY <1>3, <1>5 DEF Goes
<1>8. watcher' \in [Panes -> Places \union {Nowhere}] /\ \A v \in Panes \ {call.w} : watcher'[v] = watcher[v]
  BY <1>3, <1>4, <1>5
<1>9. Pending(call.w)'
  BY <1>6, <1>7 DEF Pending
<1>10. \A v \in Panes : Pending(v) => Pending(v)'
  <2>1. ASSUME NEW v \in Panes, Pending(v) PROVE Pending(v)'
    <3>1. \A d \in Callers : calls[d].at = "cached" => calls'[d] = calls[d]
      BY <1>1, <1>3, <1>7
    <3> QED BY <1>3, <2>1, <3>1 DEF Pending
  <2> QED BY <2>1
<1>11. (\A v \in Panes : TrueTrail(placed[v]) /\ Follows(v))'
  <2>1. open' = open /\ open \subseteq Panes
    BY <1>3 DEF WorkspaceInv, WorkspaceTypes
  <2>2. \A v \in open' : ~Pending(v)' => ~Pending(v) /\ watcher'[v] \in {watcher[v], Nowhere}
    BY <1>8, <1>9, <1>10, <2>1
  <2> QED BY <1>3, <2>1, <2>2, RecordsStay
<1>12. ASSUME platform = "windows" PROVE Sure(c)'
  <2>1. call.kind = "move" => reached[c]
    BY <1>1, <1>3, <1>12 DEF WorkspaceInv, Sure
  <2> QED BY <1>3, <1>6, <1>7, <2>1 DEF Sure
<1> QED BY <1>3, <1>5, <1>6, <1>8, <1>11, <1>12, CallGoes DEF nativeVars, recordVars

\* A request that records what it has read and goes on to a call that has nothing cached.
LEMMA RecordingCall ==
  ASSUME WorkspaceInv, NEW c \in Callers, NEW w, NEW place, w = calls[c].w, place = calls[c].read,
         calls[c].at \in {"read", "cached", "told"}, Recorded(w, place),
         NEW call \in CallType, Goes(c, call), platform = "windows" => Sure(c)',
         UNCHANGED <<nativeVars, open, watcher, poller, called, reached>>
  PROVE  WorkspaceInv'
<1>1. w \in Panes /\ place \in Places
  BY CallFields
<1>2. /\ watcher \in [Panes -> Places \union {Nowhere}] /\ calls \in [Callers -> CallType]
      /\ reached \in [Callers -> BOOLEAN] /\ asked \subseteq [w : Panes, to : Desktops]
  BY DEF WorkspaceInv, WorkspaceTypes
<1>3. \A d \in Callers \ {c} : calls'[d] = calls[d]
  BY <1>2 DEF Goes
<1>4. \A v \in Panes \ {w} : Pending(v) => Pending(v)'
  <2>1. ASSUME NEW v \in Panes \ {w}, Pending(v) PROVE Pending(v)'
    <3>1. \A d \in Callers : calls[d].w = v => calls'[d] = calls[d]
      BY <1>3, <2>1
    <3> QED BY <2>1, <3>1 DEF Pending
  <2> QED BY <2>1
<1>5. /\ placed' \in [Panes -> Placed] /\ passed' \subseteq Panes
      /\ (\A v \in Panes : TrueTrail(placed[v]) /\ Follows(v))'
  BY <1>1, <1>4, RecordedStep
<1> QED BY <1>2, <1>5, CallGoes DEF nativeVars

LEMMA CallBackStep == ASSUME WorkspaceInv, NEW c \in Callers, CallBack(c) PROVE WorkspaceInv'
<1>1. PICK w, place, call : w = calls[c].w /\ place = calls[c].read /\ call = calls[c]
  OBVIOUS
<1>2. /\ call.at = "cached" /\ Recorded(w, place)
      /\ UNCHANGED <<nativeVars, open, watcher, poller, called, reached>>
      /\ IF call.kind = "move" THEN Goes(c, [call EXCEPT !.at = "told"]) ELSE Goes(c, NoCall)
  BY <1>1 DEF CallBack, Ends
<1>3. calls \in [Callers -> CallType] /\ call \in CallType
  BY <1>1 DEF WorkspaceInv, WorkspaceTypes
<1>4. CASE call.kind # "move"
  <2>1. NoCall \in CallType /\ calls'[c] = NoCall
    BY <1>2, <1>3, <1>4 DEF CallType, Goes
  <2>2. Sure(c)'
    BY <2>1 DEF Sure, NoCall
  <2> QED BY <1>1, <1>2, <1>4, <2>1, <2>2, RecordingCall
<1>5. CASE call.kind = "move"
  <2>1. PICK next : next = [call EXCEPT !.at = "told"]
    OBVIOUS
  <2>2. call \in [kind : {"move"}, w : Panes, to : Catalog, at : {"read", "cached", "told"}, read : Catalog]
    BY <1>2, <1>3, <1>5 DEF CallType, NoCall
  <2>3. /\ next \in [kind : {"move"}, w : Panes, to : Catalog, at : {"read", "cached", "told"}, read : Catalog]
        /\ next.at = "told"
    BY <2>1, <2>2
  <2>4. next \in CallType /\ Goes(c, next) /\ calls'[c] = next
    BY <1>2, <1>3, <1>5, <2>1, <2>3 DEF CallType, Goes
  <2>5. ASSUME platform = "windows" PROVE Sure(c)'
    <3>1. reached[c]
      BY <1>1, <1>2, <1>5, <2>5 DEF WorkspaceInv, Sure
    <3> QED BY <1>2, <2>3, <2>4, <3>1 DEF Sure
  <2> QED BY <1>1, <1>2, <2>4, <2>5, RecordingCall
<1> QED BY <1>4, <1>5

LEMMA RecordStep == ASSUME WorkspaceInv, NEW c \in Callers, Record(c) PROVE WorkspaceInv'
<1>1. PICK w, place : w = calls[c].w /\ place = calls[c].read
  OBVIOUS
<1>2. /\ calls[c].at \in {"read", "told"} /\ Recorded(w, place) /\ Goes(c, NoCall)
      /\ UNCHANGED <<nativeVars, open, watcher, poller, called, reached>>
  BY <1>1 DEF Record, Serving, Ends
<1>3. NoCall \in CallType /\ calls'[c] = NoCall
  BY <1>2 DEF CallType, Goes, WorkspaceInv, WorkspaceTypes
<1>4. Sure(c)'
  BY <1>3 DEF Sure, NoCall
<1> QED BY <1>1, <1>2, <1>3, <1>4, RecordingCall

\* A step of the polling thread leaves the requests alone.
LEMMA PollGoes ==
  ASSUME WorkspaceInv, poller' \in PollerType, UNCHANGED <<nativeVars, open, calls, reached>>,
         watcher' \in [Panes -> Places \union {Nowhere}], placed' \in [Panes -> Placed], passed' \subseteq Panes,
         (\A v \in Panes : TrueTrail(placed[v]) /\ Follows(v))'
  PROVE  WorkspaceInv'
<1>1. WorkspaceTypes'
  BY PlacesStay DEF WorkspaceInv, WorkspaceTypes, nativeVars
<1>2. ASSUME platform' = "windows", NEW c \in Callers PROVE Sure(c)'
  BY <1>2 DEF WorkspaceInv, Sure, nativeVars, Index, Base
<1> QED BY <1>1, <1>2 DEF WorkspaceInv

\* One that caches and records nothing, and delivers nothing.
LEMMA QuietPoll ==
  ASSUME WorkspaceInv, poller' \in PollerType, UNCHANGED <<nativeVars, open, watcher, recordVars, calls, reached>>,
         poller.at # "swapped"
  PROVE  WorkspaceInv'
<1>1. (\A v \in Panes : TrueTrail(placed[v]) /\ Follows(v))'
  BY RecordsIdle DEF Pending
<1> QED BY <1>1, PollGoes DEF WorkspaceInv, WorkspaceTypes, recordVars

LEMMA PollStartStep == ASSUME WorkspaceInv, PollStart PROVE WorkspaceInv'
<1>1. /\ poller = Resting /\ poller' = [Resting EXCEPT !.todo = {w \in Panes : watcher[w] # Nowhere}]
      /\ UNCHANGED <<nativeVars, open, watcher, recordVars, calls, called, reached>>
  BY DEF PollStart
<1>2. poller' \in PollerType
  BY <1>1 DEF PollerType, Resting
<1> QED BY <1>1, <1>2, QuietPoll DEF Resting

LEMMA PollReadStep == ASSUME WorkspaceInv, PollRead PROVE WorkspaceInv'
<1>1. PICK w \in poller.todo :
        poller' = IF w \in open
                    THEN [todo |-> poller.todo \ {w}, w |-> w, read |-> Index(onDesktop[w]), at |-> "read"]
                    ELSE Left(poller.todo \ {w})
  BY DEF PollRead
<1>2. poller.at = "idle" /\ UNCHANGED <<nativeVars, open, watcher, recordVars, calls, called, reached>>
  BY DEF PollRead
<1>3. poller.todo \subseteq Panes /\ onDesktop \in [Panes -> Desktops \union {All}]
  BY DEF WorkspaceInv, WorkspaceTypes, PollerType
<1>4. Index(onDesktop[w]) \in Places
  BY <1>3, IndexIsPlace
<1>5. poller' \in PollerType
  BY <1>1, <1>3, <1>4 DEF PollerType, Left, Resting
<1> QED BY <1>2, <1>5, QuietPoll

\* What the polling thread holds of a window it has read.
LEMMA PollFields ==
  ASSUME WorkspaceInv, poller.at \in {"read", "swapped"}
  PROVE  /\ poller \in [todo : SUBSET Panes, w : Panes, read : Places, at : {"read", "swapped"}]
         /\ poller.w \in Panes /\ poller.read \in Places /\ PollSkip \in PollerType
BY DEF WorkspaceInv, WorkspaceTypes, PollerType, PollSkip, Left, Resting

LEMMA PollSwapStep == ASSUME WorkspaceInv, PollSwap PROVE WorkspaceInv'
<1>1. PICK w, place : w = poller.w /\ place = poller.read
  OBVIOUS
<1>2. /\ poller.at = "read"
      /\ poller' = IF watcher[w] = place THEN PollSkip ELSE [poller EXCEPT !.at = "swapped"]
      /\ watcher' = [watcher EXCEPT ![w] = IF w \in open THEN place ELSE @]
      /\ UNCHANGED <<nativeVars, open, recordVars, calls, called, reached>>
  BY <1>1 DEF PollSwap
<1>3. /\ poller \in [todo : SUBSET Panes, w : Panes, read : Places, at : {"read", "swapped"}]
      /\ w \in Panes /\ place \in Places /\ PollSkip \in PollerType
  BY <1>1, <1>2, PollFields
<1>4. poller' \in PollerType
  <2>1. [poller EXCEPT !.at = "swapped"] \in [todo : SUBSET Panes, w : Panes, read : Places, at : {"read", "swapped"}]
    BY <1>3
  <2> QED BY <1>2, <1>3, <2>1 DEF PollerType
<1>5. watcher \in [Panes -> Places \union {Nowhere}] /\ placed \in [Panes -> Placed] /\ passed \subseteq Panes
  BY DEF WorkspaceInv, WorkspaceTypes
<1>6. watcher' \in [Panes -> Places \union {Nowhere}] /\ \A v \in Panes \ {w} : watcher'[v] = watcher[v]
  BY <1>2, <1>3, <1>5
<1>7. ~Pending(w)' => watcher'[w] = watcher[w]
  <2>1. CASE watcher[w] = place
    BY <1>2, <1>3, <1>5, <2>1
  <2>2. CASE watcher[w] # place
    <3>1. poller' = [poller EXCEPT !.at = "swapped"]
      BY <1>2, <2>2
    <3>2. poller'.at = "swapped" /\ poller'.w = w
      BY <1>1, <1>3, <3>1
    <3> QED BY <3>2 DEF Pending
  <2> QED BY <2>1, <2>2
<1>8. \A v \in Panes : Pending(v) => Pending(v)'
  BY <1>2 DEF Pending
<1>9. (\A v \in Panes : TrueTrail(placed[v]) /\ Follows(v))'
  <2>1. open' = open /\ open \subseteq Panes
    BY <1>2 DEF WorkspaceInv, WorkspaceTypes
  <2>2. \A v \in open' : ~Pending(v)' => ~Pending(v) /\ watcher'[v] \in {watcher[v], Nowhere}
    BY <1>6, <1>7, <1>8, <2>1
  <2> QED BY <1>2, <2>1, <2>2, RecordsStay
<1> QED BY <1>2, <1>4, <1>5, <1>6, <1>9, PollGoes DEF recordVars

LEMMA PollRecordStep == ASSUME WorkspaceInv, PollRecord PROVE WorkspaceInv'
<1>1. PICK w, place : w = poller.w /\ place = poller.read
  OBVIOUS
<1>2. /\ poller.at = "swapped" /\ Recorded(w, place) /\ poller' = PollSkip
      /\ UNCHANGED <<nativeVars, open, watcher, calls, called, reached>>
  BY <1>1 DEF PollRecord
<1>3. w \in Panes /\ place \in Places /\ PollSkip \in PollerType
  BY <1>1, <1>2, PollFields
<1>4. \A v \in Panes \ {w} : Pending(v) => Pending(v)'
  BY <1>1, <1>2 DEF Pending
<1>5. /\ placed' \in [Panes -> Placed] /\ passed' \subseteq Panes
      /\ (\A v \in Panes : TrueTrail(placed[v]) /\ Follows(v))'
  BY <1>2, <1>3, <1>4, RecordedStep
<1>6. watcher \in [Panes -> Places \union {Nowhere}] /\ PollSkip \in PollerType
  BY <1>3 DEF WorkspaceInv, WorkspaceTypes
<1> QED BY <1>2, <1>5, <1>6, PollGoes

LEMMA WorkspaceStarts == ASSUME WorkspaceInit PROVE WorkspaceInv
<1>1. placed = [w \in Panes |-> [at |-> Nowhere, trail |-> <<>>, truncated |-> FALSE]]
      /\ watcher = [w \in Panes |-> Nowhere]
  BY DEF WorkspaceInit
<1>2. [at |-> Nowhere, trail |-> <<>>, truncated |-> FALSE] \in Placed
  BY WorkspacesAssumption DEF Placed
<1>3. WorkspaceTypes
  <2>1. placed \in [Panes -> Placed] /\ watcher \in [Panes -> Places \union {Nowhere}]
    BY <1>1, <1>2
  <2>2. poller \in PollerType /\ calls \in [Callers -> CallType] /\ reached \in [Callers -> BOOLEAN]
    BY DEF WorkspaceInit, PollerType, Resting, CallType
  <2>3. onDesktop \in [Panes -> Desktops \union {All}]
    BY DEF WorkspaceInit
  <2> QED BY <2>1, <2>2, <2>3 DEF WorkspaceTypes, WorkspaceInit
<1>4. ASSUME NEW w \in Panes PROVE TrueTrail(placed[w]) /\ Follows(w)
  <2>1. placed[w] = [at |-> Nowhere, trail |-> <<>>, truncated |-> FALSE] /\ watcher[w] = Nowhere
    BY <1>1
  <2>2. Nowhere \notin Nat
    BY WorkspacesAssumption
  <2> QED BY <2>1, <2>2 DEF TrueTrail, NoRepeats, Follows
<1>5. ASSUME NEW c \in Callers PROVE Sure(c)
  BY DEF WorkspaceInit, Sure, NoCall
<1> QED BY <1>3, <1>4, <1>5 DEF WorkspaceInv

THEOREM WorkspaceInvariant == WorkspaceSpec => []WorkspaceInv
<1>1. WorkspaceInit => WorkspaceInv
  BY WorkspaceStarts
<1>2. WorkspaceInv /\ [WorkspaceNext]_workspaceVars => WorkspaceInv'
  <2> SUFFICES ASSUME WorkspaceInv, [WorkspaceNext]_workspaceVars PROVE WorkspaceInv'
    OBVIOUS
  <2>1. CASE UNCHANGED workspaceVars
    <3>1. \A v \in Panes : Pending(v) => Pending(v)'
      BY <2>1 DEF workspaceVars, Pending
    <3>2. (\A v \in Panes : TrueTrail(placed[v]) /\ Follows(v))'
      BY <2>1, <3>1, RecordsIdle DEF workspaceVars
    <3> QED BY <2>1, <3>2, PollGoes, PlacesStay DEF workspaceVars, nativeVars, recordVars, WorkspaceInv, WorkspaceTypes
  <2>2. ASSUME NEW w \in Panes, UserMoves(w) PROVE WorkspaceInv'
    BY <2>2, UserMovesStep
  <2>3. ASSUME NEW w \in Panes, Close(w) PROVE WorkspaceInv'
    BY <2>3, PaneCloseStep
  <2>4. CASE Serve
    BY <2>4, ServeStep
  <2>5. CASE Poll
    BY <2>5, PollStartStep, PollReadStep, PollSwapStep, PollRecordStep DEF Poll
  <2>6. ASSUME NEW c \in Callers, Begin(c) PROVE WorkspaceInv'
    BY <2>6, BeginStep
  <2>7. ASSUME NEW c \in Callers, Handle(c) PROVE WorkspaceInv'
    BY <2>7, ReadStep, AskMoveStep, ConfirmStep, FailsStep, CacheStep, CallBackStep, RecordStep DEF Handle
  <2> QED BY <2>1, <2>2, <2>3, <2>4, <2>5, <2>6, <2>7 DEF WorkspaceNext
<1> QED BY <1>1, <1>2, PTL DEF WorkspaceSpec

\* The types of the desktops, the watchers and the registry's placements (PlacementTracker, WorkspaceState).
THEOREM PlacementTypesHold == WorkspaceSpec => []WorkspaceTypeOK
<1>1. WorkspaceInv => WorkspaceTypeOK
  <2> SUFFICES ASSUME WorkspaceInv PROVE WorkspaceTypeOK
    OBVIOUS
  <2>1. /\ platform \in Platforms /\ onDesktop \in [Panes -> Desktops \union {All}]
        /\ asked \subseteq [w : Panes, to : Desktops] /\ open \subseteq Panes
        /\ watcher \in [Panes -> Places \union {Nowhere}]
    BY DEF WorkspaceInv, WorkspaceTypes
  <2>2. ASSUME NEW w \in Panes
        PROVE  /\ placed[w].at \in Catalog \union {All, Nowhere}
               /\ placed[w].trail \in Seq(Catalog) /\ Len(placed[w].trail) <= MaxTrail
    <3>1. placed[w] \in Placed
      BY DEF WorkspaceInv, WorkspaceTypes
    <3> QED BY <3>1 DEF Placed, Places
  <2>3. poller.todo \subseteq Panes
    BY DEF WorkspaceInv, WorkspaceTypes, PollerType
  <2>4. ASSUME NEW c \in Callers PROVE calls[c].w \in Panes \union {Nowhere}
    <3>1. calls[c] \in CallType
      BY DEF WorkspaceInv, WorkspaceTypes
    <3> QED BY <3>1 DEF CallType, NoCall
  <2>5. watcher \in [Panes -> Catalog \union {All, Nowhere}]
    <3>1. Places \union {Nowhere} = Catalog \union {All, Nowhere}
      BY DEF Places
    <3> QED BY <2>1, <3>1
  <2> QED BY <2>1, <2>2, <2>3, <2>4, <2>5 DEF WorkspaceTypeOK
<1> QED BY <1>1, WorkspaceInvariant, PTL

\* The trail of a window is sound, a watched window is recorded where its watcher saw it once that
\* is delivered, and on Windows a move is reported only after the window has been there.
THEOREM PlacementIsAlwaysTrue == WorkspaceSpec => []PlacementIsTrue
<1>1. WorkspaceInv => PlacementIsTrue
  <2> SUFFICES ASSUME WorkspaceInv PROVE PlacementIsTrue
    OBVIOUS
  <2>1. TrailIsSound
    BY DEF WorkspaceInv, TrailIsSound, TrueTrail, NoRepeats
  <2>2. RecordFollowsWatcher
    <3>1. open \subseteq Panes /\ \A w \in Panes : Follows(w)
      BY DEF WorkspaceInv, WorkspaceTypes
    <3> QED BY <3>1 DEF RecordFollowsWatcher, Follows, Pending
  <2>3. platform = "windows" => MoveIsConfirmed
    BY DEF WorkspaceInv, Sure, MoveIsConfirmed, Serving
  <2> QED BY <2>1, <2>2, <2>3 DEF PlacementIsTrue
<1> QED BY <1>1, WorkspaceInvariant, PTL

-----------------------------------------------------------------------------
(* PageLoad *)

Outcome == [url : Urls, ok : BOOLEAN]
\* The events of a load are neighbours; the first of them begins it.
Begins(said, i) == i = 1 \/ said[i - 1].load # said[i].load

\* What a view says of its loads: each begins with started; then finished ends it, or failed, and
\* finished and started events of the failed URL may follow that.
Story(said, loads) ==
  /\ \A i \in 1..Len(said) :
       LET e == said[i] IN
       /\ e.load \in 1..Len(loads) /\ e.url = loads[e.load].url
       /\ Begins(said, i) =>
            e.kind = "started" /\ (i > 1 => said[i - 1].load = e.load - 1 /\ ~Begins(said, i - 1))
       /\ ~Begins(said, i) =>
            IF Begins(said, i - 1) THEN e.kind = (IF loads[e.load].ok THEN "finished" ELSE "failed")
            ELSE ~loads[e.load].ok /\ e.kind # "failed"
  /\ IF loads = <<>> THEN said = <<>>
     ELSE said # <<>> /\ Last(said).load = Len(loads) /\ ~Begins(said, Len(said))

\* Some page that failed was loaded again at once.
Again(loads) == \E i \in 2..Len(loads) : ~loads[i - 1].ok /\ loads[i].url = loads[i - 1].url

\* What a record says that took the first k events in order.
Shows(r, said, loads, k) ==
  IF k = 0 THEN r.state = "started"
  ELSE LET e == said[k] IN
       /\ ~loads[e.load].ok /\ ~Begins(said, k) => r.state = "failed" /\ r.url = e.url
       /\ ~Again(loads) =>
            /\ r.url = e.url
            /\ r.state = IF Begins(said, k) THEN "started" ELSE IF loads[e.load].ok THEN "loaded" ELSE "failed"

\* The timeline holds the requested URL and pages that loaded.
Timeline(r, loads) ==
  /\ ToSet(r.history) \subseteq {Requested} \cup {loads[i].url : i \in {j \in DOMAIN loads : loads[j].ok}}
  /\ r.truncated \/ Head(r.history) = Requested

-----------------------------------------------------------------------------
\* How often an event occurs.

LEMMA TimesAppend ==
  ASSUME NEW S, NEW s \in Seq(S), NEW x \in S, NEW e
  PROVE  /\ Times(s, e) \in Nat
         /\ Times(Append(s, x), e) = Times(s, e) + IF x = e THEN 1 ELSE 0
<1>1. PICK n \in Nat : n = Len(s)
  OBVIOUS
<1>2. PICK A : A = {i \in 1..n : s[i] = e}
  OBVIOUS
<1>3. IsFiniteSet(A) /\ Cardinality(A) \in Nat
  <2>1. IsFiniteSet(1..n)
    BY FS_Interval
  <2>2. A \in SUBSET (1..n)
    BY <1>2
  <2>3. IsFiniteSet(A)
    BY <2>1, <2>2, FS_Subset
  <2> QED BY <2>3, FS_CardinalityType
<1>4. A = {i \in DOMAIN s : s[i] = e}
  BY <1>1, <1>2
<1>5. DOMAIN Append(s, x) = 1..n + 1 /\ Append(s, x)[n + 1] = x /\ \A i \in 1..n : Append(s, x)[i] = s[i]
  BY <1>1
<1>6. {i \in DOMAIN Append(s, x) : Append(s, x)[i] = e} = IF x = e THEN A \union {n + 1} ELSE A
  BY <1>2, <1>5
<1>7. n + 1 \notin A
  BY <1>2
<1>8. Cardinality(A \union {n + 1}) = Cardinality(A) + 1
  BY <1>3, <1>7, FS_AddElement
<1>9. Times(s, e) = Cardinality(A)
  BY <1>4 DEF Times
<1>10. Times(Append(s, x), e) = Cardinality(IF x = e THEN A \union {n + 1} ELSE A)
  BY <1>6 DEF Times
<1>11. CASE x = e
  BY <1>3, <1>8, <1>9, <1>10, <1>11
<1>12. CASE x # e
  BY <1>3, <1>9, <1>10, <1>12
<1> QED BY <1>11, <1>12

LEMMA TimesTail ==
  ASSUME NEW S, NEW s \in Seq(S), s # <<>>, NEW e
  PROVE  Times(s, e) = Times(Tail(s), e) + (IF Head(s) = e THEN 1 ELSE 0) /\ Times(Tail(s), e) \in Nat
<1>1. PICK n \in Nat : n = Len(s)
  OBVIOUS
<1>2. n > 0 /\ Head(s) = s[1] /\ Tail(s) \in Seq(S) /\ Len(Tail(s)) = n - 1 /\ \A i \in 1..n - 1 : Tail(s)[i] = s[i + 1]
  BY <1>1, HeadTailProperties, EmptySeq
<1>3. PICK A, B : A = {i \in 1..n - 1 : Tail(s)[i] = e} /\ B = {i \in 2..n : s[i] = e}
  OBVIOUS
<1>4. IsFiniteSet(A) /\ Cardinality(A) \in Nat /\ IsFiniteSet(B)
  <2>1. IsFiniteSet(1..n) /\ IsFiniteSet(1..n - 1)
    BY FS_Interval
  <2>2. A \in SUBSET (1..n - 1) /\ B \in SUBSET (1..n)
    BY <1>3
  <2>3. IsFiniteSet(A) /\ IsFiniteSet(B)
    BY <2>1, <2>2, FS_Subset
  <2> QED BY <2>3, FS_CardinalityType
<1>5. Cardinality(B) = Cardinality(A)
  <2>1. PICK f : f = [i \in A |-> i + 1]
    OBVIOUS
  <2>2. f \in [A -> B]
    BY <1>2, <1>3, <2>1
  <2>3. \A i, j \in A : f[i] = f[j] => i = j
    <3>1. A \subseteq Int
      BY <1>3
    <3>2. \A i \in A : f[i] = i + 1
      BY <2>1
    <3> QED BY <3>1, <3>2
  <2>4. \A j \in B : \E i \in A : f[i] = j
    <3>1. ASSUME NEW j \in B PROVE \E i \in A : f[i] = j
      <4>1. j - 1 \in 1..n - 1 /\ (j - 1) + 1 = j
        BY <1>3
      <4>2. j - 1 \in A
        BY <1>2, <1>3, <4>1
      <4> QED BY <2>1, <4>1, <4>2
    <3> QED BY <3>1
  <2>5. f \in Bijection(A, B)
    <3>1. f \in Injection(A, B)
      BY <2>2, <2>3 DEF Injection, IsInjective
    <3>2. f \in Surjection(A, B)
      BY <2>2, <2>4 DEF Surjection
    <3> QED BY <3>1, <3>2 DEF Bijection
  <2> QED BY <1>4, <2>5, FS_Bijection DEF ExistsBijection
<1>6. {i \in DOMAIN s : s[i] = e} = IF Head(s) = e THEN B \union {1} ELSE B
  BY <1>1, <1>2, <1>3
<1>7. {i \in DOMAIN Tail(s) : Tail(s)[i] = e} = A
  BY <1>2, <1>3
<1>8. Cardinality(B \union {1}) = Cardinality(B) + 1
  <2>1. 1 \notin B
    BY <1>3
  <2> QED BY <1>4, <2>1, FS_AddElement
<1>9. Times(Tail(s), e) = Cardinality(A)
  BY <1>7 DEF Times
<1>10. Times(s, e) = Cardinality(IF Head(s) = e THEN B \union {1} ELSE B)
  BY <1>6 DEF Times
<1>11. CASE Head(s) = e
  BY <1>4, <1>5, <1>8, <1>9, <1>10, <1>11
<1>12. CASE Head(s) # e
  BY <1>4, <1>5, <1>9, <1>10, <1>12
<1> QED BY <1>11, <1>12

LEMMA TimesFew ==
  /\ \A e : Times(<<>>, e) = 0
  /\ \A x, e : Times(<<x>>, e) = IF x = e THEN 1 ELSE 0
<1>1. ASSUME NEW e PROVE Times(<<>>, e) = 0
  <2>1. {i \in DOMAIN <<>> : <<>>[i] = e} = {}
    OBVIOUS
  <2> QED BY <2>1, FS_EmptySet DEF Times
<1>2. ASSUME NEW x, NEW e PROVE Times(<<x>>, e) = IF x = e THEN 1 ELSE 0
  <2>1. {i \in DOMAIN <<x>> : <<x>>[i] = e} = IF x = e THEN {1} ELSE {}
    OBVIOUS
  <2> QED BY <2>1, FS_EmptySet, FS_Singleton DEF Times
<1> QED BY <1>1, <1>2

-----------------------------------------------------------------------------
\* Prefixes, and the story of a view.

LEMMA PrefixIs ==
  ASSUME NEW S, NEW s \in Seq(S), NEW t \in Seq(S)
  PROVE  IsPrefix(s, t) <=> Len(s) <= Len(t) /\ \A i \in 1..Len(s) : s[i] = t[i]
<1>1. CASE Len(s) <= Len(t)
  <2>1. PICK a, b : a = SubSeq(s, 1, Len(s)) /\ b = SubSeq(t, 1, Len(s))
    OBVIOUS
  <2>2. /\ a \in Seq(S) /\ b \in Seq(S) /\ Len(a) = Len(s) /\ Len(b) = Len(s)
        /\ \A i \in 1..Len(s) : a[i] = s[i] /\ b[i] = t[i]
    BY <1>1, <2>1
  <2>3. (a = b) <=> \A i \in 1..Len(s) : a[i] = b[i]
    BY <2>2, SeqEqual
  <2> QED BY <1>1, <2>1, <2>2, <2>3 DEF IsPrefix
<1>2. CASE ~(Len(s) <= Len(t))
  BY <1>2 DEF IsPrefix
<1> QED BY <1>1, <1>2

LEMMA PrefixAppend ==
  ASSUME NEW S, NEW s \in Seq(S), NEW t \in Seq(S), NEW x \in S, IsPrefix(Append(s, x), t)
  PROVE  IsPrefix(s, t) /\ Len(s) + 1 \in 1..Len(t) /\ t[Len(s) + 1] = x
<1>1. PICK more : more = Append(s, x)
  OBVIOUS
<1>2. /\ more \in Seq(S) /\ Len(more) = Len(s) + 1 /\ more[Len(s) + 1] = x
      /\ \A i \in 1..Len(s) : more[i] = s[i]
  BY <1>1
<1>3. Len(more) <= Len(t) /\ \A i \in 1..Len(more) : more[i] = t[i]
  <2>1. IsPrefix(more, t) /\ more \in Seq(S)
    BY <1>1, <1>2
  <2> QED BY <2>1, PrefixIs
<1>4. Len(s) <= Len(t) /\ \A i \in 1..Len(s) : s[i] = t[i]
  BY <1>2, <1>3
<1>5. IsPrefix(s, t)
  BY <1>4, PrefixIs
<1> QED BY <1>2, <1>3, <1>5

LEMMA PrefixShort ==
  ASSUME NEW S, NEW s \in Seq(S), NEW t \in Seq(S), NEW x \in S, IsPrefix(s, Append(t, x)), Len(s) <= Len(t)
  PROVE  IsPrefix(s, t)
<1>1. PICK more : more = Append(t, x)
  OBVIOUS
<1>2. more \in Seq(S) /\ \A i \in 1..Len(t) : more[i] = t[i]
  BY <1>1
<1>3. \A i \in 1..Len(s) : s[i] = more[i]
  <2>1. IsPrefix(s, more) /\ more \in Seq(S)
    BY <1>1, <1>2
  <2> QED BY <2>1, PrefixIs
<1>4. \A i \in 1..Len(s) : s[i] = t[i]
  BY <1>2, <1>3
<1> QED BY <1>4, PrefixIs

\* An event that is reported moves from what is to be reported to what was.
LEMMA SaidStays ==
  ASSUME NEW S, NEW s \in Seq(S), NEW t \in Seq(S), t # <<>>
  PROVE  Append(s, Head(t)) \o Tail(t) = s \o t
<1>1. PICK n, m \in Nat : n = Len(s) /\ m = Len(t)
  OBVIOUS
<1>2. /\ m > 0 /\ Head(t) = t[1] /\ Head(t) \in S /\ Tail(t) \in Seq(S) /\ Len(Tail(t)) = m - 1
      /\ \A i \in 1..m - 1 : Tail(t)[i] = t[i + 1]
  BY <1>1, HeadTailProperties, EmptySeq
<1>3. PICK a, b, c : a = Append(s, Head(t)) /\ b = a \o Tail(t) /\ c = s \o t
  OBVIOUS
<1>4. a \in Seq(S) /\ Len(a) = n + 1 /\ a[n + 1] = t[1] /\ \A i \in 1..n : a[i] = s[i]
  BY <1>1, <1>2, <1>3
<1>5. /\ b \in Seq(S) /\ Len(b) = n + m /\ \A i \in 1..n + 1 : b[i] = a[i]
      /\ \A i \in n + 2..n + m : b[i] = Tail(t)[i - (n + 1)]
  BY <1>1, <1>2, <1>3, <1>4
<1>6. /\ c \in Seq(S) /\ Len(c) = n + m /\ \A i \in 1..n : c[i] = s[i]
      /\ \A i \in n + 1..n + m : c[i] = t[i - n]
  BY <1>1, <1>3
<1>7. ASSUME NEW i \in 1..n + m PROVE b[i] = c[i]
  <2>1. CASE i \in 1..n
    BY <1>4, <1>5, <1>6, <2>1
  <2>2. CASE i = n + 1
    BY <1>2, <1>4, <1>5, <1>6, <2>2
  <2>3. CASE i \in n + 2..n + m
    <3>1. b[i] = Tail(t)[i - (n + 1)]
      BY <1>5, <2>3
    <3>2. c[i] = t[i - n]
      <4>1. i \in n + 1..n + m
        BY <2>3
      <4> QED BY <1>6, <4>1
    <3>3. PICK j \in 1..m - 1 : j = i - (n + 1) /\ j + 1 = i - n
      BY <2>3
    <3>4. Tail(t)[j] = t[j + 1]
      BY <1>2
    <3> QED BY <3>1, <3>2, <3>3, <3>4
  <2> QED BY <2>1, <2>2, <2>3
<1>8. b = c
  BY <1>5, <1>6, <1>7, SeqEqual
<1> QED BY <1>3, <1>8

Scripts(url, load) ==
  {<<On("started", url, load), On("finished", url, load)>>,
   <<On("started", url, load), On("failed", url, load), On("finished", url, load)>>,
   <<On("started", url, load), On("failed", url, load), On("finished", url, load),
     On("started", url, load), On("finished", url, load)>>}

\* A script, event by event.
LEMMA ScriptIs ==
  ASSUME NEW url \in Urls, NEW load \in Nat, NEW script \in Scripts(url, load)
  PROVE  /\ script \in Seq(Event) /\ Len(script) \in {2, 3, 5}
         /\ \A i \in 1..Len(script) : script[i].url = url /\ script[i].load = load
         /\ script[1].kind = "started" /\ script[2].kind = IF Len(script) = 2 THEN "finished" ELSE "failed"
         /\ \A i \in 3..Len(script) : script[i].kind # "failed"
<1>1. PICK a, b, c : a = On("started", url, load) /\ b = On("failed", url, load) /\ c = On("finished", url, load)
  OBVIOUS
<1>2. /\ a \in Event /\ b \in Event /\ c \in Event
      /\ a.url = url /\ a.load = load /\ a.kind = "started"
      /\ b.url = url /\ b.load = load /\ b.kind = "failed"
      /\ c.url = url /\ c.load = load /\ c.kind = "finished"
  BY <1>1 DEF On, Event
<1>3. script \in {<<a, c>>, <<a, b, c>>, <<a, b, c, a, c>>}
  BY <1>1 DEF Scripts
<1>4. CASE script = <<a, c>>
  BY <1>2, <1>4
<1>5. CASE script = <<a, b, c>>
  <2>1. Len(script) = 3 /\ script[1] = a /\ script[2] = b /\ script[3] = c /\ script \in Seq(Event)
    BY <1>2, <1>5
  <2> QED BY <1>2, <2>1
<1>6. CASE script = <<a, b, c, a, c>>
  <2>1. /\ Len(script) = 5 /\ script[1] = a /\ script[2] = b /\ script[3] = c /\ script[4] = a /\ script[5] = c
        /\ script \in Seq(Event)
    BY <1>2, <1>6
  <2>2. \A i \in 1..5 : i = 1 \/ i = 2 \/ i = 3 \/ i = 4 \/ i = 5
    OBVIOUS
  <2> QED BY <1>2, <2>1, <2>2
<1> QED BY <1>3, <1>4, <1>5, <1>6

\* Where an event begins a load, in a longer story.
LEMMA BeginsStays ==
  ASSUME NEW S, NEW s \in Seq(S), NEW t \in Seq(S)
  PROVE  /\ s \o t \in Seq(S) /\ Len(s \o t) = Len(s) + Len(t)
         /\ \A i \in 1..Len(s) : (s \o t)[i] = s[i] /\ (Begins(s \o t, i) <=> Begins(s, i))
         /\ \A j \in 1..Len(t) : (s \o t)[Len(s) + j] = t[j]
<1>1. PICK c : c = s \o t
  OBVIOUS
<1>2. PICK n, m \in Nat : n = Len(s) /\ m = Len(t)
  OBVIOUS
<1>3. c \in Seq(S) /\ Len(c) = n + m /\ \A i \in 1..n : c[i] = s[i]
  BY <1>1, <1>2
<1>4. ASSUME NEW j \in 1..m PROVE c[n + j] = t[j]
  BY <1>1, <1>2
<1>5. ASSUME NEW i \in 1..n PROVE Begins(c, i) <=> Begins(s, i)
  <2>1. CASE i = 1
    BY <2>1 DEF Begins
  <2>2. CASE i # 1
    <3>1. i - 1 \in 1..n
      BY <2>2
    <3> QED BY <1>3, <2>2, <3>1 DEF Begins
  <2> QED BY <2>1, <2>2
<1> QED BY <1>1, <1>2, <1>3, <1>4, <1>5

\* The last event of a story belongs to the last load.
LEMMA StoryGrows ==
  ASSUME NEW said \in Seq(Event), NEW loads \in Seq(Outcome), Story(said, loads),
         NEW url \in Urls, NEW script \in Scripts(url, Len(loads) + 1), NEW ok, ok = (Len(script) = 2)
  PROVE  Story(said \o script, Append(loads, [url |-> url, ok |-> ok]))
<1>1. PICK n, m, l \in Nat : n = Len(said) /\ m = Len(script) /\ l = Len(loads)
  <2>1. Len(loads) + 1 \in Nat
    OBVIOUS
  <2>2. script \in Seq(Event)
    BY <2>1, ScriptIs
  <2> QED BY <2>2
<1>2. PICK now, c : now = Append(loads, [url |-> url, ok |-> ok]) /\ c = said \o script
  OBVIOUS
<1>3. /\ script \in Seq(Event) /\ m \in {2, 3, 5} /\ \A j \in 1..m : script[j].url = url /\ script[j].load = l + 1
      /\ script[1].kind = "started" /\ script[2].kind = (IF m = 2 THEN "finished" ELSE "failed")
      /\ \A j \in 3..m : script[j].kind # "failed"
  <2>1. l + 1 \in Nat /\ script \in Scripts(url, l + 1)
    BY <1>1
  <2>2. /\ script \in Seq(Event) /\ Len(script) \in {2, 3, 5}
        /\ \A i \in 1..Len(script) : script[i].url = url /\ script[i].load = l + 1
        /\ script[1].kind = "started" /\ script[2].kind = IF Len(script) = 2 THEN "finished" ELSE "failed"
        /\ \A i \in 3..Len(script) : script[i].kind # "failed"
    BY <2>1, ScriptIs
  <2> QED BY <1>1, <2>2
<1>4. /\ Len(now) = l + 1 /\ now[l + 1].url = url /\ (now[l + 1].ok <=> m = 2)
      /\ \A j \in 1..l : now[j] = loads[j]
  <2>1. now \in Seq([url : Urls, ok : BOOLEAN]) /\ Len(now) = l + 1 /\ now[l + 1] = [url |-> url, ok |-> ok]
        /\ \A j \in 1..l : now[j] = loads[j]
    BY <1>1, <1>2 DEF Outcome
  <2> QED BY <1>1, <2>1
<1>5. /\ c \in Seq(Event) /\ Len(c) = n + m
      /\ \A i \in 1..n : c[i] = said[i] /\ (Begins(c, i) <=> Begins(said, i))
      /\ \A j \in 1..m : c[n + j] = script[j]
  BY <1>1, <1>2, <1>3, BeginsStays
<1>6. /\ \A j \in 1..m : c[n + j].load = l + 1 /\ c[n + j].url = url
      /\ c[n + 1].kind = "started" /\ c[n + 2].kind = (IF m = 2 THEN "finished" ELSE "failed")
      /\ \A j \in 3..m : c[n + j].kind # "failed"
  <2>1. 1 \in 1..m /\ 2 \in 1..m /\ \A j \in 3..m : j \in 1..m
    BY <1>3
  <2>2. c[n + 1] = script[1] /\ c[n + 2] = script[2]
    BY <1>5, <2>1
  <2>3. \A j \in 1..m : c[n + j].load = l + 1 /\ c[n + j].url = url
    BY <1>3, <1>5
  <2>4. \A j \in 3..m : c[n + j].kind # "failed"
    BY <1>3, <1>5, <2>1
  <2> QED BY <1>3, <2>2, <2>3, <2>4
<1>7. n > 0 => l > 0 /\ said[n].load = l /\ ~Begins(said, n)
  <2>1. n > 0 => said # <<>>
    BY <1>1
  <2>2. l = 0 => loads = <<>>
    BY <1>1, EmptySeq
  <2> QED BY <1>1, <2>1, <2>2 DEF Story, Last
<1>8. Begins(c, n + 1) /\ \A j \in 2..m : ~Begins(c, n + j)
  <2>1. Begins(c, n + 1)
    <3>1. CASE n = 0
      BY <3>1 DEF Begins
    <3>2. CASE n > 0
      <4>1. c[n].load = l /\ c[n + 1].load = l + 1
        BY <1>3, <1>5, <1>6, <1>7, <3>2
      <4>2. (n + 1) - 1 = n
        OBVIOUS
      <4> QED BY <4>1, <4>2 DEF Begins
    <3> QED BY <3>1, <3>2
  <2>2. ASSUME NEW j \in 2..m PROVE ~Begins(c, n + j)
    <3>1. PICK k \in 1..m : k = j - 1 /\ (n + j) - 1 = n + k /\ n + j # 1
      BY <2>2
    <3>2. c[n + j].load = l + 1 /\ c[n + k].load = l + 1
      <4>1. j \in 1..m
        BY <2>2
      <4> QED BY <1>6, <4>1
    <3> QED BY <3>1, <3>2 DEF Begins
  <2> QED BY <2>1, <2>2
<1>9. ASSUME NEW i \in 1..n + m
      PROVE  /\ c[i].load \in 1..l + 1 /\ c[i].url = now[c[i].load].url
             /\ Begins(c, i) =>
                  c[i].kind = "started" /\ (i > 1 => c[i - 1].load = c[i].load - 1 /\ ~Begins(c, i - 1))
             /\ ~Begins(c, i) =>
                  IF Begins(c, i - 1) THEN c[i].kind = (IF now[c[i].load].ok THEN "finished" ELSE "failed")
                  ELSE ~now[c[i].load].ok /\ c[i].kind # "failed"
  <2>1. CASE i \in 1..n
    <3>1. c[i] = said[i] /\ (Begins(c, i) <=> Begins(said, i))
      BY <1>5, <2>1
    <3>2. i > 1 => c[i - 1] = said[i - 1] /\ (Begins(c, i - 1) <=> Begins(said, i - 1))
      <4>1. i > 1 => i - 1 \in 1..n
        BY <2>1
      <4> QED BY <1>5, <4>1
    <3>3. ~Begins(said, i) => i > 1
      BY <2>1 DEF Begins
    <3>4. PICK e : e = said[i]
      OBVIOUS
    <3>5. /\ e.load \in 1..l /\ e.url = loads[e.load].url
          /\ Begins(said, i) =>
               e.kind = "started" /\ (i > 1 => said[i - 1].load = e.load - 1 /\ ~Begins(said, i - 1))
          /\ ~Begins(said, i) =>
               IF Begins(said, i - 1) THEN e.kind = (IF loads[e.load].ok THEN "finished" ELSE "failed")
               ELSE ~loads[e.load].ok /\ e.kind # "failed"
      BY <1>1, <2>1, <3>4 DEF Story
    <3>6. now[e.load] = loads[e.load] /\ e.load \in 1..l + 1
      BY <1>4, <3>5
    <3> QED BY <3>1, <3>2, <3>3, <3>4, <3>5, <3>6
  <2>2. CASE i \in n + 1..n + m
    <3>1. PICK j \in 1..m : i = n + j
      <4>1. i - n \in 1..m /\ i = n + (i - n)
        BY <2>2
      <4> QED BY <4>1
    <3>2. c[i].load = l + 1 /\ c[i].url = url /\ now[l + 1].url = url /\ (now[l + 1].ok <=> m = 2)
      BY <1>4, <1>6, <3>1
    <3>3. CASE j = 1
      <4>1. c[i].kind = "started" /\ Begins(c, i) /\ i = n + 1
        BY <1>6, <1>8, <3>1, <3>3
      <4>2. i > 1 => c[i - 1].load = l /\ ~Begins(c, i - 1)
        <5>1. ASSUME i > 1 PROVE n \in 1..n /\ i - 1 = n
          BY <4>1, <5>1
        <5> QED BY <1>5, <1>7, <5>1
      <4> QED BY <3>2, <4>1, <4>2
    <3>4. CASE j = 2
      <4>1. ~Begins(c, i) /\ Begins(c, i - 1) /\ c[i].kind = (IF m = 2 THEN "finished" ELSE "failed")
        <5>1. i - 1 = n + 1 /\ i = n + 2 /\ j \in 2..m
          BY <3>1, <3>4
        <5> QED BY <1>6, <1>8, <3>1, <5>1
      <4> QED BY <3>2, <4>1
    <3>5. CASE j \in 3..m
      <4>1. ~Begins(c, i) /\ ~Begins(c, i - 1) /\ c[i].kind # "failed" /\ m # 2
        <5>1. PICK k \in 2..m : k = j - 1 /\ i - 1 = n + k /\ j \in 2..m
          BY <3>1, <3>5
        <5> QED BY <1>6, <1>8, <3>1, <3>5, <5>1
      <4> QED BY <3>2, <4>1
    <3> QED BY <3>1, <3>3, <3>4, <3>5
  <2> QED BY <2>1, <2>2
<1>10. /\ now # <<>> /\ c # <<>> /\ Last(c).load = Len(now) /\ ~Begins(c, Len(c))
  <2>1. Len(c) = n + m /\ m \in 2..m /\ m \in 1..m
    BY <1>3, <1>5
  <2>2. c # <<>> /\ now # <<>>
    BY <1>3, <1>4, <1>5
  <2> QED BY <1>4, <1>6, <1>8, <2>1, <2>2 DEF Last
<1>11. Story(c, now)
  <2>1. Len(c) = n + m /\ Len(now) = l + 1
    BY <1>4, <1>5
  <2> QED BY <1>9, <1>10, <2>1 DEF Story
<1> QED BY <1>2, <1>11

-----------------------------------------------------------------------------
\* What an event does to the record.

RecordType ==
  [state : {"started", "loaded", "failed"}, error : BOOLEAN, url : Urls, history : Seq(Urls), truncated : BOOLEAN]
RecordFine(r) ==
  /\ r \in RecordType /\ r.error = (r.state = "failed")
  /\ r.history # <<>> /\ Len(r.history) <= MaxHistory

LEMMA VisitIs ==
  ASSUME RecordFine(record), NEW url \in Urls
  PROVE  /\ Visit(url) \in Seq(Urls) /\ Visit(url) # <<>> /\ Len(Visit(url)) <= MaxHistory
         /\ ToSet(Visit(url)) \subseteq ToSet(record.history) \union {url}
<1>1. PICK h, longer : h = record.history /\ longer = Append(h, url)
  OBVIOUS
<1>2. h \in Seq(Urls) /\ h # <<>> /\ Len(h) <= MaxHistory /\ MaxHistory \in Nat \ {0}
  BY <1>1, PageAssumption DEF RecordFine, RecordType
<1>3. Visit(url) = IF Last(h) = url THEN h ELSE IF Len(longer) > MaxHistory THEN Tail(longer) ELSE longer
  BY <1>1, <1>2 DEF Visit
<1>4. longer \in Seq(Urls) /\ Len(longer) = Len(h) + 1 /\ longer[Len(h) + 1] = url /\ \A i \in 1..Len(h) : longer[i] = h[i]
  BY <1>1, <1>2
<1>5. ToSet(longer) \subseteq ToSet(h) \union {url}
  BY <1>2, <1>4 DEF ToSet
<1>6. CASE Visit(url) = h
  BY <1>1, <1>2, <1>6
<1>7. CASE Visit(url) = longer /\ ~(Len(longer) > MaxHistory)
  BY <1>1, <1>2, <1>4, <1>5, <1>7
<1>8. CASE Visit(url) = Tail(longer) /\ Len(longer) > MaxHistory
  <2>1. longer # <<>> /\ Len(longer) \in Nat
    BY <1>2, <1>4
  <2>2. PICK t : t = Tail(longer)
    OBVIOUS
  <2>3. t \in Seq(Urls) /\ Len(t) = Len(longer) - 1 /\ \A i \in 1..Len(t) : t[i] = longer[i + 1]
    BY <1>4, <2>1, <2>2, HeadTailProperties
  <2>4. ToSet(t) \subseteq ToSet(longer)
    <3>1. ASSUME NEW i \in 1..Len(t) PROVE t[i] \in ToSet(longer)
      <4>1. i + 1 \in 1..Len(longer) /\ t[i] = longer[i + 1]
        BY <2>1, <2>3
      <4> QED BY <1>4, <4>1 DEF ToSet
    <3> QED BY <2>3, <3>1 DEF ToSet
  <2>5. Len(h) \in Nat /\ Len(h) > 0
    BY <1>2, EmptySeq
  <2>6. Len(t) = Len(h) /\ t # <<>>
    BY <1>4, <2>3, <2>5
  <2> QED BY <1>1, <1>2, <1>5, <1>8, <2>2, <2>3, <2>4, <2>6
<1> QED BY <1>3, <1>6, <1>7, <1>8

\* The record an event leaves.
LEMMA ApplyIs ==
  ASSUME RecordFine(record), NEW event \in Event, Apply(event)
  PROVE  /\ RecordFine(record')
         /\ event.kind = "started" =>
              IF SameFailedUrl(event.url) THEN record' = record
              ELSE /\ record'.state = "started" /\ record'.url = event.url
                   /\ record'.history = record.history /\ record'.truncated = record.truncated
         /\ event.kind = "finished" =>
              IF record.state = "failed" THEN record' = record
              ELSE /\ record'.state = "loaded" /\ record'.url = event.url /\ record'.history = Visit(event.url)
                   /\ record'.truncated = (record.truncated \/ Head(Visit(event.url)) # Head(record.history))
         /\ event.kind = "failed" =>
              /\ record'.state = "failed" /\ record'.url = event.url
              /\ record'.history = record.history /\ record'.truncated = record.truncated
<1>1. PICK url : url = event.url
  OBVIOUS
<1>2. url \in Urls /\ event.kind \in {"started", "finished", "failed"}
  BY <1>1 DEF Event
<1>3. record \in RecordType /\ record.error = (record.state = "failed") /\ record.history # <<>>
      /\ Len(record.history) <= MaxHistory
  BY DEF RecordFine
<1>4. CASE event.kind = "started"
  <2>1. record' = PageStarted(url)
    BY <1>1, <1>4 DEF Apply
  <2>2. CASE SameFailedUrl(url)
    BY <1>1, <1>3, <1>4, <2>1, <2>2 DEF PageStarted, RecordFine
  <2>3. CASE ~SameFailedUrl(url)
    <3>1. record' = [record EXCEPT !.state = "started", !.error = FALSE, !.url = url]
      BY <2>1, <2>3 DEF PageStarted
    <3>2. /\ record' \in RecordType /\ record'.state = "started" /\ record'.error = FALSE /\ record'.url = url
          /\ record'.history = record.history /\ record'.truncated = record.truncated
      BY <1>2, <1>3, <3>1 DEF RecordType
    <3> QED BY <1>1, <1>3, <1>4, <2>3, <3>2 DEF RecordFine
  <2> QED BY <2>2, <2>3
<1>5. CASE event.kind = "finished"
  <2>1. record' = PageFinished(url)
    BY <1>1, <1>5 DEF Apply
  <2>2. CASE record.state = "failed"
    BY <1>3, <1>5, <2>1, <2>2 DEF PageFinished, RecordFine
  <2>3. CASE record.state # "failed"
    <3>1. PICK v, cut : v = Visit(url) /\ cut = (record.truncated \/ Head(v) # Head(record.history))
      OBVIOUS
    <3>2. v \in Seq(Urls) /\ v # <<>> /\ Len(v) <= MaxHistory
      BY <1>2, <3>1, VisitIs
    <3>3. record' = [record EXCEPT !.state = "loaded", !.url = url, !.history = v,
                                   !.truncated = @ \/ Head(v) # Head(record.history)]
      BY <1>3, <2>1, <2>3, <3>1 DEF PageFinished
    <3>4. /\ record' \in RecordType /\ record'.state = "loaded" /\ record'.error = record.error /\ record'.url = url
          /\ record'.history = v /\ record'.truncated = cut
      BY <1>2, <1>3, <3>1, <3>2, <3>3 DEF RecordType
    <3> QED BY <1>1, <1>3, <1>5, <2>3, <3>1, <3>2, <3>4 DEF RecordFine
  <2> QED BY <2>2, <2>3
<1>6. CASE event.kind = "failed"
  <2>1. record' = [record EXCEPT !.state = "failed", !.error = TRUE, !.url = url]
    BY <1>1, <1>6 DEF Apply, PageFailed
  <2>2. /\ record' \in RecordType /\ record'.state = "failed" /\ record'.error = TRUE /\ record'.url = url
        /\ record'.history = record.history /\ record'.truncated = record.truncated
    BY <1>2, <1>3, <2>1 DEF RecordType
  <2> QED BY <1>1, <1>3, <1>6, <2>2 DEF RecordFine
<1> QED BY <1>2, <1>4, <1>5, <1>6

\* What the story says of one event and the one before.
LEMMA StorySays ==
  ASSUME NEW said \in Seq(Event), NEW loads \in Seq(Outcome), Story(said, loads), NEW k \in 0..Len(said) - 1,
         NEW e, e = said[k + 1], NEW l, l = loads[e.load]
  PROVE  /\ e \in Event /\ e.load \in 1..Len(loads) /\ e.url = l.url
         /\ k = 0 => Begins(said, k + 1)
         /\ Begins(said, k + 1) => e.kind = "started"
         /\ Begins(said, k + 1) /\ k > 0 => said[k].load = e.load - 1 /\ ~Begins(said, k)
         /\ ~Begins(said, k + 1) => k > 0 /\ said[k].load = e.load /\ said[k].url = e.url
         /\ ~Begins(said, k + 1) /\ Begins(said, k) => e.kind = (IF l.ok THEN "finished" ELSE "failed")
         /\ ~Begins(said, k + 1) /\ ~Begins(said, k) => ~l.ok /\ e.kind # "failed"
         /\ k > 0 => said[k].load \in 1..Len(loads) /\ said[k].url = loads[said[k].load].url
<1>1. k + 1 \in 1..Len(said) /\ (k + 1) - 1 = k
  OBVIOUS
<1>2. /\ e.load \in 1..Len(loads) /\ e.url = l.url
      /\ Begins(said, k + 1) =>
           e.kind = "started" /\ (k + 1 > 1 => said[k].load = e.load - 1 /\ ~Begins(said, k))
      /\ ~Begins(said, k + 1) =>
           IF Begins(said, k) THEN e.kind = (IF l.ok THEN "finished" ELSE "failed")
           ELSE ~l.ok /\ e.kind # "failed"
  BY <1>1 DEF Story
<1>3. k > 0 => k \in 1..Len(said) /\ said[k].load \in 1..Len(loads) /\ said[k].url = loads[said[k].load].url
  BY DEF Story
<1>4. ~Begins(said, k + 1) => k > 0 /\ said[k].load = e.load
  BY <1>1 DEF Begins
<1>5. k = 0 => Begins(said, k + 1)
  BY <1>1 DEF Begins
<1>6. e \in Event
  BY <1>1
<1> QED BY <1>2, <1>3, <1>4, <1>5, <1>6

\* Events applied in order keep the record true to the story.
LEMMA ShowsNext ==
  ASSUME NEW said \in Seq(Event), NEW loads \in Seq(Outcome), Story(said, loads), NEW k \in 0..Len(said) - 1,
         RecordFine(record), Shows(record, said, loads, k), Apply(said[k + 1])
  PROVE  Shows(record', said, loads, k + 1)
<1>1. PICK e, d : e = said[k + 1] /\ d = said[k]
  OBVIOUS
<1>2. PICK l : l = loads[e.load]
  OBVIOUS
<1>3. /\ e \in Event /\ e.load \in 1..Len(loads) /\ e.url = l.url
      /\ k = 0 => Begins(said, k + 1)
      /\ Begins(said, k + 1) => e.kind = "started"
      /\ Begins(said, k + 1) /\ k > 0 => d.load = e.load - 1 /\ ~Begins(said, k)
      /\ ~Begins(said, k + 1) => k > 0 /\ d.load = e.load /\ d.url = e.url
      /\ ~Begins(said, k + 1) /\ Begins(said, k) => e.kind = (IF l.ok THEN "finished" ELSE "failed")
      /\ ~Begins(said, k + 1) /\ ~Begins(said, k) => ~l.ok /\ e.kind # "failed"
      /\ k > 0 => d.load \in 1..Len(loads) /\ d.url = loads[d.load].url
  BY <1>1, <1>2, StorySays
<1>4. /\ e.kind = "started" =>
           IF SameFailedUrl(e.url) THEN record' = record ELSE record'.state = "started" /\ record'.url = e.url
      /\ e.kind = "finished" =>
           IF record.state = "failed" THEN record' = record ELSE record'.state = "loaded" /\ record'.url = e.url
      /\ e.kind = "failed" => record'.state = "failed" /\ record'.url = e.url
  BY <1>1, <1>3, ApplyIs
<1>5. /\ k = 0 => record.state = "started"
      /\ k > 0 /\ ~loads[d.load].ok /\ ~Begins(said, k) => record.state = "failed" /\ record.url = d.url
      /\ k > 0 /\ ~Again(loads) =>
           /\ record.url = d.url
           /\ record.state = IF Begins(said, k) THEN "started" ELSE IF loads[d.load].ok THEN "loaded" ELSE "failed"
  BY <1>1 DEF Shows
<1>6. ~l.ok /\ ~Begins(said, k + 1) => record'.state = "failed" /\ record'.url = e.url
  <2>1. ASSUME ~l.ok, ~Begins(said, k + 1) PROVE record'.state = "failed" /\ record'.url = e.url
    <3>1. CASE Begins(said, k)
      BY <1>3, <1>4, <2>1, <3>1
    <3>2. CASE ~Begins(said, k)
      <4>1. record.state = "failed" /\ record.url = e.url
        BY <1>2, <1>3, <1>5, <2>1, <3>2
      <4>2. e.kind \in {"started", "finished"} /\ SameFailedUrl(e.url)
        BY <1>3, <2>1, <3>2, <4>1 DEF SameFailedUrl, Event
      <4> QED BY <1>4, <4>1, <4>2
    <3> QED BY <3>1, <3>2
  <2> QED BY <2>1
<1>7. ASSUME ~Again(loads)
      PROVE  /\ record'.url = e.url
             /\ record'.state = IF Begins(said, k + 1) THEN "started" ELSE IF l.ok THEN "loaded" ELSE "failed"
  <2>1. CASE Begins(said, k + 1)
    <3>1. ~SameFailedUrl(e.url)
      <4>1. CASE k = 0
        BY <1>5, <4>1 DEF SameFailedUrl
      <4>2. CASE k > 0
        <5>1. SUFFICES ASSUME record.state = "failed", record.url = e.url PROVE FALSE
          BY DEF SameFailedUrl
        <5>2. ~loads[d.load].ok /\ d.url = e.url
          BY <1>3, <1>5, <1>7, <2>1, <4>2, <5>1
        <5>3. e.load \in 2..Len(loads) /\ d.load = e.load - 1
          BY <1>3, <2>1, <4>2
        <5>4. ~loads[e.load - 1].ok /\ loads[e.load].url = loads[e.load - 1].url
          BY <1>2, <1>3, <4>2, <5>2, <5>3
        <5> QED BY <1>7, <5>3, <5>4 DEF Again
      <4> QED BY <4>1, <4>2
    <3> QED BY <1>3, <1>4, <2>1, <3>1
  <2>2. CASE ~Begins(said, k + 1) /\ ~l.ok
    BY <1>6, <2>2
  <2>3. CASE ~Begins(said, k + 1) /\ l.ok
    <3>1. e.kind = "finished" /\ Begins(said, k) /\ k > 0
      BY <1>3, <2>3
    <3>2. record.state = "started"
      BY <1>5, <1>7, <3>1
    <3> QED BY <1>4, <2>3, <3>1, <3>2
  <2> QED BY <2>1, <2>2, <2>3
<1>8. k + 1 # 0
  OBVIOUS
<1> QED BY <1>1, <1>2, <1>6, <1>7, <1>8 DEF Shows

\* They add no page that only failed to the timeline.
LEMMA TimelineNext ==
  ASSUME NEW said \in Seq(Event), NEW loads \in Seq(Outcome), Story(said, loads), NEW k \in 0..Len(said) - 1,
         RecordFine(record), Shows(record, said, loads, k), Timeline(record, loads), Apply(said[k + 1])
  PROVE  Timeline(record', loads)
<1>1. PICK e, d : e = said[k + 1] /\ d = said[k]
  OBVIOUS
<1>2. PICK l : l = loads[e.load]
  OBVIOUS
<1>3. /\ e \in Event /\ e.load \in 1..Len(loads) /\ e.url = l.url
      /\ Begins(said, k + 1) => e.kind = "started"
      /\ ~Begins(said, k + 1) => k > 0 /\ d.load = e.load /\ d.url = e.url
      /\ ~Begins(said, k + 1) /\ Begins(said, k) => e.kind = (IF l.ok THEN "finished" ELSE "failed")
      /\ ~Begins(said, k + 1) /\ ~Begins(said, k) => ~l.ok /\ e.kind # "failed"
  BY <1>1, <1>2, StorySays
<1>4. /\ e.kind = "started" =>
           record' = record \/ (record'.history = record.history /\ record'.truncated = record.truncated)
      /\ e.kind = "finished" =>
           IF record.state = "failed" THEN record' = record
           ELSE /\ record'.history = Visit(e.url)
                /\ record'.truncated = (record.truncated \/ Head(Visit(e.url)) # Head(record.history))
      /\ e.kind = "failed" => record'.history = record.history /\ record'.truncated = record.truncated
  BY <1>1, <1>3, ApplyIs
<1>5. CASE record'.history = record.history /\ record'.truncated = record.truncated
  BY <1>5 DEF Timeline
<1>6. CASE e.kind = "finished" /\ record.state # "failed"
  <2>1. l.ok
    <3>1. k > 0 /\ ~loads[d.load].ok /\ ~Begins(said, k) => record.state = "failed"
      BY <1>1 DEF Shows
    <3> QED BY <1>2, <1>3, <1>6, <3>1
  <2>2. PICK loaded : loaded = {loads[i].url : i \in {j \in DOMAIN loads : loads[j].ok}}
    OBVIOUS
  <2>3. e.url \in loaded
    BY <1>2, <1>3, <2>1, <2>2
  <2>4. e.url \in Urls
    BY <1>3 DEF Event
  <2>5. ToSet(Visit(e.url)) \subseteq ToSet(record.history) \union {e.url}
    BY <2>4, VisitIs
  <2>6. ToSet(record.history) \subseteq {Requested} \union loaded /\ (record.truncated \/ Head(record.history) = Requested)
    BY <2>2 DEF Timeline
  <2>7. ToSet(record'.history) \subseteq {Requested} \union loaded
    BY <1>4, <1>6, <2>3, <2>5, <2>6
  <2>8. record'.truncated \/ Head(record'.history) = Requested
    BY <1>4, <1>6, <2>6
  <2> QED BY <2>2, <2>7, <2>8 DEF Timeline
<1>7. e.kind \in {"started", "finished", "failed"}
  BY <1>3 DEF Event
<1> QED BY <1>4, <1>5, <1>6, <1>7

-----------------------------------------------------------------------------
\* The invariant of a page's record.

PageTypes ==
  /\ view \in [loads : Seq(Outcome), script : Seq(Event)]
  /\ gate \in [active : BOOLEAN, pending : Seq(Event)]
  /\ handed \in Seq(Event) /\ Len(handed) <= 1
  /\ replay \in Seq(Event) /\ reported \in Seq(Event) /\ applied \in Seq(Event)
  /\ RecordFine(record)
  /\ poll \in Seq(Urls) /\ polled \in BOOLEAN

\* What the view has reported and still has to report.
Said == reported \o view.script

NoneLost ==
  /\ Len(applied) + Len(handed) + Len(replay) + Len(gate.pending) = Len(reported)
  /\ \A event \in Event :
       Times(applied, event) + Times(handed, event) + Times(replay, event) + Times(gate.pending, event)
         = Times(reported, event)

PageInv ==
  /\ PageTypes
  /\ gate.active => gate.pending = <<>>
  /\ ~gate.active => replay = <<>>
  /\ Story(Said, view.loads)
  /\ NoneLost
  /\ Orderly => Shows(record, Said, view.loads, Len(applied)) /\ Timeline(record, view.loads)

LEMMA PageStarts == ASSUME PageInit PROVE PageInv
<1>1. PageTypes
  <2>1. RecordFine(record)
    <3>1. record = [state |-> "started", error |-> FALSE, url |-> Requested, history |-> <<Requested>>, truncated |-> FALSE]
      BY DEF PageInit
    <3>2. Requested \in Urls /\ MaxHistory \in Nat \ {0}
      BY PageAssumption
    <3>3. <<Requested>> \in Seq(Urls) /\ Len(<<Requested>>) = 1 /\ <<Requested>> # <<>>
      BY <3>2
    <3>4. record \in RecordType
      BY <3>1, <3>2, <3>3 DEF RecordType
    <3>5. record.error = (record.state = "failed") /\ record.history = <<Requested>>
      BY <3>1
    <3> QED BY <3>2, <3>3, <3>4, <3>5 DEF RecordFine
  <2>2. view \in [loads : Seq(Outcome), script : Seq(Event)] /\ gate \in [active : BOOLEAN, pending : Seq(Event)]
    BY PageAssumption DEF PageInit
  <2>3. /\ handed = <<>> /\ replay = <<>> /\ reported = <<>> /\ applied = <<>> /\ poll = <<>> /\ polled = FALSE
    BY DEF PageInit
  <2>4. \A S : <<>> \in Seq(S) /\ Len(<<>>) <= 1
    OBVIOUS
  <2> QED BY <2>1, <2>2, <2>3, <2>4 DEF PageTypes
<1>2. gate.pending = <<>> /\ view.loads = <<>> /\ view.script = <<>> /\ reported = <<>>
  BY DEF PageInit
<1>3. Story(Said, view.loads)
  <2>1. Said = <<>>
    BY <1>2 DEF Said
  <2> QED BY <1>2, <2>1 DEF Story
<1>4. NoneLost
  BY <1>2, TimesFew DEF PageInit, NoneLost
<1>5. Shows(record, Said, view.loads, Len(applied)) /\ Timeline(record, view.loads)
  <2>1. applied = <<>> /\ Len(applied) = 0
    BY DEF PageInit
  <2>2. record.state = "started" /\ record.history = <<Requested>>
    BY DEF PageInit
  <2>3. ToSet(<<Requested>>) = {Requested} /\ Head(<<Requested>>) = Requested
    BY DEF ToSet
  <2>4. Shows(record, Said, view.loads, Len(applied))
    BY <2>1, <2>2 DEF Shows
  <2>5. Timeline(record, view.loads)
    BY <2>2, <2>3 DEF Timeline
  <2> QED BY <2>4, <2>5
<1>6. replay = <<>>
  BY DEF PageInit
<1> QED BY <1>1, <1>2, <1>3, <1>4, <1>5, <1>6 DEF PageInv

\* The view makes a load: nothing is reported or applied.
LEMMA LoadStep == ASSUME PageInv, NEW url \in Urls, Load(url) PROVE PageInv'
<1>1. PICK loads, said, k : loads = view.loads /\ said = Said /\ k = Len(applied)
  OBVIOUS
<1>2. /\ loads \in Seq(Outcome) /\ said \in Seq(Event) /\ Story(said, loads) /\ k \in Nat /\ Len(loads) \in Nat
      /\ view.script = <<>> /\ said = reported
      /\ UNCHANGED <<gate, handed, replay, record, poll, polled, reported, applied>>
  <2>1. /\ loads \in Seq(Outcome) /\ reported \in Seq(Event) /\ view.script = <<>> /\ k \in Nat
        /\ UNCHANGED <<gate, handed, replay, record, poll, polled, reported, applied>>
    BY <1>1 DEF PageInv, PageTypes, Load
  <2>2. said = reported
    BY <1>1, <2>1 DEF Said
  <2> QED BY <1>1, <2>1, <2>2 DEF PageInv
<1>3. PICK script \in Scripts(url, Len(loads) + 1) :
        view' = [loads |-> Append(loads, [url |-> url, ok |-> Len(script) = 2]), script |-> script]
  BY <1>1 DEF Load, Loads, Scripts
<1>4. PICK made, later, now :
        made = [url |-> url, ok |-> Len(script) = 2] /\ later = Append(loads, made) /\ now = said \o script
  OBVIOUS
<1>5. script \in Seq(Event)
  <2>1. Len(loads) + 1 \in Nat
    BY <1>2
  <2> QED BY <2>1, ScriptIs
<1>6. /\ view'.loads = later /\ view'.script = script /\ Said' = now
      /\ made \in Outcome /\ later \in Seq(Outcome) /\ Len(later) = Len(loads) + 1
      /\ \A i \in 1..Len(loads) : later[i] = loads[i]
  <2>1. view'.loads = later /\ view'.script = script
    BY <1>3, <1>4
  <2>2. Said' = now
    BY <1>2, <1>4, <2>1 DEF Said
  <2>3. made \in Outcome
    BY <1>4 DEF Outcome
  <2> QED BY <1>2, <1>4, <2>1, <2>2, <2>3
<1>7. PageTypes'
  <2>1. view' \in [loads : Seq(Outcome), script : Seq(Event)]
    BY <1>3, <1>4, <1>5, <1>6
  <2> QED BY <1>2, <2>1 DEF PageInv, PageTypes, RecordFine
<1>8. Story(now, later)
  BY <1>2, <1>4, StoryGrows
<1>9. NoneLost'
  BY <1>2 DEF PageInv, NoneLost, Times
<1>10. Orderly' => Shows(record, now, later, k) /\ Timeline(record, later)
  <2> SUFFICES ASSUME Orderly' PROVE Shows(record, now, later, k) /\ Timeline(record, later)
    OBVIOUS
  <2>1. Orderly /\ IsPrefix(applied, said)
    BY <1>2 DEF Orderly
  <2>2. Shows(record, said, loads, k) /\ Timeline(record, loads)
    BY <1>1, <2>1 DEF PageInv
  <2>3. k <= Len(said)
    BY <1>1, <2>1 DEF IsPrefix
  <2>4. ~Again(later) => ~Again(loads)
    <3>1. ASSUME NEW i \in 2..Len(loads) PROVE i \in 2..Len(later) /\ later[i] = loads[i] /\ later[i - 1] = loads[i - 1]
      <4>1. i \in 1..Len(loads) /\ i - 1 \in 1..Len(loads)
        BY <1>2
      <4> QED BY <1>2, <1>6, <4>1
    <3> QED BY <3>1 DEF Again
  <2>5. Shows(record, now, later, k)
    <3>1. CASE k = 0
      BY <2>2, <3>1 DEF Shows
    <3>2. CASE k # 0
      <4>1. k \in 1..Len(said)
        BY <1>2, <2>3, <3>2
      <4>2. now[k] = said[k] /\ (Begins(now, k) <=> Begins(said, k))
        BY <1>2, <1>4, <1>5, <4>1, BeginsStays
      <4>3. said[k].load \in 1..Len(loads)
        BY <1>2, <4>1 DEF Story
      <4>4. later[said[k].load] = loads[said[k].load]
        BY <1>6, <4>3
      <4> QED BY <2>2, <2>4, <3>2, <4>2, <4>4 DEF Shows
    <3> QED BY <3>1, <3>2
  <2>6. {loads[i].url : i \in {j \in DOMAIN loads : loads[j].ok}}
          \subseteq {later[i].url : i \in {j \in DOMAIN later : later[j].ok}}
    <3>1. ASSUME NEW i \in DOMAIN loads PROVE i \in DOMAIN later /\ later[i] = loads[i]
      BY <1>2, <1>6
    <3> QED BY <3>1
  <2>7. Timeline(record, later)
    BY <2>2, <2>6 DEF Timeline
  <2> QED BY <2>5, <2>7
<1>11. (gate'.active => gate'.pending = <<>>) /\ (~gate'.active => replay' = <<>>)
  BY <1>2 DEF PageInv
<1>12. record' = record /\ Len(applied') = k
  BY <1>1, <1>2
<1> QED BY <1>6, <1>7, <1>8, <1>9, <1>10, <1>11, <1>12 DEF PageInv

\* The view reports an event: to the gate, or past it.
LEMMA HandEventStep == ASSUME PageInv, HandEvent PROVE PageInv'
<1>1. PICK script, event : script = view.script /\ event = Head(script)
  OBVIOUS
<1>2. /\ script \in Seq(Event) /\ script # <<>> /\ event \in Event /\ Tail(script) \in Seq(Event) /\ handed = <<>>
      /\ view \in [loads : Seq(Outcome), script : Seq(Event)] /\ view' = [view EXCEPT !.script = Tail(@)]
      /\ reported \in Seq(Event) /\ reported' = Append(reported, event)
      /\ UNCHANGED <<replay, record, poll, polled, applied>>
  <2>1. /\ script \in Seq(Event) /\ script # <<>> /\ handed = <<>>
        /\ view \in [loads : Seq(Outcome), script : Seq(Event)] /\ view' = [view EXCEPT !.script = Tail(@)]
        /\ reported \in Seq(Event) /\ reported' = Append(reported, event)
        /\ UNCHANGED <<replay, record, poll, polled, applied>>
    BY <1>1 DEF PageInv, PageTypes, HandEvent
  <2> QED BY <1>1, <2>1, HeadTailProperties
<1>3. PICK pending : pending = gate.pending
  OBVIOUS
<1>4. /\ pending \in Seq(Event) /\ gate \in [active : BOOLEAN, pending : Seq(Event)]
      /\ \/ gate.active /\ pending = <<>> /\ handed' = <<event>> /\ gate' = gate
         \/ ~gate.active /\ handed' = handed /\ gate' = [gate EXCEPT !.pending = Append(pending, event)]
  BY <1>1, <1>3 DEF PageInv, PageTypes, HandEvent
<1>5. /\ gate' \in [active : BOOLEAN, pending : Seq(Event)] /\ (gate'.active => gate'.pending = <<>>)
      /\ handed' \in Seq(Event) /\ Len(handed') <= 1
      /\ \/ handed' = <<event>> /\ gate'.pending = pending
         \/ handed' = <<>> /\ gate'.pending = Append(pending, event)
  <2>1. CASE gate.active /\ pending = <<>> /\ handed' = <<event>> /\ gate' = gate
    <3>1. <<event>> \in Seq(Event) /\ Len(<<event>>) = 1
      BY <1>2
    <3>2. handed' \in Seq(Event) /\ Len(handed') <= 1
      BY <2>1, <3>1
    <3>3. /\ gate' \in [active : BOOLEAN, pending : Seq(Event)] /\ gate'.pending = pending
          /\ (gate'.active => gate'.pending = <<>>)
      BY <1>3, <1>4, <2>1
    <3> QED BY <2>1, <3>2, <3>3
  <2>2. CASE ~gate.active /\ handed' = handed /\ gate' = [gate EXCEPT !.pending = Append(pending, event)]
    <3>0. PICK more : more = Append(pending, event)
      OBVIOUS
    <3>1. /\ gate' \in [active : BOOLEAN, pending : Seq(Event)] /\ ~gate'.active
          /\ gate'.pending = Append(pending, event)
      <4>1. more \in Seq(Event) /\ gate' = [gate EXCEPT !.pending = more]
        BY <1>2, <1>4, <2>2, <3>0
      <4>2. gate' \in [active : BOOLEAN, pending : Seq(Event)] /\ ~gate'.active /\ gate'.pending = more
        BY <1>4, <2>2, <4>1
      <4> QED BY <3>0, <4>2
    <3>2. handed' = <<>> /\ <<>> \in Seq(Event) /\ Len(<<>>) = 0
      BY <1>2, <2>2
    <3> QED BY <3>1, <3>2
  <2> QED BY <1>4, <2>1, <2>2
<1>6. view'.loads = view.loads /\ view'.script = Tail(script) /\ view' \in [loads : Seq(Outcome), script : Seq(Event)]
  BY <1>1, <1>2
<1>7. Said' = Said
  <2>1. Said' = Append(reported, event) \o Tail(script)
    BY <1>2, <1>6 DEF Said
  <2>2. Append(reported, Head(script)) \o Tail(script) = reported \o script
    BY <1>2, SaidStays
  <2> QED BY <1>1, <2>1, <2>2 DEF Said
<1>8. PageTypes'
  <2>1. reported' \in Seq(Event)
    BY <1>2
  <2> QED BY <1>2, <1>5, <1>6, <2>1 DEF PageInv, PageTypes, RecordFine
<1>9. NoneLost'
  <2>1. /\ Len(applied) \in Nat /\ Len(replay) \in Nat /\ Len(reported) \in Nat /\ Len(pending) \in Nat
        /\ Len(applied) + 0 + Len(replay) + Len(pending) = Len(reported)
    <3>1. applied \in Seq(Event) /\ replay \in Seq(Event)
      BY DEF PageInv, PageTypes
    <3>2. Len(applied) + Len(handed) + Len(replay) + Len(pending) = Len(reported)
      BY <1>3 DEF PageInv, NoneLost
    <3>3. Len(handed) = 0
      BY <1>2
    <3> QED BY <1>2, <1>4, <3>1, <3>2, <3>3
  <2>2. Len(applied') = Len(applied) /\ Len(replay') = Len(replay) /\ Len(reported') = Len(reported) + 1
    BY <1>2
  <2>3. \/ Len(handed') = 1 /\ Len(gate'.pending) = Len(pending)
        \/ Len(handed') = 0 /\ Len(gate'.pending) = Len(pending) + 1
    <3>1. Len(<<event>>) = 1 /\ Len(<<>>) = 0 /\ Len(Append(pending, event)) = Len(pending) + 1
      BY <1>2, <1>4
    <3> QED BY <1>5, <3>1
  <2>4. Len(applied') + Len(handed') + Len(replay') + Len(gate'.pending) = Len(reported')
    <3>1. PICK a, r, p, t \in Nat :
            a = Len(applied) /\ r = Len(replay) /\ p = Len(pending) /\ t = Len(reported) /\ a + 0 + r + p = t
      BY <2>1
    <3>2. a + 1 + r + p = t + 1 /\ a + 0 + r + (p + 1) = t + 1
      BY <3>1
    <3>3. CASE Len(handed') = 1 /\ Len(gate'.pending) = Len(pending)
      BY <2>2, <3>1, <3>2, <3>3
    <3>4. CASE Len(handed') = 0 /\ Len(gate'.pending) = Len(pending) + 1
      BY <2>2, <3>1, <3>2, <3>4
    <3> QED BY <2>3, <3>3, <3>4
  <2>5. ASSUME NEW e \in Event
        PROVE  Times(applied', e) + Times(handed', e) + Times(replay', e) + Times(gate'.pending, e) = Times(reported', e)
    <3>1. PICK one : one = IF event = e THEN 1 ELSE 0
      OBVIOUS
    <3>2. one \in Nat
      BY <3>1
    <3>3. PICK a, r, p, t \in Nat : a = Times(applied, e) /\ r = Times(replay, e) /\ p = Times(pending, e) /\ t = Times(reported, e)
      <4>1. applied \in Seq(Event) /\ replay \in Seq(Event)
        BY DEF PageInv, PageTypes
      <4> QED BY <1>2, <1>4, <4>1, TimesAppend
    <3>4. a + 0 + r + p = t
      BY <1>2, <1>3, <3>3, TimesFew DEF PageInv, NoneLost
    <3>5. Times(reported', e) = t + one
      BY <1>2, <3>1, <3>3, TimesAppend
    <3>6. Times(Append(pending, event), e) = p + one
      BY <1>2, <1>4, <3>1, <3>3, TimesAppend
    <3>7. Times(<<>>, e) = 0 /\ Times(<<event>>, e) = one
      BY <3>1, TimesFew
    <3>8. Times(applied', e) = a /\ Times(replay', e) = r
      BY <1>2, <3>3
    <3>9. CASE handed' = <<event>> /\ gate'.pending = pending
      BY <3>2, <3>3, <3>4, <3>5, <3>7, <3>8, <3>9
    <3>10. CASE handed' = <<>> /\ gate'.pending = Append(pending, event)
      BY <3>2, <3>3, <3>4, <3>5, <3>6, <3>7, <3>8, <3>10
    <3> QED BY <1>5, <3>9, <3>10
  <2>6. \A e \in Event : Times(applied, e)' = Times(applied', e) /\ Times(handed, e)' = Times(handed', e)
          /\ Times(replay, e)' = Times(replay', e) /\ Times(gate.pending, e)' = Times(gate'.pending, e)
          /\ Times(reported, e)' = Times(reported', e)
    BY DEF Times
  <2> QED BY <2>4, <2>5, <2>6 DEF NoneLost
<1>10. Orderly' => Orderly
  <2>1. Len(applied) <= Len(reported) /\ applied \in Seq(Event)
    BY <1>2, <1>4 DEF PageInv, PageTypes, NoneLost
  <2> QED BY <1>2, <2>1, PrefixShort DEF Orderly
<1>11. record' = record /\ applied' = applied
  BY <1>2
<1>12. ~gate'.active => replay' = <<>>
  <2>1. gate'.active <=> gate.active
    BY <1>4
  <2> QED BY <1>2, <2>1 DEF PageInv
<1> QED BY <1>5, <1>6, <1>7, <1>8, <1>9, <1>10, <1>11, <1>12 DEF PageInv

\* The record takes an event; it is the next of the story if it is the next of what was reported.
LEMMA TakesNext ==
  ASSUME PageInv, NEW event \in Event, Apply(event), UNCHANGED <<view, reported, polled>>
  PROVE  /\ RecordFine(record') /\ applied' = Append(applied, event) /\ applied' \in Seq(Event) /\ Said' = Said
         /\ Orderly' => Shows(record', Said, view.loads, Len(applied')) /\ Timeline(record', view.loads)
<1>1. PICK loads, said, k : loads = view.loads /\ said = Said /\ k = Len(applied)
  OBVIOUS
<1>2. /\ applied \in Seq(Event) /\ reported \in Seq(Event) /\ view.script \in Seq(Event) /\ loads \in Seq(Outcome)
      /\ RecordFine(record) /\ Story(said, loads) /\ k \in Nat
  BY <1>1 DEF PageInv, PageTypes
<1>3. RecordFine(record')
  BY <1>2, ApplyIs
<1>4. applied' = Append(applied, event) /\ applied' \in Seq(Event) /\ Len(applied') = k + 1
  BY <1>1, <1>2 DEF Apply
<1>5. Said' = Said
  BY DEF Said
<1>6. ASSUME Orderly' PROVE Shows(record', said, loads, k + 1) /\ Timeline(record', loads)
  <2>1. IsPrefix(Append(applied, event), reported) /\ ~polled
    BY <1>4, <1>6 DEF Orderly
  <2>2. IsPrefix(applied, reported) /\ k + 1 \in 1..Len(reported) /\ reported[k + 1] = event
    BY <1>1, <1>2, <2>1, PrefixAppend
  <2>3. Shows(record, said, loads, k) /\ Timeline(record, loads)
    BY <1>1, <2>1, <2>2 DEF PageInv, Orderly
  <2>4. said \in Seq(Event) /\ k \in 0..Len(said) - 1 /\ said[k + 1] = event
    <3>1. said \in Seq(Event) /\ Len(said) = Len(reported) + Len(view.script) /\ said[k + 1] = reported[k + 1]
      BY <1>1, <1>2, <2>2, BeginsStays DEF Said
    <3>2. Len(reported) \in Nat /\ Len(view.script) \in Nat
      BY <1>2
    <3> QED BY <1>2, <2>2, <3>1, <3>2
  <2>5. Apply(said[k + 1])
    BY <2>4
  <2> QED BY <1>2, <2>3, <2>4, <2>5, ShowsNext, TimelineNext
<1> QED BY <1>1, <1>3, <1>4, <1>5, <1>6

LEMMA ApplyHandedStep == ASSUME PageInv, ApplyHanded PROVE PageInv'
<1>1. PICK event : event = Head(handed)
  OBVIOUS
<1>2. /\ handed \in Seq(Event) /\ Len(handed) <= 1 /\ handed # <<>> /\ Apply(event) /\ handed' = <<>>
      /\ UNCHANGED <<view, gate, replay, poll, polled, reported>>
  BY <1>1 DEF PageInv, PageTypes, ApplyHanded
<1>3. event \in Event /\ Len(handed) = 1 /\ Tail(handed) = <<>>
  <2>1. event \in Event /\ Tail(handed) \in Seq(Event) /\ Len(Tail(handed)) = Len(handed) - 1
    BY <1>1, <1>2, HeadTailProperties
  <2>2. Len(handed) = 1
    <3>1. PICK n \in Nat : n = Len(handed)
      BY <1>2
    <3>2. n # 0 /\ n <= 1
      BY <1>2, <3>1, EmptySeq
    <3>3. n = 1
      BY <3>2
    <3> QED BY <3>1, <3>3
  <2>3. Len(Tail(handed)) = 0
    BY <2>1, <2>2
  <2> QED BY <2>1, <2>2, <2>3, EmptySeq
<1>4. /\ RecordFine(record') /\ applied' = Append(applied, event) /\ applied' \in Seq(Event) /\ Said' = Said
      /\ Orderly' => Shows(record', Said, view.loads, Len(applied')) /\ Timeline(record', view.loads)
  BY <1>2, <1>3, TakesNext
<1>5. PageTypes'
  <2>1. RecordFine(record)'
    BY <1>4 DEF RecordFine, RecordType
  <2>2. handed' \in Seq(Event) /\ Len(handed') <= 1
    BY <1>2
  <2> QED BY <1>2, <1>4, <2>1, <2>2 DEF PageInv, PageTypes
<1>6. NoneLost'
  <2>1. applied \in Seq(Event) /\ replay \in Seq(Event) /\ gate.pending \in Seq(Event) /\ reported \in Seq(Event)
    BY DEF PageInv, PageTypes
  <2>2. Len(applied') + Len(handed') + Len(replay') + Len(gate'.pending) = Len(reported')
    <3>1. Len(applied') = Len(applied) + 1 /\ Len(handed') = 0
      BY <1>2, <1>4, <2>1
    <3>2. Len(applied) + 1 + Len(replay) + Len(gate.pending) = Len(reported)
      BY <1>3 DEF PageInv, NoneLost
    <3>3. PICK a, r, p \in Nat : a = Len(applied) /\ r = Len(replay) /\ p = Len(gate.pending)
      BY <2>1
    <3>4. Len(applied') = a + 1 /\ Len(replay') = r /\ Len(gate'.pending) = p /\ Len(reported') = a + 1 + r + p
      BY <1>2, <3>1, <3>2, <3>3
    <3> QED BY <3>1, <3>3, <3>4
  <2>3. ASSUME NEW e \in Event
        PROVE  Times(applied', e) + Times(handed', e) + Times(replay', e) + Times(gate'.pending, e) = Times(reported', e)
    <3>1. PICK one \in Nat : one = IF event = e THEN 1 ELSE 0
      OBVIOUS
    <3>2. PICK a, r, p, t \in Nat : a = Times(applied, e) /\ r = Times(replay, e) /\ p = Times(gate.pending, e) /\ t = Times(reported, e)
      BY <1>3, <2>1, TimesAppend
    <3>3. Times(handed, e) = one
      <4>1. Times(handed, e) = Times(<<>>, e) + IF event = e THEN 1 ELSE 0
        BY <1>1, <1>2, <1>3, TimesTail
      <4> QED BY <3>1, <4>1, TimesFew
    <3>4. a + one + r + p = t
      BY <3>2, <3>3 DEF PageInv, NoneLost
    <3>5. Times(applied', e) = a + one /\ Times(handed', e) = 0
      BY <1>2, <1>3, <1>4, <2>1, <3>1, <3>2, TimesAppend, TimesFew
    <3>6. Times(replay', e) = r /\ Times(gate'.pending, e) = p /\ Times(reported', e) = t
      BY <1>2, <3>2
    <3> QED BY <3>1, <3>2, <3>4, <3>5, <3>6
  <2> QED BY <2>2, <2>3 DEF NoneLost, Times
<1> QED BY <1>2, <1>4, <1>5, <1>6 DEF PageInv

LEMMA ReplayStep == ASSUME PageInv, Replay PROVE PageInv'
<1>1. PICK event, rest : event = Head(replay) /\ rest = Tail(replay)
  OBVIOUS
<1>2. /\ replay \in Seq(Event) /\ replay # <<>> /\ Apply(event) /\ replay' = rest
      /\ UNCHANGED <<view, gate, handed, poll, polled, reported>>
  BY <1>1 DEF PageInv, PageTypes, Replay
<1>3. event \in Event /\ rest \in Seq(Event) /\ Len(replay) = Len(rest) + 1
  <2>1. event \in Event /\ rest \in Seq(Event) /\ Len(rest) = Len(replay) - 1
    BY <1>1, <1>2, HeadTailProperties
  <2> QED BY <1>2, <2>1
<1>4. /\ RecordFine(record') /\ applied' = Append(applied, event) /\ applied' \in Seq(Event) /\ Said' = Said
      /\ Orderly' => Shows(record', Said, view.loads, Len(applied')) /\ Timeline(record', view.loads)
  BY <1>2, <1>3, TakesNext
<1>5. PageTypes'
  <2>1. RecordFine(record)'
    BY <1>4 DEF RecordFine, RecordType
  <2> QED BY <1>2, <1>3, <1>4, <2>1 DEF PageInv, PageTypes
<1>6. NoneLost'
  <2>1. applied \in Seq(Event) /\ handed \in Seq(Event) /\ gate.pending \in Seq(Event) /\ reported \in Seq(Event)
    BY DEF PageInv, PageTypes
  <2>2. Len(applied') + Len(handed') + Len(replay') + Len(gate'.pending) = Len(reported')
    <3>1. Len(applied') = Len(applied) + 1 /\ Len(replay') = Len(rest)
      BY <1>2, <1>4, <2>1
    <3>2. Len(applied) + Len(handed) + (Len(rest) + 1) + Len(gate.pending) = Len(reported)
      BY <1>3 DEF PageInv, NoneLost
    <3>3. PICK a, h, r, p \in Nat : a = Len(applied) /\ h = Len(handed) /\ r = Len(rest) /\ p = Len(gate.pending)
      BY <1>3, <2>1
    <3>4. /\ Len(applied') = a + 1 /\ Len(handed') = h /\ Len(replay') = r /\ Len(gate'.pending) = p
          /\ Len(reported') = a + h + (r + 1) + p
      BY <1>2, <3>1, <3>2, <3>3
    <3>5. (a + 1) + h + r + p = a + h + (r + 1) + p
      OBVIOUS
    <3> QED BY <3>4, <3>5
  <2>3. ASSUME NEW e \in Event
        PROVE  Times(applied', e) + Times(handed', e) + Times(replay', e) + Times(gate'.pending, e) = Times(reported', e)
    <3>1. PICK one \in Nat : one = IF event = e THEN 1 ELSE 0
      OBVIOUS
    <3>2. PICK a, h, r, p, t \in Nat :
            a = Times(applied, e) /\ h = Times(handed, e) /\ r = Times(rest, e) /\ p = Times(gate.pending, e)
              /\ t = Times(reported, e)
      BY <1>3, <2>1, TimesAppend
    <3>3. Times(replay, e) = r + one
      <4>1. Times(replay, e) = Times(rest, e) + IF event = e THEN 1 ELSE 0
        BY <1>1, <1>2, TimesTail
      <4> QED BY <3>1, <3>2, <4>1
    <3>4. a + h + (r + one) + p = t
      BY <3>2, <3>3 DEF PageInv, NoneLost
    <3>5. Times(applied', e) = a + one
      <4>1. Times(Append(applied, event), e) = Times(applied, e) + IF event = e THEN 1 ELSE 0
        BY <1>3, <2>1, TimesAppend
      <4> QED BY <1>4, <3>1, <3>2, <4>1
    <3>6. Times(handed', e) = h /\ Times(replay', e) = r /\ Times(gate'.pending, e) = p /\ Times(reported', e) = t
      BY <1>2, <3>2
    <3> QED BY <3>1, <3>2, <3>4, <3>5, <3>6
  <2> QED BY <2>2, <2>3 DEF NoneLost, Times
<1>7. gate'.active
  BY <1>2 DEF PageInv
<1> QED BY <1>2, <1>4, <1>5, <1>6, <1>7 DEF PageInv
LEMMA ActivateStep == ASSUME PageInv, Activate PROVE PageInv'
<1>1. PICK pending : pending = gate.pending
  OBVIOUS
<1>2. /\ pending \in Seq(Event) /\ replay = <<>> /\ replay' = pending
      /\ gate' = [active |-> TRUE, pending |-> <<>>]
      /\ UNCHANGED <<view, handed, record, poll, polled, reported, applied>>
  BY <1>1 DEF PageInv, PageTypes, Activate
<1>3. gate' \in [active : BOOLEAN, pending : Seq(Event)] /\ gate'.active /\ gate'.pending = <<>>
  BY <1>2
<1>4. PageTypes'
  BY <1>2, <1>3 DEF PageInv, PageTypes, RecordFine
<1>5. NoneLost'
  <2>1. Len(applied') + Len(handed') + Len(replay') + Len(gate'.pending) = Len(reported')
    <3>1. PICK a, h, p \in Nat : a = Len(applied) /\ h = Len(handed) /\ p = Len(pending)
      BY <1>2 DEF PageInv, PageTypes
    <3>2. a + h + 0 + p = Len(reported)
      BY <1>1, <1>2, <3>1 DEF PageInv, NoneLost
    <3>3. Len(applied') = a /\ Len(handed') = h /\ Len(replay') = p /\ Len(gate'.pending) = 0 /\ Len(reported') = Len(reported)
      BY <1>2, <1>3, <3>1
    <3>4. a + h + p + 0 = a + h + 0 + p
      OBVIOUS
    <3> QED BY <3>2, <3>3, <3>4
  <2>2. ASSUME NEW e \in Event
        PROVE  Times(applied', e) + Times(handed', e) + Times(replay', e) + Times(gate'.pending, e) = Times(reported', e)
    <3>1. PICK a, h, p \in Nat : a = Times(applied, e) /\ h = Times(handed, e) /\ p = Times(pending, e)
      <4>1. applied \in Seq(Event) /\ handed \in Seq(Event)
        BY DEF PageInv, PageTypes
      <4>2. \A s \in Seq(Event) : Times(s, e) \in Nat
        BY TimesAppend
      <4> QED BY <1>2, <4>1, <4>2
    <3>2. a + h + 0 + p = Times(reported, e)
      BY <1>1, <1>2, <3>1, TimesFew DEF PageInv, NoneLost
    <3>3. /\ Times(applied', e) = a /\ Times(handed', e) = h /\ Times(replay', e) = p /\ Times(gate'.pending, e) = 0
          /\ Times(reported', e) = Times(reported, e)
      BY <1>2, <1>3, <3>1, TimesFew
    <3>4. a + h + p + 0 = a + h + 0 + p
      OBVIOUS
    <3> QED BY <3>2, <3>3, <3>4
  <2> QED BY <2>1, <2>2 DEF NoneLost, Times
<1>6. Said' = Said
  BY <1>2 DEF Said
<1>7. Orderly' => Orderly
  BY <1>2 DEF Orderly
<1> QED BY <1>2, <1>3, <1>4, <1>5, <1>6, <1>7 DEF PageInv

LEMMA ReadPolledStep == ASSUME PageInv, ReadPolled PROVE PageInv'
<1>1. view.loads \in Seq(Outcome) /\ view.loads # <<>>
  BY DEF PageInv, PageTypes, ReadPolled
<1>2. LastLoad.url \in Urls
  <2>1. Len(view.loads) \in 1..Len(view.loads)
    BY <1>1, EmptySeq
  <2>2. LastLoad \in Outcome
    BY <1>1, <2>1 DEF LastLoad, Last
  <2> QED BY <2>2 DEF Outcome
<1>3. poll' \in Seq(Urls) /\ UNCHANGED <<view, gate, handed, replay, record, polled, reported, applied>>
  BY <1>2 DEF ReadPolled
<1>4. PageTypes'
  BY <1>3 DEF PageInv, PageTypes, RecordFine
<1>5. NoneLost' /\ Said' = Said /\ (Orderly' => Orderly)
  BY <1>3 DEF PageInv, NoneLost, Times, Said, Orderly
<1> QED BY <1>3, <1>4, <1>5 DEF PageInv

LEMMA RecordPolledStep == ASSUME PageInv, RecordPolled PROVE PageInv'
<1>1. PICK url : url = Head(poll)
  OBVIOUS
<1>2. /\ poll \in Seq(Urls) /\ poll # <<>> /\ record' = [record EXCEPT !.url = url] /\ poll' = <<>> /\ polled' = TRUE
      /\ UNCHANGED <<view, gate, handed, replay, reported, applied>>
  BY <1>1 DEF PageInv, PageTypes, RecordPolled
<1>3. url \in Urls
  BY <1>1, <1>2, HeadTailProperties
<1>4. RecordFine(record')
  <2>1. record \in RecordType /\ RecordFine(record)
    BY DEF PageInv, PageTypes, RecordFine
  <2>2. /\ record' \in RecordType /\ record'.state = record.state /\ record'.error = record.error
        /\ record'.history = record.history
    BY <1>2, <1>3, <2>1 DEF RecordType
  <2> QED BY <2>1, <2>2 DEF RecordFine
<1>5. PageTypes'
  <2>1. RecordFine(record)'
    BY <1>4 DEF RecordFine, RecordType
  <2>2. poll' \in Seq(Urls) /\ polled' \in BOOLEAN
    BY <1>2
  <2> QED BY <1>2, <2>1, <2>2 DEF PageInv, PageTypes
<1>6. NoneLost' /\ Said' = Said /\ ~Orderly'
  BY <1>2 DEF PageInv, NoneLost, Times, Said, Orderly
<1> QED BY <1>2, <1>5, <1>6 DEF PageInv

THEOREM PageInvariant == PageSpec => []PageInv
<1>1. PageInit => PageInv
  BY PageStarts
<1>2. PageInv /\ [PageNext]_pageLoadVars => PageInv'
  <2> SUFFICES ASSUME PageInv, [PageNext]_pageLoadVars PROVE PageInv'
    OBVIOUS
  <2>1. ASSUME NEW url \in Urls, Load(url) PROVE PageInv'
    BY <2>1, LoadStep
  <2>2. CASE HandEvent
    BY <2>2, HandEventStep
  <2>3. CASE ApplyHanded
    BY <2>3, ApplyHandedStep
  <2>4. CASE Activate
    BY <2>4, ActivateStep
  <2>5. CASE Replay
    BY <2>5, ReplayStep
  <2>6. CASE ReadPolled
    BY <2>6, ReadPolledStep
  <2>7. CASE RecordPolled
    BY <2>7, RecordPolledStep
  <2>8. CASE UNCHANGED pageLoadVars
    <3>1. UNCHANGED <<view, gate, handed, replay, record, poll, polled, reported, applied>>
      BY <2>8 DEF pageLoadVars
    <3>2. PageTypes'
      BY <3>1 DEF PageInv, PageTypes, RecordFine
    <3>3. NoneLost' /\ Said' = Said /\ (Orderly' => Orderly)
      BY <3>1 DEF PageInv, NoneLost, Times, Said, Orderly
    <3> QED BY <3>1, <3>2, <3>3 DEF PageInv
  <2> QED BY <2>1, <2>2, <2>3, <2>4, <2>5, <2>6, <2>7, <2>8 DEF PageNext
<1> QED BY <1>1, <1>2, PTL DEF PageSpec

\* The types of a view, its gate and its record (WindowRecord, ObservationGate).
THEOREM PageTypesHold == PageSpec => []PageTypeOK
<1>1. PageInv => PageTypeOK
  <2> SUFFICES ASSUME PageInv PROVE PageTypeOK
    OBVIOUS
  <2>1. record \in RecordType /\ record.error = (record.state = "failed") /\ Len(record.history) <= MaxHistory
    BY DEF PageInv, PageTypes, RecordFine
  <2>2. view.loads \in Seq([url : Urls, ok : BOOLEAN]) /\ view.script \in Seq(Event)
    BY DEF PageInv, PageTypes, Outcome
  <2>3. gate.active \in BOOLEAN /\ gate.pending \in Seq(Event)
    BY DEF PageInv, PageTypes
  <2>4. handed \in Seq(Event) /\ Len(handed) <= 1 /\ replay \in Seq(Event) /\ poll \in Seq(Urls) /\ polled \in BOOLEAN
    BY DEF PageInv, PageTypes
  <2>5. /\ record.state \in {"started", "loaded", "failed"} /\ record.url \in Urls /\ record.history \in Seq(Urls)
        /\ record.truncated \in BOOLEAN
    BY <2>1 DEF RecordType
  <2> QED BY <2>1, <2>2, <2>3, <2>4, <2>5 DEF PageTypeOK
<1> QED BY <1>1, PageInvariant, PTL

\* Events applied in the order they were reported leave the record with the last load and its
\* outcome, whatever error pages followed a failure (record_page_started, _finished and _failed).
THEOREM OrderlyRecordsAreLive == PageSpec => []OrderlyIsLive
<1>1. PageInv => OrderlyIsLive
  <2> SUFFICES ASSUME PageInv, Settled, Orderly, ~Retried
               PROVE  /\ record.url = LastLoad.url
                      /\ record.state = (IF LastLoad.ok THEN "loaded" ELSE "failed")
    BY DEF OrderlyIsLive
  <2>1. PICK loads, said, k : loads = view.loads /\ said = Said /\ k = Len(applied)
    OBVIOUS
  <2>2. /\ loads \in Seq(Outcome) /\ loads # <<>> /\ reported \in Seq(Event) /\ applied \in Seq(Event)
        /\ Story(said, loads) /\ Shows(record, said, loads, k)
    BY <2>1 DEF PageInv, PageTypes, Settled
  <2>3. said = reported
    BY <2>1, <2>2 DEF Said, Settled
  <2>4. k = Len(reported)
    <3>1. handed = <<>> /\ replay = <<>> /\ gate.pending = <<>> /\ Len(applied) \in Nat
      BY <2>2 DEF PageInv, Settled
    <3> QED BY <2>1, <3>1 DEF PageInv, NoneLost
  <2>5. said # <<>> /\ said[k].load = Len(loads) /\ ~Begins(said, k)
    BY <2>2, <2>3, <2>4 DEF Story, Last
  <2>6. k # 0 /\ k \in 1..Len(said)
    <3>1. Len(said) \in Nat /\ Len(said) # 0
      BY <2>2, <2>3, <2>5, EmptySeq
    <3> QED BY <2>3, <2>4, <3>1
  <2>7. said[k].url = loads[Len(loads)].url
    BY <2>2, <2>5, <2>6 DEF Story
  <2>8. ~Again(loads)
    BY <2>1 DEF Retried, Loads, Again
  <2>9. LastLoad = loads[Len(loads)]
    BY <2>1 DEF LastLoad, Last
  <2> QED BY <2>2, <2>5, <2>6, <2>7, <2>8, <2>9 DEF Shows
<1> QED BY <1>1, PageInvariant, PTL

\* No event is lost or applied twice at whatever moment the gate is opened, and events applied in
\* order leave a timeline of pages that loaded (record_or_buffer, activate_observations, trim_url_history).
THEOREM TimelinesAreTrue == PageSpec => []TimelineIsTrue
<1>1. PageInv => TimelineIsTrue
  <2> SUFFICES ASSUME PageInv PROVE TimelineIsTrue
    OBVIOUS
  <2>1. EventsKept
    <3>1. /\ applied \in Seq(Event) /\ handed \in Seq(Event) /\ replay \in Seq(Event) /\ gate.pending \in Seq(Event)
          /\ reported \in Seq(Event)
      BY DEF PageInv, PageTypes
    <3>2. PICK all \in Seq(Event) : all = applied \o handed \o replay \o gate.pending \o reported
      <4>1. \A s, t \in Seq(Event) : s \o t \in Seq(Event)
        OBVIOUS
      <4> QED BY <3>1, <4>1
    <3>3. ToSet(all) \subseteq Event
      BY DEF ToSet
    <3> QED BY <3>2, <3>3 DEF EventsKept, PageInv, NoneLost
  <2>2. Orderly => Timeline(record, view.loads)
    BY DEF PageInv
  <2> QED BY <2>1, <2>2 DEF TimelineIsTrue, Timeline
<1> QED BY <1>1, PageInvariant, PTL

-----------------------------------------------------------------------------
(* Interaction: the inductive invariant *)

WorkType ==
  [at : {"next", "evaluating", "observe", "cutting", "returned"}, tries : 0..MaxPolls - 1, expired : BOOLEAN]
ScriptType == [b : Batches, i : Nat \ {0}, try : Nat]
RunType == [b : Batches, i : Nat \ {0}, try : Nat, found : BOOLEAN]
Answers == (Codes \ {"timeout"}) \union {Absent}

InteractionTypes ==
  /\ present \in BOOLEAN
  /\ scripts \in Seq(ScriptType) /\ runs \in Seq(RunType)
  /\ batch \in [Batches -> Seq({"click", "check", "wait"})]
  /\ work \in [Batches -> WorkType]
  /\ steps \in [Batches -> Seq(Codes)]
  /\ channel \in [Batches -> Answers]
  /\ result \in [Batches -> BatchResult \union {Absent}]

AllOk(b, n) == \A i \in 1..n : steps[b][i] = "ok"
Acting(b) == work[b].at \in {"next", "evaluating"}
Reporting(b) == work[b].at \in {"cutting", "returned"}

\* A batch goes on while its steps are ok.
BatchSound(b) ==
  LET n == Len(steps[b]) IN
  /\ n <= Len(batch[b]) /\ AllOk(b, n - 1)
  /\ Acting(b) => n < Len(batch[b]) /\ AllOk(b, n)
  /\ ~Acting(b) => n > 0
  /\ result[b] # Absent <=> Reporting(b)
  /\ result[b] # Absent /\ result[b].completed => n = Len(batch[b]) /\ AllOk(b, n)

\* A script that has not run is the only one of its batch, which waits for it or has given it up,
\* and what ran before it for the same step found nothing.
ScriptSound(j) ==
  LET s == scripts[j]  b == s.b IN
  /\ \A k \in 1..Len(scripts) : scripts[k].b = b => k = j
  /\ \/ At(b, "evaluating") /\ s = Script(b) /\ channel[b] = Absent
     \/ ~Acting(b) /\ s.i = Len(steps[b]) /\ steps[b][s.i] = "timeout"
  /\ \A k \in 1..Len(runs) : runs[k].b = b =>
       runs[k].i <= s.i /\ (runs[k].i = s.i => runs[k].try < s.try /\ ~runs[k].found)

\* A script that ran was given for a step that is over, or for the one under way.
RunSound(k) ==
  LET r == runs[k]  b == r.b  n == Len(steps[b]) IN
  /\ r.i <= n + 1
  /\ r.i = n + 1 =>
       /\ Acting(b)
       /\ At(b, "next") => r.try < work[b].tries
       /\ r.try <= work[b].tries
       /\ r.found => r.try = work[b].tries /\ channel[b] # "not_found"
  /\ r.i <= n /\ steps[b][r.i] = "not_found" => ~r.found

\* Scripts run in the order of their steps; one that finds its element is the last of its step.
RunsOrdered ==
  \A j, k \in 1..Len(runs) : j < k /\ runs[j].b = runs[k].b =>
    /\ runs[j].i <= runs[k].i
    /\ runs[j].i = runs[k].i => runs[j].try < runs[k].try /\ ~runs[j].found

Found(b, i) == \E k \in 1..Len(runs) : runs[k].b = b /\ runs[k].i = i /\ runs[k].found

FoundNow(b) == Found(b, Len(steps[b]) + 1)

\* What is ok has been found.
FoundSound(b) ==
  /\ \A i \in 1..Len(steps[b]) : steps[b][i] = "ok" => Found(b, i)
  /\ At(b, "evaluating") /\ channel[b] = "ok" => FoundNow(b)

\* What a result is after some rounds.
CutSound(b) ==
  result[b] # Absent =>
    LET raw == result[b].raw  cut == result[b].bounded IN
    /\ ~raw.truncated /\ cut.base = raw.base
    /\ cut.truncated => Size(cut) < Size(raw)
    /\ ~cut.truncated => cut = raw
    /\ raw.visits = Absent => cut.visits = Absent
    /\ cut.errors <= raw.errors
    /\ cut.errors < raw.errors => cut.entries \in {0, Absent}
    /\ cut.visits # raw.visits => cut.errors = 0
    /\ cut.truncated /\ (cut.visits # Absent \/ raw.visits = Absent) => Size(cut) >= Budget
    /\ At(b, "returned") => Bounded(cut)

InteractionInv ==
  /\ InteractionTypes
  /\ \A b \in Batches : BatchSound(b) /\ FoundSound(b) /\ CutSound(b)
  /\ \A j \in 1..Len(scripts) : ScriptSound(j)
  /\ \A k \in 1..Len(runs) : RunSound(k)
  /\ RunsOrdered

LEMMA AssumedInteraction ==
  /\ \A b \in Batches : Actions[b] \subseteq Seq({"click", "check", "wait"}) /\ <<>> \notin Actions[b]
  /\ \A b \in Batches : Observations[b] \subseteq {raw \in Result : ~raw.truncated}
  /\ MaxPolls \in Nat \ {0} /\ Budget \in Nat
  /\ Absent \notin Nat /\ Absent \notin Codes /\ Absent \notin BatchResult
BY InteractionAssumption

LEMMA InteractionStarts == ASSUME InteractionInit PROVE InteractionInv
<1>1. /\ present \in BOOLEAN /\ scripts = <<>> /\ runs = <<>>
      /\ work = [b \in Batches |-> [at |-> "next", tries |-> 0, expired |-> FALSE]]
      /\ steps = [b \in Batches |-> <<>>]
      /\ channel = [b \in Batches |-> Absent]
      /\ result = [b \in Batches |-> Absent]
  BY DEF InteractionInit
<1>2. batch \in [Batches -> Seq({"click", "check", "wait"})] /\ \A b \in Batches : batch[b] # <<>>
  <2>1. /\ batch \in [Batches -> UNION {Actions[b] : b \in Batches}]
        /\ \A b \in Batches : batch[b] \in Actions[b]
    BY DEF InteractionInit
  <2>2. \A b \in Batches : batch[b] \in Seq({"click", "check", "wait"}) /\ batch[b] # <<>>
    BY <2>1, AssumedInteraction
  <2> QED BY <2>1, <2>2
<1>3. InteractionTypes
  <2>1. [at |-> "next", tries |-> 0, expired |-> FALSE] \in WorkType
    BY AssumedInteraction DEF WorkType
  <2>2. work \in [Batches -> WorkType]
    BY <1>1, <2>1
  <2>3. scripts \in Seq(ScriptType) /\ runs \in Seq(RunType)
    BY <1>1
  <2> QED BY <1>1, <1>2, <2>2, <2>3 DEF InteractionTypes, Answers
<1>4. ASSUME NEW b \in Batches PROVE BatchSound(b) /\ FoundSound(b) /\ CutSound(b)
  <2>1. /\ work[b].at = "next" /\ steps[b] = <<>> /\ result[b] = Absent /\ Len(steps[b]) = 0
    BY <1>1
  <2>2. Len(batch[b]) \in Nat \ {0}
    BY <1>2, EmptySeq, LenProperties
  <2>3. BatchSound(b)
    BY <2>1, <2>2 DEF BatchSound, AllOk, Acting, Reporting
  <2>4. FoundSound(b)
    BY <2>1 DEF FoundSound, At
  <2>5. CutSound(b)
    BY <2>1 DEF CutSound
  <2> QED BY <2>3, <2>4, <2>5
<1>5. Len(scripts) = 0 /\ Len(runs) = 0
  BY <1>1
<1>6. RunsOrdered /\ (\A j \in 1..Len(scripts) : ScriptSound(j)) /\ (\A k \in 1..Len(runs) : RunSound(k))
  BY <1>5 DEF RunsOrdered
<1> QED BY <1>3, <1>4, <1>6 DEF InteractionInv

-----------------------------------------------------------------------------
(* Interaction: the rounds of a cut *)

LEMMA SizeIs == ASSUME NEW r \in Result PROVE Size(r) \in Nat
<1>1. /\ r.base \in Nat /\ r.errors \in Nat
      /\ r.entries \in Nat \union {Absent} /\ r.visits \in Nat \union {Absent}
  BY DEF Result
<1> QED BY <1>1 DEF Size

\* A round that changes anything drops one thing, in the order of its kinds.
LEMMA ShrinkIs ==
  ASSUME NEW r \in Result, NEW s, s = Shrink(r)
  PROVE  \/ s = r /\ r.entries = Absent /\ r.visits = Absent
         \/ /\ s \in Result /\ s.base = r.base /\ Size(s) < Size(r)
            /\ s.errors <= r.errors /\ (s.errors < r.errors => s.entries \in {0, Absent})
            /\ r.entries \in {0, Absent} => s.entries \in {0, Absent}
            /\ s.visits # r.visits => s.errors = 0 /\ r.errors = 0
            /\ r.visits = Absent => s.visits = Absent
            /\ s.visits # Absent \/ r.visits = Absent => Size(s) + 1 = Size(r)
<1>1. /\ r = [base |-> r.base, entries |-> r.entries, errors |-> r.errors, visits |-> r.visits,
              truncated |-> r.truncated]
      /\ r.base \in Nat /\ r.errors \in Nat /\ r.truncated \in BOOLEAN
      /\ r.entries \in Nat \union {Absent} /\ r.visits \in Nat \union {Absent} /\ Absent \notin Nat
  BY AssumedInteraction DEF Result
<1>2. PICK base, entries, errors, visits, trunc :
        /\ r = [base |-> base, entries |-> entries, errors |-> errors, visits |-> visits, truncated |-> trunc]
        /\ base \in Nat /\ errors \in Nat /\ trunc \in BOOLEAN
        /\ entries \in Nat \union {Absent} /\ visits \in Nat \union {Absent}
  BY <1>1
<1> DEFINE Of(e, f, v) == [base |-> base, entries |-> e, errors |-> f, visits |-> v, truncated |-> trunc]
           Mass(e, f, v) == base + (IF e = Absent THEN 0 ELSE 1 + e) + (IF v = Absent THEN 0 ELSE 1 + f + v)
<1>3. \A e, f, v : /\ Of(e, f, v).base = base /\ Of(e, f, v).entries = e /\ Of(e, f, v).errors = f
                   /\ Of(e, f, v).visits = v /\ Size(Of(e, f, v)) = Mass(e, f, v)
  BY DEF Size
<1>4. \A e \in Nat \union {Absent}, f \in Nat, v \in Nat \union {Absent} : Of(e, f, v) \in Result
  BY <1>2 DEF Result
<1>5. r = Of(entries, errors, visits)
  BY <1>2
<1> DEFINE Goal(e, f, v) ==
      /\ e \in Nat \union {Absent} /\ f \in Nat /\ v \in Nat \union {Absent}
      /\ Mass(e, f, v) < Mass(entries, errors, visits)
      /\ f <= errors /\ (f < errors => e \in {0, Absent})
      /\ entries \in {0, Absent} => e \in {0, Absent}
      /\ v # visits => f = 0 /\ errors = 0
      /\ visits = Absent => v = Absent
      /\ v # Absent \/ visits = Absent => Mass(e, f, v) + 1 = Mass(entries, errors, visits)
<1>6. \/ s = r /\ entries = Absent /\ visits = Absent
      \/ \E e, f, v : s = Of(e, f, v) /\ Goal(e, f, v)
  <2> HIDE DEF Of
  <2>1. CASE entries \notin {Absent, 0}
    <3>1. s = [r EXCEPT !.entries = @ - 1]
      BY <1>2, <2>1 DEF Shrink
    <3>2. s = Of(entries - 1, errors, visits)
      BY <1>2, <3>1 DEF Of
    <3>3. Goal(entries - 1, errors, visits)
      BY <1>1, <1>2, <2>1
    <3> QED BY <3>2, <3>3
  <2>2. CASE entries \in {Absent, 0} /\ visits # Absent /\ errors > 0
    <3>1. s = [r EXCEPT !.errors = @ - 1]
      BY <1>2, <2>2 DEF Shrink
    <3>2. s = Of(entries, errors - 1, visits)
      BY <1>2, <3>1 DEF Of
    <3>3. Goal(entries, errors - 1, visits)
      BY <1>1, <1>2, <2>2
    <3> QED BY <3>2, <3>3
  <2>3. CASE entries \in {Absent, 0} /\ visits # Absent /\ errors = 0 /\ visits > 1
    <3>1. s = [r EXCEPT !.visits = @ - 1]
      BY <1>2, <2>3 DEF Shrink
    <3>2. s = Of(entries, errors, visits - 1)
      BY <1>2, <3>1 DEF Of
    <3>3. Goal(entries, errors, visits - 1)
      BY <1>1, <1>2, <2>3
    <3> QED BY <3>2, <3>3
  <2>4. CASE entries = 0 /\ (visits # Absent => errors = 0 /\ visits <= 1)
    <3>1. s = [r EXCEPT !.entries = Absent]
      BY <1>1, <1>2, <2>4 DEF Shrink
    <3>2. s = Of(Absent, errors, visits)
      BY <1>2, <3>1 DEF Of
    <3>3. Goal(Absent, errors, visits)
      BY <1>1, <1>2, <2>4
    <3> QED BY <3>2, <3>3
  <2>5. CASE entries = Absent /\ visits # Absent /\ errors = 0 /\ visits <= 1
    <3>1. s = [r EXCEPT !.visits = Absent]
      BY <1>1, <1>2, <2>5 DEF Shrink
    <3>2. s = Of(entries, errors, Absent)
      BY <1>2, <3>1 DEF Of
    <3>3. Goal(entries, errors, Absent)
      BY <1>1, <1>2, <2>5
    <3> QED BY <3>2, <3>3
  <2>6. CASE entries = Absent /\ visits = Absent
    BY <1>1, <1>2, <2>6 DEF Shrink
  <2> QED BY <1>1, <1>2, <2>1, <2>2, <2>3, <2>4, <2>5, <2>6
<1>7. CASE s = r /\ entries = Absent /\ visits = Absent
  BY <1>2, <1>7
<1>8. ASSUME NEW e, NEW f, NEW v, s = Of(e, f, v), Goal(e, f, v) PROVE
         /\ s \in Result /\ s.base = r.base /\ Size(s) < Size(r)
         /\ s.errors <= r.errors /\ (s.errors < r.errors => s.entries \in {0, Absent})
         /\ r.entries \in {0, Absent} => s.entries \in {0, Absent}
         /\ s.visits # r.visits => s.errors = 0 /\ r.errors = 0
         /\ r.visits = Absent => s.visits = Absent
         /\ s.visits # Absent \/ r.visits = Absent => Size(s) + 1 = Size(r)
  <2>1. /\ s.base = base /\ s.entries = e /\ s.errors = f /\ s.visits = v /\ Size(s) = Mass(e, f, v)
        /\ r.base = base /\ r.entries = entries /\ r.errors = errors /\ r.visits = visits
        /\ Size(r) = Mass(entries, errors, visits)
    BY <1>3, <1>5, <1>8
  <2>2. s \in Result
    BY <1>4, <1>8
  <2> QED BY <1>8, <2>1, <2>2
<1> QED BY <1>6, <1>7, <1>8

-----------------------------------------------------------------------------
(* Interaction: the steps *)

\* What a step leaves alone of the other batches, and of b if nothing of it changes.
SameBatch(b) ==
  /\ work'[b] = work[b] /\ steps'[b] = steps[b] /\ channel'[b] = channel[b] /\ result'[b] = result[b]
  /\ batch'[b] = batch[b]

LEMMA SameIsSound ==
  ASSUME NEW b \in Batches, SameBatch(b), UNCHANGED runs
  PROVE  /\ BatchSound(b) => BatchSound(b)'
         /\ FoundSound(b) => FoundSound(b)'
         /\ CutSound(b) => CutSound(b)'
         /\ \A k \in 1..Len(runs) : runs[k].b = b /\ RunSound(k) => RunSound(k)'
         /\ UNCHANGED scripts => \A j \in 1..Len(scripts) : scripts[j].b = b /\ ScriptSound(j) => ScriptSound(j)'
<1> USE DEF SameBatch
<1>1. BatchSound(b) => BatchSound(b)'
  BY DEF BatchSound, AllOk, Acting, Reporting
<1>2. FoundSound(b) => FoundSound(b)'
  BY DEF FoundSound, FoundNow, Found, At
<1>3. CutSound(b) => CutSound(b)'
  BY DEF CutSound, At
<1>4. ASSUME NEW k \in 1..Len(runs), runs[k].b = b, RunSound(k) PROVE RunSound(k)'
  BY <1>4 DEF RunSound, Acting, At
<1>5. ASSUME UNCHANGED scripts, NEW j \in 1..Len(scripts), scripts[j].b = b, ScriptSound(j) PROVE ScriptSound(j)'
  BY <1>5 DEF ScriptSound, Acting, At, Script, Current
<1> QED BY <1>1, <1>2, <1>3, <1>4, <1>5

LEMMA RunFields ==
  ASSUME InteractionInv, NEW k \in 1..Len(runs)
  PROVE  /\ runs[k].b \in Batches /\ runs[k].i \in Nat \ {0} /\ runs[k].try \in Nat /\ runs[k].found \in BOOLEAN
         /\ RunSound(k)
<1>1. runs \in Seq(RunType) /\ RunSound(k)
  BY DEF InteractionInv, InteractionTypes
<1>2. runs[k] \in RunType
  BY <1>1, ElementOfSeq
<1> QED BY <1>1, <1>2 DEF RunType

LEMMA ScriptFields ==
  ASSUME InteractionInv, NEW j \in 1..Len(scripts)
  PROVE  scripts[j].b \in Batches /\ scripts[j].i \in Nat \ {0} /\ scripts[j].try \in Nat /\ ScriptSound(j)
<1>1. scripts \in Seq(ScriptType) /\ ScriptSound(j)
  BY DEF InteractionInv, InteractionTypes
<1>2. scripts[j] \in ScriptType
  BY <1>1, ElementOfSeq
<1> QED BY <1>1, <1>2 DEF ScriptType

\* A step of one batch keeps the invariant if it keeps what is said of this batch.
LEMMA OneBatch ==
  ASSUME InteractionInv, NEW b \in Batches, UNCHANGED <<runs, scripts>>, InteractionTypes',
         \A d \in Batches \ {b} : SameBatch(d),
         BatchSound(b)', FoundSound(b)', CutSound(b)',
         \A k \in 1..Len(runs) : runs[k].b = b => RunSound(k)',
         \A j \in 1..Len(scripts) : scripts[j].b = b => ScriptSound(j)'
  PROVE  InteractionInv'
<1>1. /\ \A d \in Batches : BatchSound(d) /\ FoundSound(d) /\ CutSound(d)
      /\ \A k \in 1..Len(runs) : RunSound(k)
      /\ \A j \in 1..Len(scripts) : ScriptSound(j)
      /\ RunsOrdered
  BY DEF InteractionInv
<1>2. /\ \A k \in 1..Len(runs) : runs[k].b \in Batches
      /\ \A j \in 1..Len(scripts) : scripts[j].b \in Batches
  BY RunFields, ScriptFields
<1>3. \A d \in Batches : BatchSound(d)' /\ FoundSound(d)' /\ CutSound(d)'
  <2> SUFFICES ASSUME NEW d \in Batches \ {b} PROVE BatchSound(d)' /\ FoundSound(d)' /\ CutSound(d)'
    OBVIOUS
  <2> QED BY <1>1, SameIsSound
<1>4. ASSUME NEW k \in 1..Len(runs) PROVE RunSound(k)'
  <2>1. CASE runs[k].b # b
    <3>1. PICK d \in Batches \ {b} : d = runs[k].b
      BY <1>2, <2>1
    <3> QED BY <1>1, <3>1, SameIsSound
  <2> QED BY <2>1
<1>5. ASSUME NEW j \in 1..Len(scripts) PROVE ScriptSound(j)'
  <2>1. CASE scripts[j].b # b
    <3>1. PICK d \in Batches \ {b} : d = scripts[j].b
      BY <1>2, <2>1
    <3> QED BY <1>1, <3>1, SameIsSound
  <2> QED BY <2>1
<1>6. RunsOrdered'
  BY <1>1 DEF RunsOrdered
<1> QED BY <1>3, <1>4, <1>5, <1>6 DEF InteractionInv

\* Nothing that the invariant speaks of changes but the page.
LEMMA StutterKeeps ==
  ASSUME InteractionInv, UNCHANGED <<scripts, runs, batch, work, steps, channel, result>>, InteractionTypes'
  PROVE  InteractionInv'
<1>1. \A d \in Batches : BatchSound(d)' /\ FoundSound(d)' /\ CutSound(d)'
  BY SameIsSound DEF SameBatch, InteractionInv
<1>2. ASSUME NEW k \in 1..Len(runs) PROVE RunSound(k)'
  BY RunFields DEF RunSound, Acting, At
<1>3. ASSUME NEW j \in 1..Len(scripts) PROVE ScriptSound(j)'
  BY ScriptFields DEF ScriptSound, Acting, At, Script, Current
<1>4. RunsOrdered'
  BY DEF InteractionInv, RunsOrdered
<1> QED BY <1>1, <1>2, <1>3, <1>4 DEF InteractionInv

LEMMA BatchFields ==
  ASSUME InteractionInv, NEW b \in Batches
  PROVE  /\ work[b] \in WorkType /\ steps[b] \in Seq(Codes) /\ Len(steps[b]) \in Nat /\ channel[b] \in Answers
         /\ result[b] \in BatchResult \union {Absent}
         /\ batch[b] \in Seq({"click", "check", "wait"}) /\ Len(batch[b]) \in Nat
         /\ BatchSound(b) /\ FoundSound(b) /\ CutSound(b)
BY LenProperties DEF InteractionInv, InteractionTypes

LEMMA ExpireKeeps == ASSUME InteractionInv, NEW b \in Batches, Expire(b) PROVE InteractionInv'
<1>1. /\ work' = [work EXCEPT ![b].expired = TRUE]
      /\ UNCHANGED <<present, changes, scripts, runs, batch, steps, channel, result>>
  BY DEF Expire, pageVars
<1>2. PICK w : w = [work[b] EXCEPT !.expired = TRUE]
  OBVIOUS
<1>3. /\ w \in WorkType /\ w.at = work[b].at /\ w.tries = work[b].tries
      /\ work' = [work EXCEPT ![b] = w] /\ work'[b] = w
  <2>1. work[b] \in WorkType /\ work \in [Batches -> WorkType]
    BY DEF InteractionInv, InteractionTypes
  <2>2. work'[b] = w
    BY <1>1, <1>2, <2>1
  <2> QED BY <1>1, <1>2, <2>1, <2>2 DEF WorkType
<1>4. InteractionTypes'
  BY <1>1, <1>3 DEF InteractionInv, InteractionTypes
<1>5. \A d \in Batches \ {b} : SameBatch(d)
  BY <1>1, <1>3 DEF SameBatch, InteractionInv, InteractionTypes
<1>6. BatchSound(b)' /\ FoundSound(b)' /\ CutSound(b)'
  <2>1. BatchSound(b) /\ FoundSound(b) /\ CutSound(b)
    BY DEF InteractionInv
  <2>2. BatchSound(b)'
    BY <1>1, <1>3, <2>1 DEF BatchSound, AllOk, Acting, Reporting
  <2>3. FoundSound(b)'
    BY <1>1, <1>3, <2>1 DEF FoundSound, FoundNow, Found, At
  <2>4. CutSound(b)'
    BY <1>1, <1>3, <2>1 DEF CutSound, At
  <2> QED BY <2>2, <2>3, <2>4
<1>7. ASSUME NEW k \in 1..Len(runs), runs[k].b = b PROVE RunSound(k)'
  <2>1. RunSound(k)
    BY DEF InteractionInv
  <2> QED BY <1>1, <1>3, <1>7, <2>1 DEF RunSound, Acting, At
<1>8. ASSUME NEW j \in 1..Len(scripts), scripts[j].b = b PROVE ScriptSound(j)'
  <2>1. ScriptSound(j)
    BY DEF InteractionInv
  <2> QED BY <1>1, <1>3, <1>8, <2>1 DEF ScriptSound, Acting, At, Script, Current
<1> QED BY <1>1, <1>4, <1>5, <1>6, <1>7, <1>8, OneBatch

\* A batch has no script that has not run when it is not waiting for one, and is acting.
LEMMA NoneWaits ==
  ASSUME InteractionInv, NEW b \in Batches, Acting(b), At(b, "next") \/ channel[b] # Absent
  PROVE  \A j \in 1..Len(scripts) : scripts[j].b # b
<1>1. \A j \in 1..Len(scripts) : ScriptSound(j)
  BY DEF InteractionInv
<1>2. work[b].at = "next" => work[b].at # "evaluating"
  OBVIOUS
<1> QED BY <1>1, <1>2 DEF ScriptSound, Acting, At

\* What a step that ends needs: its code says what its script found.
LEMMA ConcludeKeeps ==
  ASSUME InteractionInv, NEW b \in Batches, Acting(b), NEW code \in Codes, Conclude(b, code),
         UNCHANGED <<pageVars, batch, result>>,
         code = "ok" => FoundNow(b),
         code = "not_found" => At(b, "evaluating") /\ channel[b] = "not_found",
         code # "timeout" => At(b, "next") \/ channel[b] # Absent
  PROVE  InteractionInv'
<1>0. PICK n : n = Len(steps[b])
  OBVIOUS
<1>1. /\ work[b] \in WorkType /\ steps[b] \in Seq(Codes) /\ n \in Nat /\ channel[b] \in Answers
      /\ Len(batch[b]) \in Nat /\ BatchSound(b) /\ FoundSound(b) /\ CutSound(b)
  BY <1>0, BatchFields
<1>2. n < Len(batch[b]) /\ AllOk(b, n) /\ result[b] = Absent
  BY <1>0, <1>1 DEF BatchSound, Acting, Reporting
<1>3. /\ UNCHANGED <<present, changes, scripts, runs, batch, result>>
      /\ steps' = [steps EXCEPT ![b] = Append(steps[b], code)]
      /\ channel' = [channel EXCEPT ![b] = Absent]
      /\ work' = [work EXCEPT ![b].at = IF code # "ok" \/ n + 1 = Len(batch[b]) THEN "observe" ELSE "next",
                              ![b].tries = 0]
  BY <1>0 DEF Conclude, pageVars, Current
<1>4. PICK goesTo : goesTo = (IF code # "ok" \/ n + 1 = Len(batch[b]) THEN "observe" ELSE "next")
  OBVIOUS
<1>5. PICK w : w = [work[b] EXCEPT !.at = goesTo, !.tries = 0]
  OBVIOUS
<1>6. /\ w \in WorkType /\ w.at = goesTo /\ w.tries = 0 /\ work' = [work EXCEPT ![b] = w] /\ work'[b] = w
      /\ goesTo \in {"next", "observe"}
  <2>1. work \in [Batches -> WorkType] /\ 0 \in 0..MaxPolls - 1 /\ goesTo \in {"next", "observe"}
    BY <1>4, AssumedInteraction DEF InteractionInv, InteractionTypes
  <2>2. work'[b] = w
    BY <1>3, <1>4, <1>5, <2>1
  <2> QED BY <1>1, <1>3, <1>4, <1>5, <2>1, <2>2 DEF WorkType
<1>7. /\ steps'[b] = Append(steps[b], code) /\ steps'[b] \in Seq(Codes) /\ Len(steps'[b]) = n + 1
      /\ steps'[b][n + 1] = code /\ \A i \in 1..n : steps'[b][i] = steps[b][i]
      /\ channel'[b] = Absent
  <2>1. steps \in [Batches -> Seq(Codes)] /\ channel \in [Batches -> Answers]
    BY DEF InteractionInv, InteractionTypes
  <2>2. steps'[b] = Append(steps[b], code) /\ channel'[b] = Absent
    BY <1>3, <2>1
  <2> QED BY <1>0, <1>1, <2>2, AppendProperties
<1>8. InteractionTypes'
  BY <1>3, <1>6, <1>7 DEF InteractionInv, InteractionTypes, Answers
<1>9. \A d \in Batches \ {b} : SameBatch(d)
  BY <1>3, <1>6 DEF SameBatch, InteractionInv, InteractionTypes
<1>10. BatchSound(b)'
  <2>1. /\ Len(steps'[b]) = n + 1 /\ Len(steps'[b]) > 0 /\ Len(steps'[b]) <= Len(batch'[b])
        /\ Len(steps'[b]) - 1 = n
    BY <1>1, <1>2, <1>3, <1>7
  <2>2. AllOk(b, n)'
    BY <1>2, <1>7 DEF AllOk
  <2>3. result'[b] = Absent /\ ~Reporting(b)'
    BY <1>2, <1>3, <1>6 DEF Reporting
  <2>4. ASSUME Acting(b)' PROVE n + 1 < Len(batch'[b]) /\ AllOk(b, n + 1)'
    <3>1. code = "ok" /\ n + 1 # Len(batch[b])
      BY <1>4, <1>6, <2>4 DEF Acting
    <3>2. \A i \in 1..n + 1 : i \in 1..n \/ i = n + 1
      BY <1>1
    <3>3. \A i \in 1..n + 1 : steps'[b][i] = "ok"
      BY <1>2, <1>7, <3>1, <3>2 DEF AllOk
    <3>4. AllOk(b, n + 1)'
      BY <3>3 DEF AllOk
    <3>5. n + 1 < Len(batch'[b])
      BY <1>1, <1>2, <1>3, <3>1
    <3> QED BY <3>4, <3>5
  <2> QED BY <2>1, <2>2, <2>3, <2>4 DEF BatchSound
<1>11. FoundSound(b)'
  <2>1. /\ \A i \in 1..n : steps[b][i] = "ok" => Found(b, i)
        /\ code = "ok" => Found(b, n + 1)
    BY <1>0, <1>1 DEF FoundSound, FoundNow
  <2>2. ASSUME NEW i \in 1..n + 1, steps'[b][i] = "ok" PROVE Found(b, i)
    <3>1. CASE i = n + 1
      BY <1>7, <2>1, <2>2, <3>1
    <3>2. CASE i \in 1..n
      BY <1>7, <2>1, <2>2, <3>2
    <3> QED BY <1>1, <3>1, <3>2
  <2>3. work'[b].at # "evaluating"
    BY <1>6
  <2>4. \A i : Found(b, i) <=> Found(b, i)'
    BY <1>3 DEF Found
  <2> QED BY <1>7, <2>2, <2>3, <2>4 DEF FoundSound, At
<1>12. CutSound(b)'
  BY <1>2, <1>3 DEF CutSound
<1>13. ASSUME NEW k \in 1..Len(runs), runs[k].b = b PROVE RunSound(k)'
  <2>1. RunSound(k) /\ runs[k].i \in Nat \ {0} /\ runs[k].try \in Nat /\ work[b].tries \in Nat
    BY <1>1, RunFields, AssumedInteraction DEF WorkType
  <2>2. runs[k].i <= n + 1
    BY <1>0, <1>13, <2>1 DEF RunSound
  <2>3. runs[k].i = n + 1 /\ code = "not_found" => ~runs[k].found
    BY <1>0, <1>13, <2>1 DEF RunSound
  <2>4. runs[k].i <= n => (steps[b][runs[k].i] = "not_found" => ~runs[k].found)
    BY <1>0, <1>13, <2>1 DEF RunSound
  <2>5. runs[k].i <= n + 1 /\ (steps'[b][runs[k].i] = "not_found" => ~runs[k].found)
    <3>1. CASE runs[k].i <= n
      BY <1>1, <1>7, <2>1, <2>4, <3>1
    <3>2. CASE runs[k].i = n + 1
      BY <1>1, <1>7, <2>3, <3>2
    <3> QED BY <1>1, <2>1, <2>2, <3>1, <3>2
  <2>6. runs[k].i # n + 1 + 1
    BY <1>1, <2>1, <2>2
  <2> QED BY <1>1, <1>3, <1>7, <1>13, <2>5, <2>6, <2>1 DEF RunSound
<1>14. ASSUME NEW j \in 1..Len(scripts), scripts[j].b = b PROVE ScriptSound(j)'
  <2>1. ScriptSound(j)
    BY DEF InteractionInv
  <2>2. code = "timeout"
    BY <1>14, NoneWaits
  <2>3. scripts[j] = Script(b)
    BY <1>14, <2>1 DEF ScriptSound
  <2>4. scripts[j].i = n + 1
    BY <1>0, <2>3 DEF Script, Current
  <2>5. ~Acting(b)'
    BY <1>4, <1>6, <2>2 DEF Acting
  <2> QED BY <1>3, <1>7, <1>14, <2>1, <2>2, <2>4, <2>5 DEF ScriptSound
<1> QED BY <1>3, <1>8, <1>9, <1>10, <1>11, <1>12, <1>13, <1>14, OneBatch

LEMMA EvaluateKeeps == ASSUME InteractionInv, NEW b \in Batches, Evaluate(b) PROVE InteractionInv'
<1>0. PICK n, s : n = Len(steps[b]) /\ s = Script(b)
  OBVIOUS
<1>1. /\ work[b] \in WorkType /\ steps[b] \in Seq(Codes) /\ n \in Nat /\ channel[b] \in Answers
      /\ BatchSound(b) /\ FoundSound(b) /\ CutSound(b) /\ work[b].tries \in Nat
  BY <1>0, BatchFields, AssumedInteraction DEF WorkType
<1>2. /\ At(b, "next") /\ Acting(b)
      /\ work' = [work EXCEPT ![b].at = "evaluating"] /\ scripts' = Append(scripts, s)
      /\ channel' = [channel EXCEPT ![b] = Absent]
      /\ UNCHANGED <<present, changes, runs, batch, steps, result>>
  BY <1>0 DEF Evaluate, At, Acting
<1>3. PICK w : w = [work[b] EXCEPT !.at = "evaluating"]
  OBVIOUS
<1>4. /\ w \in WorkType /\ w.at = "evaluating" /\ w.tries = work[b].tries
      /\ work' = [work EXCEPT ![b] = w] /\ work'[b] = w /\ channel'[b] = Absent
  <2>1. work \in [Batches -> WorkType] /\ channel \in [Batches -> Answers]
    BY DEF InteractionInv, InteractionTypes
  <2>2. work'[b] = w /\ channel'[b] = Absent
    BY <1>2, <1>3, <2>1
  <2> QED BY <1>1, <1>2, <1>3, <2>1, <2>2 DEF WorkType
<1>5. /\ s \in ScriptType /\ s.b = b /\ s.i = n + 1 /\ s.try = work[b].tries /\ s = Script(b)'
  BY <1>0, <1>1, <1>2, <1>4 DEF Script, Current, ScriptType
<1>6. PICK last : last = Len(scripts) + 1
  OBVIOUS
<1>7. /\ scripts \in Seq(ScriptType) /\ Len(scripts) \in Nat
      /\ scripts' \in Seq(ScriptType) /\ Len(scripts') = last /\ scripts'[last] = s
      /\ \A j \in 1..Len(scripts) : scripts'[j] = scripts[j]
      /\ \A j \in 1..last : j \in 1..Len(scripts) \/ j = last
  BY <1>2, <1>5, <1>6, AppendProperties, LenProperties DEF InteractionInv, InteractionTypes
<1>8. InteractionTypes'
  BY <1>2, <1>4, <1>7 DEF InteractionInv, InteractionTypes, Answers
<1>9. \A d \in Batches \ {b} : SameBatch(d)
  BY <1>2, <1>4 DEF SameBatch, InteractionInv, InteractionTypes
<1>10. ASSUME NEW d \in Batches PROVE BatchSound(d)' /\ FoundSound(d)' /\ CutSound(d)'
  <2>1. CASE d # b
    <3>1. BatchSound(d) /\ FoundSound(d) /\ CutSound(d) /\ SameBatch(d)
      BY <1>9, <2>1, BatchFields
    <3> QED BY <1>2, <3>1, SameIsSound
  <2>2. CASE d = b
    <3>1. BatchSound(b)'
      BY <1>1, <1>2, <1>4 DEF BatchSound, AllOk, Acting, Reporting, At
    <3>2. FoundSound(b)'
      BY <1>1, <1>2, <1>4, AssumedInteraction DEF FoundSound, FoundNow, Found, At, Codes
    <3>3. CutSound(b)'
      BY <1>1, <1>2, <1>4 DEF CutSound, At
    <3> QED BY <2>2, <3>1, <3>2, <3>3
  <2> QED BY <2>1, <2>2
<1>11. ASSUME NEW k \in 1..Len(runs) PROVE RunSound(k)'
  <2>1. RunSound(k) /\ runs[k].b \in Batches
    BY RunFields
  <2>2. CASE runs[k].b # b
    <3>1. PICK d \in Batches \ {b} : d = runs[k].b
      BY <2>1, <2>2
    <3> QED BY <1>2, <1>9, <2>1, <3>1, SameIsSound
  <2>3. CASE runs[k].b = b
    <3>1. runs[k].i = n + 1 => runs[k].try < work[b].tries /\ ~runs[k].found
      BY <1>0, <1>1, <1>2, <2>1, <2>3, RunFields DEF RunSound, At
    <3>2. /\ runs[k].i <= n + 1
          /\ runs[k].i <= n /\ steps[b][runs[k].i] = "not_found" => ~runs[k].found
      BY <1>0, <2>1, <2>3 DEF RunSound
    <3>3. work'[b].at = "evaluating" /\ work'[b].tries = work[b].tries /\ steps'[b] = steps[b] /\ Acting(b)'
      BY <1>2, <1>4 DEF Acting
    <3>4. runs[k].try \in Nat
      BY RunFields
    <3> QED BY <1>0, <1>1, <1>2, <2>3, <3>1, <3>2, <3>3, <3>4 DEF RunSound, At
  <2> QED BY <2>2, <2>3
<1>12. ASSUME NEW k \in 1..Len(runs), runs[k].b = b
       PROVE  runs[k].i <= s.i /\ (runs[k].i = s.i => runs[k].try < s.try /\ ~runs[k].found)
  <2>1. RunSound(k)
    BY RunFields
  <2> QED BY <1>0, <1>1, <1>2, <1>5, <1>12, <2>1, RunFields DEF RunSound, At
<1>13. \A j \in 1..Len(scripts) : scripts[j].b # b
  BY <1>2, NoneWaits
<1>14. ASSUME NEW j \in 1..last PROVE ScriptSound(j)'
  <2>1. CASE j = last
    <3>1. \A k \in 1..last : scripts'[k].b = b => k = j
      BY <1>7, <1>13, <2>1
    <3>2. At(b, "evaluating")' /\ channel'[b] = Absent /\ runs' = runs
      BY <1>2, <1>4 DEF At
    <3> QED BY <1>5, <1>7, <1>12, <2>1, <3>1, <3>2 DEF ScriptSound
  <2>2. CASE j \in 1..Len(scripts)
    <3>1. PICK d \in Batches \ {b} : d = scripts[j].b
      BY <1>13, <2>2, ScriptFields
    <3>2. /\ work'[d] = work[d] /\ steps'[d] = steps[d] /\ channel'[d] = channel[d] /\ runs' = runs
      BY <1>2, <1>9, <3>1 DEF SameBatch
    <3>3. ScriptSound(j) /\ scripts'[j] = scripts[j]
      BY <1>7, <2>2, ScriptFields
    <3>4. \A k \in 1..Len(scripts') : scripts'[k].b = d => k = j
      BY <1>5, <1>7, <3>1, <3>3 DEF ScriptSound
    <3> QED BY <2>2, <3>1, <3>2, <3>3, <3>4 DEF ScriptSound, Acting, At, Script, Current
  <2> QED BY <1>7, <2>1, <2>2
<1>15. RunsOrdered'
  BY <1>2 DEF InteractionInv, RunsOrdered
<1> QED BY <1>2, <1>7, <1>8, <1>10, <1>11, <1>14, <1>15 DEF InteractionInv

LEMMA AnsweredKeeps == ASSUME InteractionInv, NEW b \in Batches, Answered(b) PROVE InteractionInv'
<1>1. /\ At(b, "evaluating") /\ Acting(b) /\ channel[b] # Absent
      /\ Conclude(b, channel[b]) /\ UNCHANGED <<pageVars, batch, result>>
  BY DEF Answered, At, Acting
<1>2. channel[b] \in Answers /\ FoundSound(b)
  BY BatchFields
<1>3. channel[b] \in Codes
  BY <1>1, <1>2 DEF Answers
<1>4. channel[b] = "ok" => FoundNow(b)
  BY <1>1, <1>2 DEF FoundSound
<1> QED BY <1>1, <1>3, <1>4, ConcludeKeeps

LEMMA FailingKeeps ==
  ASSUME InteractionInv, NEW b \in Batches, EvaluateFails(b) \/ NoAnswer(b) PROVE InteractionInv'
<1>1. CASE EvaluateFails(b)
  <2>1. PICK code : code = (IF work[b].expired THEN "timeout" ELSE "script_error")
    OBVIOUS
  <2>2. /\ At(b, "next") /\ Acting(b) /\ Conclude(b, code) /\ UNCHANGED <<pageVars, batch, result>>
    BY <1>1, <2>1 DEF EvaluateFails, At, Acting
  <2>3. code \in Codes /\ code # "ok" /\ code # "not_found"
    BY <2>1 DEF Codes
  <2> QED BY <2>2, <2>3, ConcludeKeeps
<1>2. CASE NoAnswer(b)
  <2>1. /\ Acting(b) /\ Conclude(b, "timeout") /\ UNCHANGED <<pageVars, batch, result>> /\ "timeout" \in Codes
    BY <1>2 DEF NoAnswer, At, Acting, Codes
  <2> QED BY <2>1, ConcludeKeeps
<1> QED BY <1>1, <1>2

LEMMA PollKeeps == ASSUME InteractionInv, NEW b \in Batches, PollAgain(b) PROVE InteractionInv'
<1>0. PICK n : n = Len(steps[b])
  OBVIOUS
<1>1. /\ work[b] \in WorkType /\ steps[b] \in Seq(Codes) /\ n \in Nat /\ channel[b] \in Answers
      /\ BatchSound(b) /\ FoundSound(b) /\ CutSound(b) /\ work[b].tries \in Nat
  BY <1>0, BatchFields, AssumedInteraction DEF WorkType
<1>2. /\ At(b, "evaluating") /\ Acting(b) /\ channel[b] = "not_found"
      /\ UNCHANGED <<present, changes, scripts, runs, batch, result>> /\ UNCHANGED <<pageVars, batch, result>>
  BY DEF PollAgain, Unmet, At, Acting, pageVars
<1>3. CASE Conclude(b, "timeout")
  <2>1. "timeout" \in Codes
    BY DEF Codes
  <2> QED BY <1>2, <1>3, <2>1, ConcludeKeeps
<1>4. CASE /\ work[b].tries < MaxPolls - 1
           /\ work' = [work EXCEPT ![b].at = "next", ![b].tries = @ + 1]
           /\ UNCHANGED <<steps, channel>>
  <2>1. PICK w : w = [work[b] EXCEPT !.at = "next", !.tries = @ + 1]
    OBVIOUS
  <2>2. /\ w.at = "next" /\ w.tries = work[b].tries + 1
        /\ work' = [work EXCEPT ![b] = w] /\ work'[b] = w
    <3>1. work \in [Batches -> WorkType]
      BY DEF InteractionInv, InteractionTypes
    <3>2. work'[b] = w
      BY <1>4, <2>1, <3>1
    <3> QED BY <1>1, <1>4, <2>1, <3>1, <3>2 DEF WorkType
  <2>3. w \in WorkType
    <3>1. work[b].tries + 1 \in 0..MaxPolls - 1
      BY <1>1, <1>4, AssumedInteraction
    <3> QED BY <1>1, <2>1, <3>1 DEF WorkType
  <2>4. InteractionTypes'
    BY <1>2, <1>4, <2>2, <2>3 DEF InteractionInv, InteractionTypes
  <2>5. \A d \in Batches \ {b} : SameBatch(d)
    BY <1>2, <1>4, <2>2 DEF SameBatch, InteractionInv, InteractionTypes
  <2>6. BatchSound(b)' /\ FoundSound(b)' /\ CutSound(b)'
    <3>1. BatchSound(b)'
      BY <1>1, <1>2, <1>4, <2>2 DEF BatchSound, AllOk, Acting, Reporting, At
    <3>2. FoundSound(b)'
      BY <1>1, <1>2, <1>4, <2>2 DEF FoundSound, FoundNow, Found, At
    <3>3. CutSound(b)'
      BY <1>1, <1>2, <1>4, <2>2 DEF CutSound, At
    <3> QED BY <3>1, <3>2, <3>3
  <2>7. ASSUME NEW k \in 1..Len(runs), runs[k].b = b PROVE RunSound(k)'
    <3>1. RunSound(k) /\ runs[k].try \in Nat
      BY RunFields
    <3>2. runs[k].i = n + 1 => runs[k].try <= work[b].tries /\ ~runs[k].found
      BY <1>0, <1>2, <2>7, <3>1 DEF RunSound
    <3>3. /\ runs[k].i <= n + 1
          /\ runs[k].i <= n /\ steps[b][runs[k].i] = "not_found" => ~runs[k].found
      BY <1>0, <2>7, <3>1 DEF RunSound
    <3>4. work'[b].at = "next" /\ work'[b].tries = work[b].tries + 1 /\ steps'[b] = steps[b] /\ Acting(b)'
      BY <1>4, <2>2 DEF Acting
    <3> QED BY <1>0, <1>1, <1>2, <2>7, <3>1, <3>2, <3>3, <3>4 DEF RunSound, At
  <2>8. \A j \in 1..Len(scripts) : scripts[j].b # b
    BY <1>2, AssumedInteraction, NoneWaits DEF Codes
  <2> QED BY <1>2, <2>4, <2>5, <2>6, <2>7, <2>8, OneBatch
<1> QED BY <1>3, <1>4 DEF PollAgain

LEMMA ObserveKeeps == ASSUME InteractionInv, NEW b \in Batches, ObserveAfter(b) PROVE InteractionInv'
<1>0. PICK n : n = Len(steps[b])
  OBVIOUS
<1>1. /\ work[b] \in WorkType /\ steps[b] \in Seq(Codes) /\ n \in Nat /\ channel[b] \in Answers
      /\ BatchSound(b) /\ FoundSound(b) /\ CutSound(b)
  BY <1>0, BatchFields
<1>2. PICK raw \in Observations[b], failed \in BOOLEAN :
        result' = [result EXCEPT ![b] =
          [raw |-> raw, bounded |-> raw,
           completed |-> /\ Len(steps[b]) = Len(batch[b]) /\ \A i \in 1..Len(steps[b]) : steps[b][i] = "ok"
                         /\ ~failed]]
  BY DEF ObserveAfter
<1>3. /\ At(b, "observe") /\ ~Acting(b)
      /\ work' = [work EXCEPT ![b].at = "cutting"]
      /\ UNCHANGED <<present, changes, scripts, runs, batch, steps, channel>>
  BY DEF ObserveAfter, At, Acting, pageVars
<1>4. PICK done \in BOOLEAN :
        done = (Len(steps[b]) = Len(batch[b]) /\ (\A i \in 1..Len(steps[b]) : steps[b][i] = "ok") /\ ~failed)
  OBVIOUS
<1>5. PICK r : r = [raw |-> raw, bounded |-> raw, completed |-> done]
  OBVIOUS
<1>6. /\ r \in BatchResult /\ r # Absent /\ r.raw = raw /\ r.bounded = raw /\ r.completed = done
      /\ raw \in Result /\ ~raw.truncated
  <2>1. raw \in Result /\ ~raw.truncated
    BY AssumedInteraction
  <2>2. r \in BatchResult
    BY <1>5, <2>1 DEF BatchResult
  <2> QED BY <1>5, <2>1, <2>2, AssumedInteraction
<1>7. result' = [result EXCEPT ![b] = r] /\ result'[b] = r
  <2>1. result \in [Batches -> BatchResult \union {Absent}]
    BY DEF InteractionInv, InteractionTypes
  <2> QED BY <1>2, <1>4, <1>5, <2>1
<1>8. PICK w : w = [work[b] EXCEPT !.at = "cutting"]
  OBVIOUS
<1>9. /\ w \in WorkType /\ w.at = "cutting" /\ w.tries = work[b].tries
      /\ work' = [work EXCEPT ![b] = w] /\ work'[b] = w
  <2>1. work \in [Batches -> WorkType]
    BY DEF InteractionInv, InteractionTypes
  <2>2. work'[b] = w
    BY <1>3, <1>8, <2>1
  <2> QED BY <1>1, <1>3, <1>8, <2>1, <2>2 DEF WorkType
<1>10. InteractionTypes'
  BY <1>3, <1>6, <1>7, <1>9 DEF InteractionInv, InteractionTypes
<1>11. \A d \in Batches \ {b} : SameBatch(d)
  BY <1>3, <1>7, <1>9 DEF SameBatch, InteractionInv, InteractionTypes
<1>12. BatchSound(b)'
  <2>1. /\ n <= Len(batch[b]) /\ AllOk(b, n - 1) /\ n > 0
    BY <1>0, <1>1, <1>3 DEF BatchSound
  <2>2. done => n = Len(batch[b]) /\ AllOk(b, n)
    BY <1>0, <1>4 DEF AllOk
  <2>3. ~Acting(b)' /\ Reporting(b)' /\ result'[b] # Absent /\ result'[b].completed = done
    BY <1>6, <1>7, <1>9 DEF Acting, Reporting
  <2> QED BY <1>0, <1>3, <2>1, <2>2, <2>3 DEF BatchSound, AllOk
<1>13. FoundSound(b)'
  BY <1>1, <1>3, <1>9 DEF FoundSound, FoundNow, Found, At
<1>14. CutSound(b)'
  <2>1. result'[b].raw = raw /\ result'[b].bounded = raw /\ ~At(b, "returned")' /\ ~raw.truncated
    BY <1>6, <1>7, <1>9 DEF At
  <2>2. raw.errors \in Nat
    BY <1>6 DEF Result
  <2> QED BY <2>1, <2>2 DEF CutSound
<1>15. ASSUME NEW k \in 1..Len(runs), runs[k].b = b PROVE RunSound(k)'
  <2>1. RunSound(k)
    BY RunFields
  <2> QED BY <1>3, <1>9, <1>15, <2>1 DEF RunSound, Acting, At
<1>16. ASSUME NEW j \in 1..Len(scripts), scripts[j].b = b PROVE ScriptSound(j)'
  <2>1. ScriptSound(j)
    BY ScriptFields
  <2> QED BY <1>3, <1>9, <1>16, <2>1 DEF ScriptSound, Acting, At
<1> QED BY <1>3, <1>10, <1>11, <1>12, <1>13, <1>14, <1>15, <1>16, OneBatch

LEMMA ReturnKeeps == ASSUME InteractionInv, NEW b \in Batches, Return(b) PROVE InteractionInv'
<1>1. /\ work[b] \in WorkType /\ BatchSound(b) /\ FoundSound(b) /\ CutSound(b)
  BY BatchFields
<1>2. /\ work[b].at = "cutting" /\ Bounded(result[b].bounded)
      /\ work' = [work EXCEPT ![b].at = "returned"]
      /\ UNCHANGED <<present, changes, scripts, runs, batch, steps, channel, result>>
  BY DEF Return, At, pageVars
<1>3. PICK w : w = [work[b] EXCEPT !.at = "returned"]
  OBVIOUS
<1>4. /\ w \in WorkType /\ w.at = "returned" /\ w.tries = work[b].tries
      /\ work' = [work EXCEPT ![b] = w] /\ work'[b] = w
  <2>1. work \in [Batches -> WorkType]
    BY DEF InteractionInv, InteractionTypes
  <2>2. work'[b] = w
    BY <1>2, <1>3, <2>1
  <2> QED BY <1>1, <1>2, <1>3, <2>1, <2>2 DEF WorkType
<1>5. InteractionTypes'
  BY <1>2, <1>4 DEF InteractionInv, InteractionTypes
<1>6. \A d \in Batches \ {b} : SameBatch(d)
  BY <1>2, <1>4 DEF SameBatch, InteractionInv, InteractionTypes
<1>7. BatchSound(b)'
  BY <1>1, <1>2, <1>4 DEF BatchSound, AllOk, Acting, Reporting
<1>8. FoundSound(b)'
  BY <1>1, <1>2, <1>4 DEF FoundSound, FoundNow, Found, At
<1>9. CutSound(b)'
  BY <1>1, <1>2, <1>4 DEF CutSound, At
<1>10. ASSUME NEW k \in 1..Len(runs), runs[k].b = b PROVE RunSound(k)'
  <2>1. RunSound(k)
    BY RunFields
  <2> QED BY <1>2, <1>4, <1>10, <2>1 DEF RunSound, Acting, At
<1>11. ASSUME NEW j \in 1..Len(scripts), scripts[j].b = b PROVE ScriptSound(j)'
  <2>1. ScriptSound(j)
    BY ScriptFields
  <2> QED BY <1>2, <1>4, <1>11, <2>1 DEF ScriptSound, Acting, At
<1> QED BY <1>2, <1>5, <1>6, <1>7, <1>8, <1>9, <1>10, <1>11, OneBatch

LEMMA CutKeeps == ASSUME InteractionInv, NEW b \in Batches, Cut(b) PROVE InteractionInv'
<1>1. /\ BatchSound(b) /\ FoundSound(b) /\ CutSound(b) /\ result[b] \in BatchResult \union {Absent}
  BY BatchFields
<1>2. PICK raw, cut, s : raw = result[b].raw /\ cut = result[b].bounded /\ s = Shrink(cut)
  OBVIOUS
<1>3. /\ work[b].at = "cutting" /\ ~Bounded(cut)
      /\ UNCHANGED <<present, changes, scripts, runs, batch, work, steps, channel>>
  BY <1>2 DEF Cut, At, pageVars
<1>4. result[b] # Absent /\ result[b] \in BatchResult /\ raw \in Result /\ cut \in Result
  <2>1. result[b] # Absent
    BY <1>1, <1>3 DEF BatchSound, Reporting
  <2> QED BY <1>1, <1>2, <2>1 DEF BatchResult
<1>5. /\ s \in Result /\ s.base = cut.base /\ Size(s) < Size(cut) /\ Size(cut) > Budget
      /\ s.errors <= cut.errors /\ (s.errors < cut.errors => s.entries \in {0, Absent})
      /\ cut.entries \in {0, Absent} => s.entries \in {0, Absent}
      /\ s.visits # cut.visits => s.errors = 0 /\ cut.errors = 0
      /\ cut.visits = Absent => s.visits = Absent
      /\ s.visits # Absent \/ cut.visits = Absent => Size(s) + 1 = Size(cut)
  <2>1. s # cut /\ ~(Size(cut) <= Budget) /\ Size(cut) \in Nat /\ Budget \in Nat
    BY <1>2, <1>3, <1>4, SizeIs, AssumedInteraction DEF Bounded
  <2>2. Size(cut) > Budget
    BY <2>1
  <2> QED BY <1>2, <1>4, <2>1, <2>2, ShrinkIs
<1>6. PICK next : next = [s EXCEPT !.truncated = TRUE]
  OBVIOUS
<1>7. /\ next \in Result /\ next.truncated /\ next.base = s.base /\ next.entries = s.entries
      /\ next.errors = s.errors /\ next.visits = s.visits /\ Size(next) = Size(s)
  <2>1. /\ next \in Result /\ next.truncated /\ next.base = s.base /\ next.entries = s.entries
        /\ next.errors = s.errors /\ next.visits = s.visits
    BY <1>5, <1>6 DEF Result
  <2> QED BY <2>1 DEF Size
<1>8. PICK r : r = [result[b] EXCEPT !.bounded = next]
  OBVIOUS
<1>9. /\ r \in BatchResult /\ r.raw = raw /\ r.bounded = next /\ r.completed = result[b].completed
      /\ r # Absent
  <2>1. /\ r \in BatchResult /\ r.raw = raw /\ r.bounded = next /\ r.completed = result[b].completed
    BY <1>2, <1>4, <1>7, <1>8 DEF BatchResult
  <2> QED BY <2>1, AssumedInteraction
<1>10. result' = [result EXCEPT ![b] = r] /\ result'[b] = r
  <2>1. result \in [Batches -> BatchResult \union {Absent}]
    BY DEF InteractionInv, InteractionTypes
  <2>2. result' = [result EXCEPT ![b].bounded = [Shrink(@) EXCEPT !.truncated = TRUE]]
    BY DEF Cut
  <2>3. result' = [result EXCEPT ![b] = [result[b] EXCEPT !.bounded = next]]
    BY <1>2, <1>6, <2>1, <2>2
  <2> QED BY <1>8, <2>1, <2>3
<1>11. InteractionTypes'
  BY <1>3, <1>9, <1>10 DEF InteractionInv, InteractionTypes
<1>12. \A d \in Batches \ {b} : SameBatch(d)
  BY <1>3, <1>10 DEF SameBatch, InteractionInv, InteractionTypes
<1>13. BatchSound(b)'
  BY <1>1, <1>3, <1>4, <1>9, <1>10 DEF BatchSound, AllOk, Acting, Reporting
<1>14. FoundSound(b)'
  BY <1>1, <1>3 DEF FoundSound, FoundNow, Found, At
<1>15. CutSound(b)'
  <2>1. /\ ~raw.truncated /\ cut.base = raw.base
        /\ cut.truncated => Size(cut) < Size(raw)
        /\ ~cut.truncated => cut = raw
        /\ raw.visits = Absent => cut.visits = Absent
        /\ cut.errors <= raw.errors
        /\ cut.errors < raw.errors => cut.entries \in {0, Absent}
        /\ cut.visits # raw.visits => cut.errors = 0
    BY <1>1, <1>2, <1>4 DEF CutSound
  <2>2. /\ cut.errors \in Nat /\ raw.errors \in Nat /\ s.errors \in Nat /\ Budget \in Nat
        /\ Size(cut) \in Nat /\ Size(raw) \in Nat /\ Size(s) \in Nat
    BY <1>4, <1>5, SizeIs, AssumedInteraction DEF Result
  <2>3. next.base = raw.base /\ Size(next) < Size(raw)
    BY <1>5, <1>7, <2>1, <2>2
  <2>4. raw.visits = Absent => next.visits = Absent
    BY <1>5, <1>7, <2>1
  <2>5. next.errors <= raw.errors /\ (next.errors < raw.errors => next.entries \in {0, Absent})
    BY <1>5, <1>7, <2>1, <2>2
  <2>6. next.visits # raw.visits => next.errors = 0
    BY <1>5, <1>7, <2>1, <2>2
  <2>7. next.visits # Absent \/ raw.visits = Absent => Size(next) >= Budget
    BY <1>5, <1>7, <2>1, <2>2
  <2>8. result'[b].raw = raw /\ result'[b].bounded = next /\ ~At(b, "returned")'
    BY <1>3, <1>9, <1>10 DEF At
  <2> QED BY <1>7, <2>1, <2>3, <2>4, <2>5, <2>6, <2>7, <2>8 DEF CutSound
<1>16. ASSUME NEW k \in 1..Len(runs), runs[k].b = b PROVE RunSound(k)'
  <2>1. RunSound(k)
    BY RunFields
  <2> QED BY <1>3, <1>16, <2>1 DEF RunSound, Acting, At
<1>17. ASSUME NEW j \in 1..Len(scripts), scripts[j].b = b PROVE ScriptSound(j)'
  <2>1. ScriptSound(j)
    BY ScriptFields
  <2> QED BY <1>3, <1>17, <2>1 DEF ScriptSound, Acting, At, Script, Current
<1> QED BY <1>3, <1>11, <1>12, <1>13, <1>14, <1>15, <1>16, <1>17, OneBatch

\* The first script is the only one of its batch, and it is taken from the queue.
LEMMA HeadTaken ==
  ASSUME InteractionInv, scripts # <<>>, scripts' = Tail(scripts), NEW s, s = Head(scripts)
  PROVE  /\ s.b \in Batches /\ s.i \in Nat \ {0} /\ s.try \in Nat
         /\ scripts' \in Seq(ScriptType) /\ Len(scripts') \in Nat
         /\ \A j \in 1..Len(scripts') :
              /\ j + 1 \in 1..Len(scripts) /\ scripts'[j] = scripts[j + 1] /\ scripts'[j].b # s.b
              /\ \A k \in 1..Len(scripts') : scripts'[k].b = scripts'[j].b => k = j
         /\ \/ At(s.b, "evaluating") /\ s = Script(s.b) /\ channel[s.b] = Absent
            \/ ~Acting(s.b) /\ s.i = Len(steps[s.b]) /\ steps[s.b][s.i] = "timeout"
         /\ \A k \in 1..Len(runs) : runs[k].b = s.b =>
              runs[k].i <= s.i /\ (runs[k].i = s.i => runs[k].try < s.try /\ ~runs[k].found)
<1>1. scripts \in Seq(ScriptType)
  BY DEF InteractionInv, InteractionTypes
<1>2. /\ s = scripts[1] /\ 1 \in 1..Len(scripts) /\ Len(scripts) \in Nat
      /\ scripts' \in Seq(ScriptType) /\ Len(scripts') = Len(scripts) - 1 /\ Len(scripts') \in Nat
      /\ \A j \in 1..Len(scripts') : scripts'[j] = scripts[j + 1]
  BY <1>1, HeadTailProperties, EmptySeq, LenProperties
<1>3. ScriptSound(1) /\ scripts[1].b \in Batches /\ scripts[1].i \in Nat \ {0} /\ scripts[1].try \in Nat
  BY <1>2, ScriptFields
<1>4. ASSUME NEW j \in 1..Len(scripts')
      PROVE  /\ j + 1 \in 1..Len(scripts) /\ scripts'[j] = scripts[j + 1] /\ scripts'[j].b # s.b
             /\ \A k \in 1..Len(scripts') : scripts'[k].b = scripts'[j].b => k = j
  <2>1. j + 1 \in 1..Len(scripts) /\ j + 1 # 1 /\ scripts'[j] = scripts[j + 1]
    BY <1>2
  <2>2. scripts[j + 1].b # s.b
    BY <1>2, <1>3, <2>1 DEF ScriptSound
  <2>3. ScriptSound(j + 1)
    BY <2>1, ScriptFields
  <2>4. ASSUME NEW k \in 1..Len(scripts'), scripts'[k].b = scripts'[j].b PROVE k = j
    <3>1. k + 1 \in 1..Len(scripts) /\ scripts'[k] = scripts[k + 1]
      BY <1>2
    <3>2. k + 1 = j + 1
      BY <2>1, <2>3, <2>4, <3>1 DEF ScriptSound
    <3> QED BY <3>2
  <2> QED BY <2>1, <2>2, <2>4
<1>5. PICK b \in Batches : b = s.b
  BY <1>2, <1>3
<1>6. /\ \/ At(b, "evaluating") /\ s = Script(b) /\ channel[b] = Absent
         \/ ~Acting(b) /\ s.i = Len(steps[b]) /\ steps[b][s.i] = "timeout"
      /\ \A k \in 1..Len(runs) : runs[k].b = b =>
           runs[k].i <= s.i /\ (runs[k].i = s.i => runs[k].try < s.try /\ ~runs[k].found)
  BY <1>2, <1>3, <1>5 DEF ScriptSound
<1>7. s.b \in Batches /\ s.i \in Nat \ {0} /\ s.try \in Nat
  BY <1>2, <1>3
<1> QED BY <1>2, <1>4, <1>5, <1>6, <1>7

\* The scripts that remain are of other batches.
LEMMA RestIsSound ==
  ASSUME InteractionInv, scripts # <<>>, scripts' = Tail(scripts), UNCHANGED <<work, steps>>,
         NEW s, s = Head(scripts), \A d \in Batches \ {s.b} : channel'[d] = channel[d],
         \A k \in 1..Len(runs') : runs'[k].b # s.b => k \in 1..Len(runs) /\ runs'[k] = runs[k]
  PROVE  \A j \in 1..Len(scripts') : ScriptSound(j)'
<1> SUFFICES ASSUME NEW j \in 1..Len(scripts') PROVE ScriptSound(j)'
  OBVIOUS
<1>1. PICK i : i = j + 1
  OBVIOUS
<1>2. /\ i \in 1..Len(scripts) /\ scripts'[j] = scripts[i] /\ scripts'[j].b # s.b
      /\ \A k \in 1..Len(scripts') : scripts'[k].b = scripts'[j].b => k = j
  BY <1>1, HeadTaken
<1>3. ScriptSound(i) /\ scripts[i].b \in Batches
  BY <1>2, ScriptFields
<1>4. PICK d \in Batches : d = scripts[i].b
  BY <1>3
<1>5. channel'[d] = channel[d] /\ d # s.b /\ scripts'[j].b = d
  BY <1>2, <1>4
<1>6. \/ At(d, "evaluating")' /\ scripts'[j] = Script(d)' /\ channel'[d] = Absent
      \/ ~Acting(d)' /\ scripts'[j].i = Len(steps'[d]) /\ steps'[d][scripts'[j].i] = "timeout"
  BY <1>2, <1>3, <1>4, <1>5 DEF ScriptSound, Acting, At, Script, Current
<1>7. \A k \in 1..Len(runs') : runs'[k].b = d =>
        /\ runs'[k].i <= scripts'[j].i
        /\ runs'[k].i = scripts'[j].i => runs'[k].try < scripts'[j].try /\ ~runs'[k].found
  BY <1>2, <1>3, <1>4, <1>5 DEF ScriptSound
<1> QED BY <1>2, <1>5, <1>6, <1>7 DEF ScriptSound

LEMMA LoseKeeps == ASSUME InteractionInv, LoseScript PROVE InteractionInv'
<1>1. PICK s, b : s = Head(scripts) /\ b = s.b
  OBVIOUS
<1>2. /\ scripts # <<>> /\ scripts' = Tail(scripts)
      /\ UNCHANGED <<present, changes, runs, batch, work, steps, result>>
      /\ Deliver(s, "script_error") \/ UNCHANGED channel
  BY <1>1 DEF LoseScript
<1>3. /\ b \in Batches /\ scripts' \in Seq(ScriptType)
      /\ \/ At(b, "evaluating") /\ s = Script(b) /\ channel[b] = Absent
         \/ ~Acting(b)
  BY <1>1, <1>2, HeadTaken
<1>4. /\ channel' \in [Batches -> Answers] /\ \A d \in Batches \ {b} : channel'[d] = channel[d]
      /\ channel'[b] = channel[b] \/ (At(b, "evaluating") /\ channel'[b] = "script_error")
  <2>1. channel \in [Batches -> Answers] /\ "script_error" \in Answers
    BY DEF InteractionInv, InteractionTypes, Answers, Codes
  <2> QED BY <1>1, <1>2, <1>3, <2>1 DEF Deliver, At
<1>5. InteractionTypes'
  BY <1>2, <1>3, <1>4 DEF InteractionInv, InteractionTypes
<1>6. ASSUME NEW d \in Batches PROVE BatchSound(d)' /\ FoundSound(d)' /\ CutSound(d)'
  <2>1. BatchSound(d) /\ FoundSound(d) /\ CutSound(d)
    BY BatchFields
  <2>2. BatchSound(d)' /\ CutSound(d)'
    BY <1>2, <2>1 DEF BatchSound, AllOk, Acting, Reporting, CutSound, At
  <2>3. channel'[d] = "ok" => channel[d] = "ok"
    BY <1>4
  <2>4. FoundSound(d)'
    BY <1>2, <2>1, <2>3 DEF FoundSound, FoundNow, Found, At
  <2> QED BY <2>2, <2>4
<1>7. \A j \in 1..Len(scripts') : ScriptSound(j)'
  BY <1>1, <1>2, <1>4, RestIsSound
<1>8. ASSUME NEW k \in 1..Len(runs) PROVE RunSound(k)'
  <2>1. RunSound(k) /\ runs[k].b \in Batches
    BY RunFields
  <2>2. channel'[runs[k].b] = "not_found" => channel[runs[k].b] = "not_found"
    BY <1>4, <2>1
  <2> QED BY <1>2, <2>1, <2>2 DEF RunSound, Acting, At
<1>9. RunsOrdered'
  BY <1>2 DEF InteractionInv, RunsOrdered
<1> QED BY <1>2, <1>5, <1>6, <1>7, <1>8, <1>9 DEF InteractionInv

LEMMA RunKeeps == ASSUME InteractionInv, RunScript PROVE InteractionInv'
<1>1. PICK s, b, n : s = Head(scripts) /\ b = s.b /\ n = Len(steps[b])
  OBVIOUS
<1>2. PICK run : run = [b |-> b, i |-> s.i, try |-> s.try, found |-> present]
  OBVIOUS
<1>3. /\ scripts # <<>> /\ scripts' = Tail(scripts) /\ runs' = Append(runs, run)
      /\ UNCHANGED <<present, changes, batch, work, steps, result>>
      /\ Deliver(s, IF present THEN "ok" ELSE "not_found") \/ UNCHANGED channel
  BY <1>1, <1>2 DEF RunScript
<1>4. /\ b \in Batches /\ scripts' \in Seq(ScriptType) /\ s.i \in Nat \ {0} /\ s.try \in Nat
      /\ \/ At(b, "evaluating") /\ s = Script(b) /\ channel[b] = Absent
         \/ ~Acting(b) /\ s.i = n /\ steps[b][s.i] = "timeout"
      /\ \A k \in 1..Len(runs) : runs[k].b = b =>
           runs[k].i <= s.i /\ (runs[k].i = s.i => runs[k].try < s.try /\ ~runs[k].found)
  BY <1>1, <1>3, HeadTaken
<1>5. /\ work[b] \in WorkType /\ n \in Nat /\ BatchSound(b) /\ FoundSound(b) /\ work[b].tries \in Nat
  BY <1>1, <1>4, BatchFields, AssumedInteraction DEF WorkType
<1>6. /\ channel' \in [Batches -> Answers] /\ \A d \in Batches \ {b} : channel'[d] = channel[d]
      /\ \/ channel'[b] = channel[b]
         \/ At(b, "evaluating") /\ channel'[b] = (IF present THEN "ok" ELSE "not_found")
  <2>1. channel \in [Batches -> Answers] /\ "ok" \in Answers /\ "not_found" \in Answers
    BY DEF InteractionInv, InteractionTypes, Answers, Codes
  <2> QED BY <1>1, <1>3, <1>4, <2>1 DEF Deliver, At
<1>7. PICK last : last = Len(runs) + 1
  OBVIOUS
<1>8. /\ run \in RunType /\ run.b = b /\ run.i = s.i /\ run.try = s.try /\ run.found = present
      /\ runs' \in Seq(RunType) /\ Len(runs) \in Nat /\ Len(runs') = last /\ runs'[last] = run
      /\ \A k \in 1..Len(runs) : runs'[k] = runs[k]
      /\ \A k \in 1..last : k \in 1..Len(runs) \/ k = last
  <2>1. present \in BOOLEAN /\ runs \in Seq(RunType)
    BY DEF InteractionInv, InteractionTypes
  <2>2. run \in RunType /\ run.b = b /\ run.i = s.i /\ run.try = s.try /\ run.found = present
    BY <1>2, <1>4, <2>1 DEF RunType
  <2> QED BY <1>3, <1>7, <2>1, <2>2, AppendProperties, LenProperties
<1>9. InteractionTypes'
  BY <1>3, <1>4, <1>6, <1>8 DEF InteractionInv, InteractionTypes
<1>10. At(b, "evaluating") => s.i = n + 1 /\ s.try = work[b].tries /\ channel[b] = Absent
  <2>1. At(b, "evaluating") => Acting(b)
    BY DEF At, Acting
  <2> QED BY <1>1, <1>4, <2>1 DEF Script, Current
<1>11. ASSUME NEW d \in Batches, NEW i, Found(d, i) PROVE Found(d, i)'
  <2>1. PICK k \in 1..Len(runs) : runs[k].b = d /\ runs[k].i = i /\ runs[k].found
    BY <1>11 DEF Found
  <2>2. k \in 1..Len(runs') /\ runs'[k] = runs[k]
    BY <1>7, <1>8
  <2> QED BY <2>1, <2>2 DEF Found
<1>12. ASSUME present, NEW i, i = s.i PROVE Found(b, i)'
  <2>1. last \in 1..Len(runs') /\ runs'[last] = run
    BY <1>7, <1>8
  <2>2. run.b = b /\ run.i = i /\ run.found
    BY <1>8, <1>12
  <2>3. runs'[last].b = b /\ runs'[last].i = i /\ runs'[last].found
    BY <2>1, <2>2
  <2> QED BY <2>1, <2>3 DEF Found
<1>13. ASSUME NEW d \in Batches PROVE BatchSound(d)' /\ FoundSound(d)' /\ CutSound(d)'
  <2>1. BatchSound(d) /\ FoundSound(d) /\ CutSound(d)
    BY BatchFields
  <2>2. BatchSound(d)' /\ CutSound(d)'
    BY <1>3, <2>1 DEF BatchSound, AllOk, Acting, Reporting, CutSound, At
  <2>3. \A i \in 1..Len(steps[d]) : steps[d][i] = "ok" => Found(d, i)'
    BY <1>11, <2>1 DEF FoundSound
  <2>4. ASSUME At(d, "evaluating"), channel'[d] = "ok", NEW m, m = Len(steps[d]) + 1 PROVE Found(d, m)'
    <3>1. CASE channel[d] = "ok"
      <4>1. Found(d, m)
        BY <2>1, <2>4, <3>1 DEF FoundSound, FoundNow
      <4> QED BY <1>11, <4>1
    <3>2. CASE channel[d] # "ok"
      <4>1. d = b /\ present
        BY <1>6, <2>4, <3>2
      <4>2. m = s.i
        BY <1>1, <1>10, <2>4, <4>1
      <4> QED BY <1>12, <4>1, <4>2
    <3> QED BY <3>1, <3>2
  <2>5. FoundSound(d)'
    BY <1>3, <2>3, <2>4 DEF FoundSound, FoundNow, At
  <2> QED BY <2>2, <2>5
<1>14. \A j \in 1..Len(scripts') : ScriptSound(j)'
  <2>1. \A k \in 1..Len(runs') : runs'[k].b # b => k \in 1..Len(runs) /\ runs'[k] = runs[k]
    BY <1>8
  <2> QED BY <1>1, <1>3, <1>6, <2>1, RestIsSound
<1>15. ASSUME NEW k \in 1..last PROVE RunSound(k)'
  <2>1. CASE k \in 1..Len(runs)
    <3>1. RunSound(k) /\ runs[k].b \in Batches /\ runs'[k] = runs[k]
      BY <1>8, <2>1, RunFields
    <3>2. CASE runs[k].b # b \/ channel'[b] = channel[b]
      <4>1. channel'[runs[k].b] = channel[runs[k].b]
        BY <1>6, <3>1, <3>2
      <4> QED BY <1>3, <3>1, <4>1 DEF RunSound, Acting, At
    <3>3. CASE runs[k].b = b /\ At(b, "evaluating")
      <4>1. runs[k].i = n + 1 => ~runs[k].found
        BY <1>4, <1>10, <2>1, <3>3
      <4> QED BY <1>1, <1>3, <3>1, <3>3, <4>1 DEF RunSound, Acting, At
    <3> QED BY <1>6, <3>2, <3>3
  <2>2. CASE k = last
    <3>1. CASE At(b, "evaluating")
      <4>1. s.i = n + 1 /\ s.try = work[b].tries /\ channel[b] = Absent
        BY <1>10, <3>1
      <4>2. present => channel'[b] # "not_found"
        BY <1>6, <4>1, AssumedInteraction DEF Codes
      <4>3. work'[b].at = "evaluating" /\ Acting(b)'
        BY <1>3, <3>1 DEF At, Acting
      <4> QED BY <1>1, <1>3, <1>5, <1>8, <2>2, <4>1, <4>2, <4>3 DEF RunSound, At
    <3>2. CASE s.i = n /\ steps[b][s.i] = "timeout"
      BY <1>1, <1>3, <1>5, <1>8, <2>2, <3>2 DEF RunSound
    <3> QED BY <1>4, <3>1, <3>2
  <2> QED BY <1>8, <2>1, <2>2
<1>16. RunsOrdered'
  <2> SUFFICES ASSUME NEW j \in 1..last, NEW k \in 1..last, j < k, runs'[j].b = runs'[k].b
               PROVE  /\ runs'[j].i <= runs'[k].i
                      /\ runs'[j].i = runs'[k].i => runs'[j].try < runs'[k].try /\ ~runs'[j].found
    BY <1>8 DEF RunsOrdered
  <2>1. j \in 1..Len(runs) /\ runs'[j] = runs[j]
    BY <1>7, <1>8
  <2>2. CASE k \in 1..Len(runs)
    <3>1. RunsOrdered /\ runs'[k] = runs[k]
      BY <1>8, <2>2 DEF InteractionInv
    <3> QED BY <2>1, <2>2, <3>1 DEF RunsOrdered
  <2>3. CASE k = last
    BY <1>4, <1>8, <2>1, <2>3
  <2> QED BY <1>8, <2>2, <2>3
<1> QED BY <1>8, <1>9, <1>13, <1>14, <1>15, <1>16 DEF InteractionInv

LEMMA InteractionStep == InteractionInv /\ [InteractionNext]_interactionVars => InteractionInv'
<1> SUFFICES ASSUME InteractionInv, [InteractionNext]_interactionVars PROVE InteractionInv'
  OBVIOUS
<1>1. CASE PageChanges
  <2>1. present' = ~present /\ UNCHANGED <<scripts, runs, batch, work, steps, channel, result>>
    BY <1>1 DEF PageChanges
  <2>2. InteractionTypes'
    BY <2>1 DEF InteractionInv, InteractionTypes
  <2> QED BY <2>1, <2>2, StutterKeeps
<1>2. CASE UNCHANGED interactionVars
  <2>1. UNCHANGED <<present, scripts, runs, batch, work, steps, channel, result>>
    BY <1>2 DEF interactionVars, pageVars
  <2>2. InteractionTypes'
    BY <2>1 DEF InteractionInv, InteractionTypes
  <2> QED BY <2>1, <2>2, StutterKeeps
<1>3. CASE RunScript \/ LoseScript
  BY <1>3, RunKeeps, LoseKeeps
<1>4. CASE \E b \in Batches : Expire(b) \/ Works(b)
  BY <1>4, ExpireKeeps, EvaluateKeeps, FailingKeeps, AnsweredKeeps, PollKeeps, ObserveKeeps, CutKeeps,
     ReturnKeeps DEF Works
<1> QED BY <1>1, <1>2, <1>3, <1>4 DEF InteractionNext

THEOREM InteractionInvariant == InteractionSpec => []InteractionInv
BY InteractionStarts, InteractionStep, PTL DEF InteractionSpec

\* A batch runs each of its steps in order and reports what became of it: what it calls ok has
\* found its element once, what it calls not found has found nothing, also when scripts run late
\* (execute, evaluate).
THEOREM StepsAreAlwaysTrue == InteractionSpec => []StepsAreTrue
<1>1. ASSUME InteractionInv PROVE StepsAreTrue
  <2>1. StepsInOrder
    <3> SUFFICES ASSUME NEW b \in Batches, NEW j \in 1..Len(runs), NEW k \in 1..Len(runs),
                        runs[j].b = b, runs[k].b = b
                 PROVE  /\ j < k => runs[j].i <= runs[k].i /\ (runs[j].i = runs[k].i => runs[j].try < runs[k].try)
                        /\ \A i \in 1..runs[k].i - 1 : steps[b][i] = "ok"
      BY DEF StepsInOrder
    <3>1. RunsOrdered
      BY <1>1 DEF InteractionInv
    <3>2. RunSound(k) /\ runs[k].i \in Nat /\ BatchSound(b) /\ Len(steps[b]) \in Nat
      BY <1>1, RunFields, BatchFields
    <3>3. /\ runs[k].i <= Len(steps[b]) + 1 /\ AllOk(b, Len(steps[b]) - 1)
          /\ runs[k].i = Len(steps[b]) + 1 => AllOk(b, Len(steps[b]))
      BY <3>2 DEF RunSound, BatchSound
    <3>4. ASSUME NEW i \in 1..runs[k].i - 1 PROVE steps[b][i] = "ok"
      <4>1. CASE runs[k].i = Len(steps[b]) + 1
        BY <3>2, <3>3, <4>1 DEF AllOk
      <4>2. CASE runs[k].i <= Len(steps[b])
        BY <3>2, <3>3, <4>2 DEF AllOk
      <4> QED BY <3>2, <3>3, <4>1, <4>2
    <3> QED BY <3>1, <3>4 DEF RunsOrdered
  <2>2. ASSUME NEW b \in Batches, NEW i \in 1..Len(steps[b]), steps[b][i] = "ok" PROVE FoundOnce(b, i)
    <3>1. FoundSound(b) /\ RunsOrdered
      BY <1>1 DEF InteractionInv
    <3>2. PICK k \in 1..Len(runs) : runs[k].b = b /\ runs[k].i = i /\ runs[k].found
      BY <2>2, <3>1 DEF FoundSound, Found
    <3>3. ASSUME NEW j \in 1..Len(runs), runs[j].b = b, runs[j].i = i, runs[j].found PROVE j = k
      <4>1. ~(j < k) /\ ~(k < j)
        BY <3>1, <3>2, <3>3 DEF RunsOrdered
      <4> QED BY <4>1
    <3>4. {j \in Runs(b, i) : runs[j].found} = {k}
      BY <3>2, <3>3 DEF Runs
    <3> QED BY <3>4, FS_Singleton DEF FoundOnce
  <2>3. CompletedIsDone
    <3> SUFFICES ASSUME NEW b \in Batches, result[b] # Absent, result[b].completed, NEW i \in 1..Len(batch[b])
                 PROVE  FoundOnce(b, i)
      BY DEF CompletedIsDone
    <3>1. Len(steps[b]) = Len(batch[b]) /\ AllOk(b, Len(steps[b]))
      BY <1>1, BatchFields DEF BatchSound
    <3> QED BY <2>2, <3>1 DEF AllOk
  <2>4. ASSUME NEW b \in Batches, NEW i \in 1..Len(steps[b]), steps[b][i] = "not_found"
        PROVE  \A k \in Runs(b, i) : ~runs[k].found
    <3> SUFFICES ASSUME NEW k \in 1..Len(runs), runs[k].b = b, runs[k].i = i PROVE ~runs[k].found
      BY DEF Runs
    <3>1. RunSound(k) /\ Len(steps[b]) \in Nat
      BY <1>1, RunFields, BatchFields
    <3> QED BY <2>4, <3>1 DEF RunSound
  <2> QED BY <2>1, <2>2, <2>3, <2>4 DEF StepsAreTrue
<1> QED BY <1>1, InteractionInvariant, PTL

\* A result that is returned fits the frame or has nothing left to cut; it is cut no further than
\* needed, in the order of its parts, and says so (bound_result_for_frame).
THEOREM ResultsAreBounded == InteractionSpec => []ResultIsBounded
<1>1. ASSUME InteractionInv PROVE ResultIsBounded
  <2> SUFFICES ASSUME NEW b \in Batches, result[b] # Absent
               PROVE  LET raw == result[b].raw  cut == result[b].bounded IN
                      /\ At(b, "returned") => Size(cut) <= Budget \/ (cut.entries = Absent /\ cut.visits = Absent)
                      /\ cut.truncated <=> [cut EXCEPT !.truncated = FALSE] # raw
                      /\ cut.errors < raw.errors => cut.entries \in {0, Absent}
                      /\ cut.visits # raw.visits => cut.errors = 0
                      /\ cut # raw /\ (cut.visits # Absent \/ raw.visits = Absent) => Size(cut) >= Budget
                      /\ cut.base = raw.base
    BY DEF ResultIsBounded
  <2>0. PICK raw, cut : raw = result[b].raw /\ cut = result[b].bounded
    OBVIOUS
  <2>1. CutSound(b) /\ raw \in Result /\ cut \in Result
    BY <1>1, <2>0, BatchFields DEF BatchResult
  <2>2. /\ ~raw.truncated /\ cut.base = raw.base
        /\ cut.truncated => Size(cut) < Size(raw)
        /\ ~cut.truncated => cut = raw
        /\ cut.errors < raw.errors => cut.entries \in {0, Absent}
        /\ cut.visits # raw.visits => cut.errors = 0
        /\ cut.truncated /\ (cut.visits # Absent \/ raw.visits = Absent) => Size(cut) >= Budget
        /\ At(b, "returned") => Bounded(cut)
    BY <2>0, <2>1 DEF CutSound
  <2>3. At(b, "returned") => Size(cut) <= Budget \/ (cut.entries = Absent /\ cut.visits = Absent)
    <3>1. Shrink(cut) = cut => cut.entries = Absent /\ cut.visits = Absent
      <4>1. Size(cut) \in Nat
        BY <2>1, SizeIs
      <4> QED BY <2>1, <4>1, ShrinkIs
    <3> QED BY <2>2, <3>1 DEF Bounded
  <2>4. cut.truncated <=> [cut EXCEPT !.truncated = FALSE] # raw
    <3>1. PICK plain : plain = [cut EXCEPT !.truncated = FALSE]
      OBVIOUS
    <3>2. /\ plain.base = cut.base /\ plain.entries = cut.entries /\ plain.errors = cut.errors
          /\ plain.visits = cut.visits /\ ~plain.truncated /\ plain \in Result
      BY <2>1, <3>1 DEF Result
    <3>3. Size(plain) = Size(cut)
      BY <3>2 DEF Size
    <3>4. CASE cut.truncated
      <4>1. Size(cut) \in Nat /\ Size(raw) \in Nat /\ Size(cut) < Size(raw)
        BY <2>1, <2>2, <3>4, SizeIs
      <4>2. plain # raw
        BY <3>3, <4>1
      <4> QED BY <3>1, <3>4, <4>2
    <3>5. CASE ~cut.truncated
      <4>1. plain = cut
        BY <2>1, <3>1, <3>5 DEF Result
      <4> QED BY <2>2, <3>1, <3>5, <4>1
    <3> QED BY <3>4, <3>5
  <2>5. cut # raw => cut.truncated
    BY <2>2
  <2> QED BY <2>0, <2>2, <2>3, <2>4, <2>5
<1> QED BY <1>1, InteractionInvariant, PTL

\* The page's scripts are of steps there are, and the executor keeps its types.
THEOREM InteractionTypesHold == InteractionSpec => []InteractionTypeOK
<1>1. ASSUME InteractionInv PROVE InteractionTypeOK
  <2>1. ASSUME NEW script \in ToSet(scripts) PROVE script.i \in 1..Len(batch[script.b])
    <3>1. PICK j \in 1..Len(scripts) : script = scripts[j]
      <4>1. scripts \in Seq(ScriptType)
        BY <1>1 DEF InteractionInv, InteractionTypes
      <4> QED BY <4>1, LenProperties DEF ToSet
    <3>2. PICK b \in Batches : b = script.b
      BY <1>1, <3>1, ScriptFields
    <3>3. script.i \in Nat \ {0} /\ ScriptSound(j)
      BY <1>1, <3>1, ScriptFields
    <3>4. Len(steps[b]) \in Nat /\ Len(batch[b]) \in Nat /\ BatchSound(b)
      BY <1>1, BatchFields
    <3>5. script.i <= Len(batch[b])
      <4>1. CASE At(b, "evaluating") /\ script = Script(b)
        <5>1. script.i = Len(steps[b]) + 1 /\ Len(steps[b]) < Len(batch[b])
          BY <3>4, <4>1 DEF BatchSound, Acting, At, Script, Current
        <5> QED BY <3>4, <5>1
      <4>2. CASE script.i = Len(steps[b])
        BY <3>4, <4>2 DEF BatchSound
      <4> QED BY <3>1, <3>2, <3>3, <4>1, <4>2 DEF ScriptSound
    <3> QED BY <3>2, <3>3, <3>4, <3>5
  <2>2. ASSUME NEW b \in Batches
        PROVE  /\ work[b].at \in {"next", "evaluating", "observe", "cutting", "returned"} /\ work[b].tries < MaxPolls
               /\ steps[b] \in Seq(Codes) /\ Len(steps[b]) <= Len(batch[b])
               /\ channel[b] \in (Codes \ {"timeout"}) \union {Absent}
               /\ result[b] = Absent <=> work[b].at \notin {"cutting", "returned"}
    <3>1. /\ work[b] \in WorkType /\ steps[b] \in Seq(Codes) /\ channel[b] \in Answers /\ BatchSound(b)
      BY <1>1, BatchFields
    <3>2. work[b].at \in {"next", "evaluating", "observe", "cutting", "returned"} /\ work[b].tries < MaxPolls
      BY <3>1, AssumedInteraction DEF WorkType
    <3> QED BY <3>1, <3>2 DEF BatchSound, Reporting, Answers
  <2> QED BY <2>1, <2>2 DEF InteractionTypeOK
<1> QED BY <1>1, InteractionInvariant, PTL

-----------------------------------------------------------------------------
(* The sum *)

\* A behaviour of the sum is one of every part: the part that acts takes one of its own steps.
LEMMA PartsRun ==
  ServicesSpec => Spec /\ WorkspaceSpec /\ PageSpec /\ SocketSpec /\ ExchangeSpec /\ InteractionSpec
<1>1. ServicesInit => Init /\ WorkspaceInit /\ PageInit /\ SocketInit /\ ExchangeInit /\ InteractionInit
  BY DEF ServicesInit
<1>2. [ServicesNext]_servicesVars =>
        /\ [Next]_dbVars /\ [WorkspaceNext]_workspaceVars /\ [PageNext]_pageLoadVars /\ [SocketNext]_socketVars
        /\ [ExchangeNext]_exchangeVars /\ [InteractionNext]_interactionVars
  BY DEF ServicesNext, servicesVars, OnWorker, OnWorkspaces, OnPage, OnSocket, OnExchange, OnInteraction
<1> QED BY <1>1, <1>2, PTL DEF ServicesSpec, Spec, WorkspaceSpec, PageSpec, SocketSpec, ExchangeSpec, InteractionSpec

\* The types of every part, in a behaviour that exercises any of them.
THEOREM ServicesTypesHold == ServicesSpec => []ServicesTypeOK
<1>1. ServicesTypeOK <=> TypeOK /\ WorkspaceTypeOK /\ PageTypeOK /\ SocketTypeOK /\ ExchangeTypeOK /\ InteractionTypeOK
  BY DEF ServicesTypeOK
<1> QED BY <1>1, PartsRun, TypeCorrect, PlacementTypesHold, PageTypesHold, SocketTypeCorrect, ExchangeTypeCorrect,
           InteractionTypesHold, PTL
=============================================================================
