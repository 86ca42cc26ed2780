----------------------------- MODULE HostSocket -----------------------------
(***************************************************************************)
(* How a host takes the socket path (ipc.rs, main.rs): it looks at what is *)
(* there, probes a socket for a listener, removes a stale one, binds its   *)
(* own and only then opens the database.  Each system call is one step;    *)
(* hosts may be started at any moment and end by a signal, which leaves    *)
(* the socket behind: the event loop refuses every orderly exit.           *)
(*                                                                         *)
(* The file system and the kernel's listeners are external.  A path is a   *)
(* name for an inode; an inode is never used again.                        *)
(***************************************************************************)
EXTENDS Naturals, FiniteSets

CONSTANTS
  Hosts,      \* host processes; each runs once
  Foreign,    \* a model value: the inode of a file that is no socket
  NoInode,    \* a model value
  Paths       \* bound: what is at the path at first: NoInode, Foreign or 0, a stale socket

ASSUME HostSocketAssumption ==
  /\ Foreign \notin Hosts \union {0} /\ NoInode \notin Hosts \union {0, Foreign}
  /\ Paths \subseteq {NoInode, Foreign, 0}

VARIABLES
  atPath,     \* the file system: the inode at the path; a host's socket is named by the host
  listening,  \* the kernel: the inodes with a listener
  host,       \* the step each host is at
  cleanup,    \* SocketCleanup: the inode each host removes when it is dropped
  strayed     \* history: whether two hosts were starting at once, or a server stopped in a host that lives on

socketVars == <<atPath, listening, host, cleanup, strayed>>

Starting == {"look", "probe", "remove", "bind", "listen", "chmod", "claim", "setup"}
\* The hosts that have bound the path, and so may open the database.
Holding == {"listen", "chmod", "claim", "setup", "serving"}
Stages == Starting \union {"off", "serving", "mute", "failed", "killed"}

SocketInit ==
  /\ atPath \in Paths
  /\ listening = {}
  /\ host = [h \in Hosts |-> "off"]
  /\ cleanup = [h \in Hosts |-> NoInode]
  /\ strayed = FALSE

Move(h, from, to) == host[h] = from /\ host' = [host EXCEPT ![h] = to]
Silent(h) == listening' = listening \ {h}

Launch(h) ==
  /\ Move(h, "off", "look")
  /\ strayed' = (strayed \/ \E g \in Hosts : host[g] \in Starting)
  /\ UNCHANGED <<atPath, listening, cleanup>>

-----------------------------------------------------------------------------
(* recover_stale_socket *)

LookAtPath(h) ==
  /\ \/ atPath = NoInode /\ Move(h, "look", "bind")
     \/ atPath = Foreign /\ Move(h, "look", "failed")
     \/ atPath \notin {NoInode, Foreign} /\ Move(h, "look", "probe")
  /\ UNCHANGED <<atPath, listening, cleanup, strayed>>

\* Fault: a socket somebody listens on counts as stale.
ProbeNothing(h) ==
  /\ Move(h, "probe", "remove")
  /\ UNCHANGED <<atPath, listening, cleanup, strayed>>

Probe(h) ==
  /\ \/ atPath \in listening /\ Move(h, "probe", "failed")
     \/ atPath = NoInode /\ Move(h, "probe", "bind")
     \/ atPath \notin listening \union {NoInode} /\ Move(h, "probe", "remove")
  /\ UNCHANGED <<atPath, listening, cleanup, strayed>>

\* remove_file removes what is there now, and fails when nothing is.
RemoveStale(h) ==
  /\ \/ atPath # NoInode /\ atPath' = NoInode /\ Move(h, "remove", "bind")
     \/ atPath = NoInode /\ Move(h, "remove", "failed") /\ UNCHANGED atPath
  /\ UNCHANGED <<listening, cleanup, strayed>>

-----------------------------------------------------------------------------
(* bind_listener and setup *)

BindPath(h) ==
  /\ \/ atPath = NoInode /\ atPath' = h /\ Move(h, "bind", "listen")
     \/ atPath # NoInode /\ Move(h, "bind", "failed") /\ UNCHANGED atPath
  /\ UNCHANGED <<listening, cleanup, strayed>>

\* UnixListener::bind binds and listens in two calls.
Listen(h) ==
  /\ Move(h, "listen", "chmod")
  /\ listening' = listening \union {h}
  /\ UNCHANGED <<atPath, cleanup, strayed>>

\* set_permissions, set_nonblocking and from_std: a failure removes the path.
Prepare(h) ==
  /\ \/ atPath # NoInode /\ Move(h, "chmod", "claim") /\ UNCHANGED <<atPath, listening>>
     \/ Move(h, "chmod", "failed") /\ atPath' = NoInode /\ Silent(h)
  /\ UNCHANGED <<cleanup, strayed>>

\* SocketCleanup::for_bound_socket takes the inode that is at the path now.
Claim(h) ==
  /\ \/ /\ atPath \notin {NoInode, Foreign} /\ Move(h, "claim", "setup")
        /\ cleanup' = [cleanup EXCEPT ![h] = atPath]
        /\ UNCHANGED listening
     \/ /\ atPath \in {NoInode, Foreign} /\ Move(h, "claim", "failed")
        /\ Silent(h)
        /\ UNCHANGED cleanup
  /\ UNCHANGED <<atPath, strayed>>

\* Dropping SocketCleanup.
DropCleanup(h) == atPath' = IF atPath = cleanup[h] THEN NoInode ELSE atPath

\* The database, the profile, the video server or the tray fails: setup panics, and the state
\* is dropped as the stack unwinds, or not.
SetUp(h) ==
  /\ \/ Move(h, "setup", "serving") /\ UNCHANGED <<atPath, listening>>
     \/ /\ Move(h, "setup", "failed")
        /\ Silent(h)
        /\ DropCleanup(h) \/ UNCHANGED atPath
  /\ UNCHANGED <<cleanup, strayed>>

\* accept fails: serve returns and drops the listener.  The exit it asks for is prevented.
ServeFails(h) ==
  /\ Move(h, "serving", "mute")
  /\ Silent(h)
  /\ strayed' = TRUE
  /\ UNCHANGED <<atPath, cleanup>>

\* A signal ends the process; nothing is dropped.
Kill(h) ==
  /\ host[h] \in Starting \union {"serving", "mute"}
  /\ host' = [host EXCEPT ![h] = "killed"]
  /\ Silent(h)
  /\ UNCHANGED <<atPath, cleanup, strayed>>

Starts(h) ==
  LookAtPath(h) \/ Probe(h) \/ RemoveStale(h) \/ BindPath(h) \/ Listen(h) \/ Prepare(h) \/ Claim(h) \/ SetUp(h)

SocketNext == \E h \in Hosts : Launch(h) \/ Starts(h) \/ ServeFails(h) \/ Kill(h)

SocketSpec == SocketInit /\ [][SocketNext]_socketVars
SocketFairness == \A h \in Hosts : WF_socketVars(Starts(h))

-----------------------------------------------------------------------------
(* Properties *)

\* The types of the path, the listeners and the hosts.
SocketTypeOK ==
  /\ atPath \in Hosts \union {0, Foreign, NoInode}
  /\ listening \subseteq Hosts
  /\ host \in [Hosts -> Stages]
  /\ cleanup \in [Hosts -> Hosts \union {0, NoInode}]

\* One host at a time holds the path, and so has the database open, however hosts are killed
\* and started again, provided that no two start at once (bind_listener before open_default).
OneHolder ==
  ~strayed => Cardinality({h \in Hosts : host[h] \in Holding}) <= 1

\* That one host listens, and the path leads to it and to no other (DEFAULT_IPC_PATH).
ServedPath ==
  /\ OneHolder
  /\ ~strayed => \A h \in Hosts :
       host[h] \in {"chmod", "claim", "setup", "serving"} => atPath = h /\ h \in listening

\* Every start comes to an end: the host serves, or it is gone.
StartsEnd == []<>(\A h \in Hosts : host[h] \notin Starting)
=============================================================================
