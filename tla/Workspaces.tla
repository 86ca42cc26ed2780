----------------------------- MODULE Workspaces -----------------------------
(***************************************************************************)
(* Where windows are on the user's desktops, and where the registry says   *)
(* they are (workspace.rs, workspace/linux.rs, workspace/windows.rs,       *)
(* tauri_window.rs).  The watcher of a window caches its placement and     *)
(* records the changes it learns of: on Windows from a thread that polls   *)
(* every window; on X11 from nothing, since the service's connection asks  *)
(* the server for the property events of the root window alone.  Requests  *)
(* read a placement and record it afterwards, or move a window.            *)
(*                                                                         *)
(* The desktops are external: the user moves windows, and the window       *)
(* manager serves a move when it likes, or never.                          *)
(***************************************************************************)
EXTENDS Naturals, Sequences, FiniteSets, SequencesExt

CONSTANTS
  Panes,         \* windows
  Desktops,      \* native desktops, from 0
  All,           \* a model value: the placement on every desktop (X11)
  Nowhere,       \* a model value: nothing recorded, cached or read
  Callers,       \* request handlers
  Platforms,     \* bound: the platforms of the run
  MaxTrail,      \* the registry's bound on workspace_history
  MaxMoves,      \* bound: moves by the user
  MaxRequests    \* bound: requests

ASSUME WorkspacesAssumption ==
  /\ Desktops \subseteq Nat /\ Desktops = 0..(Cardinality(Desktops) - 1)
  /\ All \notin Nat /\ Nowhere \notin Nat \union Panes \union {All}
  /\ Platforms \subseteq {"x11", "windows"}
  /\ MaxTrail \in Nat \ {0} /\ MaxMoves \in Nat /\ MaxRequests \in Nat

VARIABLES
  platform,   \* where the host runs
  onDesktop,  \* native: the placement of each window
  asked,      \* native: moves the window manager has not served, as [w, to]
  moved,      \* how often the user has moved a window
  open,       \* windows with a record and a handle
  watcher,    \* the placement each window's watcher caches, Nowhere without one
  placed,     \* the registry: [at, trail, truncated] of each window
  poller,     \* the polling thread: the windows it still has to look at, and what it read of one
  calls,      \* what each caller is doing: it opens, refreshes or moves a window
  called,     \* how many requests have begun
  passed,     \* history: windows whose record was written with a value their watcher had left
  reached     \* history: whether a window has been where its caller asked since it asked

nativeVars == <<platform, onDesktop, asked, moved>>
recordVars == <<placed, passed>>
workspaceVars == <<nativeVars, open, watcher, recordVars, poller, calls, called, reached>>

\* The index users see: Windows counts from 1, X11 from 0.
Base == IF platform = "windows" THEN 1 ELSE 0
Index(d) == IF d = All THEN All ELSE d + Base
\* Fault: the index of a move is taken for the desktop's own.
NativeUnshifted(index) == index

Native(index) == index - Base
Catalog == {Index(d) : d \in Desktops}
Placements == Nat \union {All}

NoCall == [kind |-> "none", w |-> Nowhere, to |-> Nowhere, at |-> "idle", read |-> Nowhere]
Resting == [todo |-> {}, w |-> Nowhere, read |-> Nowhere, at |-> "idle"]

WorkspaceInit ==
  /\ platform \in Platforms
  /\ onDesktop \in [Panes -> Desktops] /\ asked = {} /\ moved = 0
  /\ open = Panes
  /\ watcher = [w \in Panes |-> Nowhere]
  /\ placed = [w \in Panes |-> [at |-> Nowhere, trail |-> <<>>, truncated |-> FALSE]]
  /\ poller = Resting
  /\ calls = [c \in Callers |-> NoCall] /\ called = 0
  /\ passed = {} /\ reached = [c \in Callers |-> FALSE]

-----------------------------------------------------------------------------
(* The desktops *)

Reaching(place) ==
  reached' = [c \in Callers |-> reached[c] \/ (calls[c].kind = "move" /\ Index(place[calls[c].w]) = calls[c].to)]

Put(w, d) == onDesktop' = [onDesktop EXCEPT ![w] = d] /\ Reaching(onDesktop')

UserMoves(w) ==
  /\ w \in open /\ moved < MaxMoves
  /\ moved' = moved + 1
  /\ \E d \in (Desktops \union {All}) \ {onDesktop[w]} : (d = All => platform = "x11") /\ Put(w, d)
  /\ UNCHANGED <<platform, asked, open, watcher, recordVars, poller, calls, called>>

Serve ==
  /\ \E move \in asked : Put(move.w, move.to) /\ asked' = asked \ {move}
  /\ UNCHANGED <<platform, moved, open, watcher, recordVars, poller, calls, called>>

\* The window is destroyed, its record removed and its watcher dropped.
Close(w) ==
  /\ w \in open /\ watcher[w] # Nowhere
  /\ open' = open \ {w} /\ watcher' = [watcher EXCEPT ![w] = Nowhere]
  /\ UNCHANGED <<nativeVars, recordVars, poller, calls, called, reached>>

-----------------------------------------------------------------------------
(* The registry *)

Trail(p, index) ==
  IF p.trail # <<>> /\ Last(p.trail) = index THEN p
  ELSE [p EXCEPT !.trail = Append(IF Len(@) >= MaxTrail THEN Tail(@) ELSE @, index),
                 !.truncated = @ \/ Len(p.trail) >= MaxTrail]

RecordWorkspace(w, place) ==
  /\ placed' = [placed EXCEPT ![w] = [(IF place = All THEN @ ELSE Trail(@, place)) EXCEPT !.at = place]]
  /\ passed' = IF watcher[w] = place THEN passed \ {w} ELSE passed \union {w}

\* A record that is gone takes nothing.
Recorded(w, place) == IF w \in open THEN RecordWorkspace(w, place) ELSE UNCHANGED recordVars

-----------------------------------------------------------------------------
(* Requests *)

Serving(c, kind, at) == calls[c].kind = kind /\ calls[c].at = at
Goes(c, call) == calls' = [calls EXCEPT ![c] = call]
Ends(c) == Goes(c, NoCall)

\* A window is watched once, while it is opened.
Begin(c) ==
  /\ calls[c] = NoCall
  /\ \E w \in open :
       \/ /\ watcher[w] = Nowhere /\ \A d \in Callers : calls[d].w # w
          /\ Goes(c, [NoCall EXCEPT !.kind = "watch", !.w = w, !.at = "asking"])
          /\ UNCHANGED called
       \/ /\ watcher[w] # Nowhere /\ called < MaxRequests
          /\ called' = called + 1
          /\ \/ Goes(c, [NoCall EXCEPT !.kind = "refresh", !.w = w, !.at = "asking"])
             \/ \E to \in Catalog : Goes(c, [NoCall EXCEPT !.kind = "move", !.w = w, !.at = "asking", !.to = to])
  /\ reached' = [reached EXCEPT ![c] = FALSE]
  /\ UNCHANGED <<nativeVars, open, watcher, recordVars, poller>>

\* query_window
Read(c) ==
  /\ Serving(c, "watch", "asking") \/ Serving(c, "refresh", "asking")
  /\ calls[c].w \in open
  /\ Goes(c, [calls[c] EXCEPT !.at = "read", !.read = Index(onDesktop[calls[c].w])])
  /\ UNCHANGED <<nativeVars, open, watcher, recordVars, poller, called, reached>>

\* move_window_to_index_and_confirm: the window must be watched; on X11 that is all.
AskMove(c) ==
  LET call == calls[c] IN
  /\ Serving(c, "move", "asking") /\ watcher[call.w] # Nowhere
  /\ asked' = asked \union {[w |-> call.w, to |-> Native(call.to)]}
  /\ Goes(c, IF platform = "x11" THEN [call EXCEPT !.at = "read", !.read = call.to]
             ELSE [call EXCEPT !.at = "confirming"])
  /\ reached' = [reached EXCEPT ![c] = Index(onDesktop[call.w]) = call.to]
  /\ UNCHANGED <<platform, onDesktop, moved, open, watcher, recordVars, poller, called>>

\* Fault: the move is confirmed by whatever is read.
ConfirmAny(c) ==
  /\ Serving(c, "move", "confirming")
  /\ Goes(c, [calls[c] EXCEPT !.at = "read", !.read = calls[c].to])
  /\ UNCHANGED <<nativeVars, open, watcher, recordVars, poller, called, reached>>

\* Windows polls until the window is there, ...
Confirm(c) ==
  /\ Serving(c, "move", "confirming") /\ calls[c].w \in open
  /\ Index(onDesktop[calls[c].w]) = calls[c].to
  /\ Goes(c, [calls[c] EXCEPT !.at = "read", !.read = calls[c].to])
  /\ UNCHANGED <<nativeVars, open, watcher, recordVars, poller, called, reached>>

\* ... or the deadline has passed.  A query fails when its window is gone.
Fails(c) ==
  /\ \/ calls[c].at = "asking" /\ calls[c].w \notin open
     \/ Serving(c, "move", "confirming")
  /\ Ends(c)
  /\ UNCHANGED <<nativeVars, open, watcher, recordVars, poller, called, reached>>

\* A watcher that was dropped meanwhile keeps the value to itself.
Cache(c) ==
  LET call == calls[c] IN
  /\ Serving(c, "watch", "read") \/ Serving(c, "move", "read")
  /\ watcher' = [watcher EXCEPT ![call.w] = IF call.w \in open THEN call.read ELSE @]
  /\ Goes(c, [call EXCEPT !.at = "cached"])
  /\ UNCHANGED <<nativeVars, open, recordVars, poller, called, reached>>

\* The watcher's callback records what was cached, ...
CallBack(c) ==
  /\ calls[c].at = "cached"
  /\ Recorded(calls[c].w, calls[c].read)
  /\ IF calls[c].kind = "move" THEN Goes(c, [calls[c] EXCEPT !.at = "told"]) ELSE Ends(c)
  /\ UNCHANGED <<nativeVars, open, watcher, poller, called, reached>>

\* ... and a move records once more what it was told.
Record(c) ==
  /\ Serving(c, "refresh", "read") \/ Serving(c, "move", "told")
  /\ Recorded(calls[c].w, calls[c].read)
  /\ Ends(c)
  /\ UNCHANGED <<nativeVars, open, watcher, poller, called, reached>>

Handle(c) ==
  Read(c) \/ AskMove(c) \/ Confirm(c) \/ Fails(c) \/ Cache(c) \/ CallBack(c) \/ Record(c)

-----------------------------------------------------------------------------
(* The polling thread (Windows) *)

PollStart ==
  /\ platform = "windows" /\ poller = Resting
  /\ poller' = [Resting EXCEPT !.todo = {w \in Panes : watcher[w] # Nowhere}]
  /\ poller'.todo # {}
  /\ UNCHANGED <<nativeVars, open, watcher, recordVars, calls, called, reached>>

Left(todo) == [Resting EXCEPT !.todo = todo]
PollSkip == Left(poller.todo)

\* A window that is gone is skipped.
PollRead ==
  /\ poller.at = "idle"
  /\ \E w \in poller.todo :
       poller' = IF w \in open
                   THEN [todo |-> poller.todo \ {w}, w |-> w, read |-> Index(onDesktop[w]), at |-> "read"]
                   ELSE Left(poller.todo \ {w})
  /\ UNCHANGED <<nativeVars, open, watcher, recordVars, calls, called, reached>>

PollSwap ==
  LET w == poller.w  same == watcher[w] = poller.read IN
  /\ poller.at = "read"
  /\ poller' = IF same THEN PollSkip ELSE [poller EXCEPT !.at = "swapped"]
  /\ watcher' = [watcher EXCEPT ![w] = IF w \in open THEN poller.read ELSE @]
  /\ UNCHANGED <<nativeVars, open, recordVars, calls, called, reached>>

PollRecord ==
  /\ poller.at = "swapped"
  /\ Recorded(poller.w, poller.read)
  /\ poller' = PollSkip
  /\ UNCHANGED <<nativeVars, open, watcher, calls, called, reached>>

Poll == PollStart \/ PollRead \/ PollSwap \/ PollRecord

WorkspaceNext ==
  \/ \E w \in Panes : UserMoves(w) \/ Close(w)
  \/ Serve \/ Poll
  \/ \E c \in Callers : Begin(c) \/ Handle(c)

WorkspaceSpec == WorkspaceInit /\ [][WorkspaceNext]_workspaceVars
WorkspaceFairness == WF_workspaceVars(Poll) /\ \A c \in Callers : WF_workspaceVars(Handle(c))

-----------------------------------------------------------------------------
(* Properties *)

\* The types of the desktops, the watchers and the registry's placements.
WorkspaceTypeOK ==
  /\ platform \in Platforms
  /\ onDesktop \in [Panes -> Desktops \union {All}]
  /\ asked \subseteq [w : Panes, to : Desktops]
  /\ open \subseteq Panes
  /\ watcher \in [Panes -> Catalog \union {All, Nowhere}]
  /\ \A w \in Panes :
       /\ placed[w].at \in Catalog \union {All, Nowhere}
       /\ placed[w].trail \in Seq(Catalog) /\ Len(placed[w].trail) <= MaxTrail
  /\ poller.todo \subseteq Panes
  /\ \A c \in Callers : calls[c].w \in Panes \union {Nowhere}

\* The history of a window ends where the window is recorded, and no two entries in a row are equal.
TrailIsSound ==
  \A w \in Panes :
    LET p == placed[w] IN
    /\ p.at \in Nat => p.trail # <<>> /\ Last(p.trail) = p.at
    /\ \A i \in 1..Len(p.trail) - 1 : p.trail[i] # p.trail[i + 1]
    /\ p.truncated => Len(p.trail) = MaxTrail

\* A watched window is recorded where its watcher saw it last, once that is delivered, unless a
\* request that had read the placement earlier recorded it later.
RecordFollowsWatcher ==
  \A w \in open \ passed :
    (/\ watcher[w] # Nowhere
     /\ ~(poller.at = "swapped" /\ poller.w = w)
     /\ \A c \in Callers : ~(calls[c].w = w /\ calls[c].at = "cached"))
      => placed[w].at = watcher[w]

\* On Windows a window that stays where it is comes to be recorded there, with the same exception.
PlacementFollows ==
  \A w \in Panes :
    <>[](platform = "windows" /\ w \in open /\ watcher[w] # Nowhere
           => w \in passed \/ placed[w].at = Index(onDesktop[w]))

\* A move is reported, and recorded, only after the window has been where it was asked to be:
\* "completion is event-confirmed".
MoveIsConfirmed ==
  \A c \in Callers : Serving(c, "move", "cached") \/ Serving(c, "move", "told") => reached[c]

\* What the registry records of a window's place is what its watcher saw, without a gap or a
\* repetition, and on Windows no move that the user or the desktop did not make: there the
\* service confirms its moves (windows.rs, move_window_to_index_and_confirm).
PlacementIsTrue ==
  /\ TrailIsSound /\ RecordFollowsWatcher
  /\ platform = "windows" => MoveIsConfirmed
=============================================================================
