------------------------------ MODULE Registry ------------------------------
(***************************************************************************)
(* The window registry, the opens that fill it and the requests that act   *)
(* on windows by selector (window_core.rs, open.rs, commands.rs,           *)
(* tauri_window.rs): resolve a target, then tag, focus, maximize, minimize *)
(* or restore it, alone or as one of all windows.  Every critical section  *)
(* of the registry's mutex is one step, as is every call into the toolkit  *)
(* and into the worker; the GUI thread delivers focus and destroy events   *)
(* in between.                                                             *)
(*                                                                         *)
(* A window's title, source and URL are abstracted to the words they       *)
(* contain.  The toolkit's focus and window state are external, as is the  *)
(* worker that stores the descriptions.                                    *)
(***************************************************************************)
EXTENDS Naturals, Sequences, FiniteSets, SequencesExt

CONSTANTS
  Windows,   \* window session ids; an id is used once
  Words,     \* selectors that are no id, and descriptions
  Text,      \* Text[w]: the words in w's title, source or URL
  Clients,   \* request handlers
  NoWindow,  \* a model value
  Untagged,  \* a model value: no description
  User,      \* a model value: the person at the display
  Described,     \* Described[w]: bound: the descriptions that w is opened with
  Mixes,     \* bound: what each client, and the user, may do in one behaviour
  MaxFocus   \* bound: how often a focus may be recorded

Ops == {"focus", "tag", "close", "maximize", "minimize", "restore"}
Ways == {"overlap", "fail"}  \* what opens may do

ASSUME RegistryAssumption ==
  /\ Text \in [Windows -> SUBSET Words]
  /\ NoWindow \notin Windows /\ Untagged \notin Words
  /\ Described \in [Windows -> SUBSET (Words \union {Untagged})]
  /\ Mixes \subseteq [Clients \union {User} -> SUBSET (Ops \union Ways)]
  /\ MaxFocus \in Nat

VARIABLES
  windows,   \* WindowRegistry.windows: [desc, focused, order, max, min] of each registered id
  counter,   \* WindowRegistry.focus_counter
  opening,   \* what the open of each window does next, or how it ended
  copied,    \* the description an open has read and not yet given to the worker
  native,    \* the toolkit: "unborn", "alive" or "gone", for each id
  front,     \* the toolkit: the window that has the focus, or NoWindow
  shown,     \* the toolkit: the state each window was last put into
  pending,   \* window events the GUI thread has not handled
  offered,   \* what may be done in this behaviour, one of Mixes
  tasks,     \* what each client is doing
  snapshot,  \* an observation the GUI thread has copied and not yet sent, at most 1
  saved,     \* the worker: the description each window's row has, once it is tracked
  recent,    \* history: the windows a focus was recorded of, the latest first
  overtaken, \* history: a request recorded a focus that had already moved on
  stale,     \* history: windows tagged while an older copy of them was not yet stored
  mixed      \* history: windows two requests put into a state at once

registryVars == <<windows, counter>>
openVars == <<opening, copied>>
toolkitVars == <<native, front, shown, pending>>
savedVars == <<snapshot, saved, stale>>
deskVars == <<registryVars, openVars, toolkitVars, savedVars, offered, tasks, recent, overtaken, mixed>>

Known == DOMAIN windows
Descs == Words \union {Untagged}
States == {"normal", "maximized", "minimized"}
Selectors == Windows \union Words \union {"focused", "maximized"}

(* The steps a request takes once its target is resolved. *)
Script(op) ==
  CASE op = "focus" -> <<"set_focus", "record_focus">>
    [] op = "tag" -> <<"tag">>
    [] op = "maximize" -> <<"maximize", "record_maximize">>
    [] op = "minimize" -> <<"minimize", "record_minimize">>
    [] op = "close" -> <<"destroy", "remove">>
    [] op = "restore" -> <<"unmaximize", "record_unmaximized", "unminimize", "record_unminimized">>

StateCalls == {"maximize", "minimize", "unmaximize", "unminimize"}
NativeCalls == StateCalls \union {"set_focus", "destroy"}
StateRecords == {"record_maximize", "record_minimize", "record_unmaximized", "record_unminimized"}

OpenSteps == {"set_focus", "record_focus", "copy", "track", "remove", "destroy"}
OpenEnds == {"unborn", "tracked", "failed"}

\* left: selectors still to serve; todo: steps still to take on window w.
Idle == [op |-> "tag", desc |-> Untagged, left |-> <<>>, w |-> NoWindow, todo |-> <<>>]

DeskInit ==
  /\ windows = [w \in {} |-> 0] /\ counter = 0
  /\ opening = [w \in Windows |-> "unborn"] /\ copied = [w \in Windows |-> Untagged]
  /\ native = [w \in Windows |-> "unborn"] /\ front = NoWindow
  /\ shown = [w \in Windows |-> "normal"] /\ pending = <<>>
  /\ offered \in Mixes /\ tasks = [c \in Clients |-> Idle]
  /\ snapshot = <<>> /\ saved = [w \in Windows |-> Untagged] /\ stale = {}
  /\ recent = <<>> /\ overtaken = FALSE /\ mixed = {}

-----------------------------------------------------------------------------
(* Selectors *)

HasWord(w, word) == windows[w].desc = word \/ word \in Text[w]

Matches(target) ==
  CASE target = "focused" -> {w \in Known : windows[w].focused}
    [] target = "maximized" -> {w \in Known : windows[w].max}
    [] target \in Words -> {w \in Known : HasWord(w, target)}
    [] OTHER -> {}

\* Fault: the oldest of several matches.
Oldest(matches) == {w \in matches : \A v \in matches \ {w} : windows[w].order < windows[v].order}

\* The newest of several matches; none when the two newest tie.
Newest(matches) == {w \in matches : \A v \in matches \ {w} : windows[w].order > windows[v].order}

\* The windows a target resolves to: one, or none (not found or ambiguous).
Resolved(target) == IF target \in Known THEN {target} ELSE Newest(Matches(target))

-----------------------------------------------------------------------------
(* The registry's writers *)

\* Fault: the other windows stay focused.
OthersKept(w) == windows

Others(w) == [v \in Known |-> [windows[v] EXCEPT !.focused = FALSE]]

\* Fault: an event of a window that is not registered makes a record.
RecordFocusUnchecked(w, focused) ==
  /\ windows' = [v \in Known \union {w} |-> IF v = w THEN [focused |-> focused] ELSE windows[v]]
  /\ UNCHANGED <<counter, recent>>

RecordFocus(w, focused) ==
  IF w \notin Known THEN UNCHANGED <<registryVars, recent>>
  ELSE IF focused
    THEN /\ counter' = counter + 1
         /\ windows' = [Others(w) EXCEPT ![w].focused = TRUE, ![w].order = counter + 1]
         /\ recent' = <<w>> \o recent
    ELSE /\ windows' = [windows EXCEPT ![w].focused = FALSE]
         /\ UNCHANGED <<counter, recent>>

Removed(w) == windows' = [v \in Known \ {w} |-> windows[v]]

\* apply_resize, set_maximized and set_minimized
WithState(r, step) ==
  CASE step = "record_maximize" -> [r EXCEPT !.max = TRUE, !.min = FALSE]
    [] step = "record_minimize" -> [r EXCEPT !.max = FALSE, !.min = TRUE]
    [] step = "record_unmaximized" -> [r EXCEPT !.max = FALSE]
    [] step = "record_unminimized" -> [r EXCEPT !.min = FALSE]

-----------------------------------------------------------------------------
(* The toolkit *)

\* The focus moves: the toolkit reports the loss, then the gain.
FocusEvents(w) ==
  (IF front = NoWindow THEN <<>> ELSE <<[w |-> front, kind |-> "blur"]>>)
    \o (IF w = NoWindow THEN <<>> ELSE <<[w |-> w, kind |-> "focus"]>>)

Destroyed(w) ==
  /\ native' = [native EXCEPT ![w] = "gone"]
  /\ front' = IF front = w THEN NoWindow ELSE front
  /\ pending' = Append(pending, [w |-> w, kind |-> "destroyed"])

-----------------------------------------------------------------------------
(* Windows are opened *)

\* The worker has an open row of the window; a description of any other window is dropped.
Tracked(w) == opening[w] = "tracked"
Synced(w, desc) == IF Tracked(w) THEN [saved EXCEPT ![w] = desc] ELSE saved

\* The lifecycle lock: opens share it, a close has it alone.
Opens == {w \in Windows : opening[w] \in OpenSteps}
Closers == {c \in Clients : tasks[c].op = "close" /\ tasks[c].todo # <<>>}

ThenOpen(w, step) == opening' = [opening EXCEPT ![w] = step]

\* The window is built, its events are attached and its record is inserted, with the request's
\* description; nothing is stored.
OpenWindow(w, desc) ==
  /\ opening[w] = "unborn" /\ Closers = {}
  /\ Opens = {} \/ "overlap" \in offered[User]
  /\ native' = [native EXCEPT ![w] = "alive"]
  /\ windows' = [v \in Known \union {w} |->
                  IF v = w THEN [desc |-> desc, focused |-> FALSE, order |-> 0, max |-> FALSE, min |-> FALSE]
                  ELSE windows[v]]
  /\ ThenOpen(w, "set_focus")
  /\ UNCHANGED <<counter, copied, front, shown, pending, savedVars, tasks, recent, overtaken, mixed>>

OpenFocuses(w) ==
  /\ opening[w] = "set_focus" /\ native[w] = "alive"
  /\ front' = w
  /\ pending' = IF front = w THEN pending ELSE pending \o FocusEvents(w)
  /\ ThenOpen(w, "record_focus")
  /\ UNCHANGED <<registryVars, copied, native, shown, savedVars, tasks, recent, overtaken, mixed>>

\* The focus is recorded; a request that does so after it moved on overtakes the event of that.
FocusRecorded(w) ==
  /\ counter < MaxFocus
  /\ RecordFocus(w, TRUE)
  /\ overtaken' = (overtaken \/ (w \in Known /\ front # w))

OpenRecordsFocus(w) ==
  /\ opening[w] = "record_focus"
  /\ FocusRecorded(w)
  /\ ThenOpen(w, "copy")
  /\ UNCHANGED <<copied, toolkitVars, savedVars, tasks, mixed>>

\* The open reads the window's status under the mutex, ...
OpenCopies(w) ==
  /\ opening[w] = "copy"
  /\ \/ /\ w \in Known
        /\ copied' = [copied EXCEPT ![w] = windows[w].desc]
        /\ ThenOpen(w, "track")
     \/ /\ w \notin Known
        /\ ThenOpen(w, "failed")
        /\ UNCHANGED copied
  /\ UNCHANGED <<registryVars, toolkitVars, savedVars, tasks, recent, overtaken, mixed>>

\* ... and has the worker store it after the mutex is released.
OpenTracks(w) ==
  /\ opening[w] = "track"
  /\ saved' = [saved EXCEPT ![w] = copied[w]]
  /\ ThenOpen(w, "tracked")
  /\ UNCHANGED <<registryVars, copied, toolkitVars, snapshot, stale, tasks, recent, overtaken, mixed>>

\* A page that cannot be loaded leaves the window; what fails later takes it back.
OpenFails(w) ==
  /\ "fail" \in offered[User]
  /\ \/ opening[w] = "set_focus" /\ ThenOpen(w, "failed")
     \/ opening[w] \in {"set_focus", "copy", "track"} /\ ThenOpen(w, "remove")
  /\ UNCHANGED <<registryVars, copied, toolkitVars, savedVars, tasks, recent, overtaken, mixed>>

OpenRemoves(w) ==
  /\ opening[w] = "remove"
  /\ Removed(w)
  /\ ThenOpen(w, "destroy")
  /\ UNCHANGED <<counter, copied, toolkitVars, savedVars, tasks, recent, overtaken, mixed>>

\* The window is destroyed, if it is still there; an error is ignored.
OpenDestroys(w) ==
  /\ opening[w] = "destroy"
  /\ \/ native[w] = "alive" /\ Destroyed(w)
     \/ UNCHANGED <<native, front, pending>>
  /\ ThenOpen(w, "failed")
  /\ UNCHANGED <<registryVars, copied, shown, savedVars, tasks, recent, overtaken, mixed>>

OpenStep(w) ==
  \/ \E desc \in Described[w] : OpenWindow(w, desc)
  \/ OpenFocuses(w) \/ OpenRecordsFocus(w) \/ OpenCopies(w) \/ OpenTracks(w)
  \/ OpenFails(w) \/ OpenRemoves(w) \/ OpenDestroys(w)

-----------------------------------------------------------------------------
(* The user, the GUI thread and the observations *)

UserFocus(w) ==
  /\ w # front /\ w \in {v \in Windows : native[v] = "alive"} \union {NoWindow}
  /\ "focus" \in offered[User] /\ counter + Len(pending) < MaxFocus
  /\ front' = w /\ pending' = pending \o FocusEvents(w)
  /\ UNCHANGED <<registryVars, native, shown, savedVars, tasks, recent, overtaken, mixed>>

UserClose(w) ==
  /\ "close" \in offered[User]
  /\ native[w] = "alive"
  /\ Destroyed(w)
  /\ UNCHANGED <<registryVars, shown, savedVars, tasks, recent, overtaken, mixed>>

\* attach_window_events
GuiEvent ==
  /\ pending # <<>>
  /\ pending' = Tail(pending)
  /\ LET e == Head(pending) IN
     IF e.kind = "destroyed"
       THEN /\ Removed(e.w)
            /\ UNCHANGED <<counter, recent, overtaken>>
       ELSE /\ RecordFocus(e.w, e.kind = "focus")
            /\ overtaken' = (overtaken /\ ~(e.kind = "focus" /\ e.w = front /\ e.w \in Known))
  /\ UNCHANGED <<native, front, shown, savedVars, tasks, mixed>>

\* apply_observation, refresh_workspace_for_window: the copy is made under the mutex, ...
Observe(w) ==
  /\ snapshot = <<>> /\ w \in Known /\ (\E c \in Clients : "tag" \in offered[c])  \* only a tag makes it matter
  /\ snapshot' = <<[w |-> w, desc |-> windows[w].desc]>>
  /\ stale' = IF Tracked(w) THEN stale \ {w} ELSE stale
  /\ UNCHANGED <<registryVars, toolkitVars, saved, tasks, recent, overtaken, mixed>>

\* ... and sent after it is released.
SyncAsync ==
  /\ snapshot # <<>>
  /\ saved' = Synced(snapshot[1].w, snapshot[1].desc)
  /\ snapshot' = <<>>
  /\ UNCHANGED <<registryVars, toolkitVars, stale, tasks, recent, overtaken, mixed>>

-----------------------------------------------------------------------------
(* Requests *)

Call(c) ==
  /\ tasks[c] = Idle
  /\ \E op \in offered[c] \ Ways, target \in Selectors, desc \in Descs :
       /\ op # "tag" => desc = Untagged
       /\ tasks' = [tasks EXCEPT ![c] = [Idle EXCEPT !.op = op, !.desc = desc, !.left = <<target>>]]
  /\ UNCHANGED <<registryVars, toolkitVars, savedVars, recent, overtaken, mixed>>

\* list: refreshes the placement of every window and fails when one has lost its handle.
CallAll(c) ==
  /\ tasks[c] = Idle
  /\ \A w \in Known : native[w] = "alive"
  /\ \E op \in offered[c] \ ({"focus", "close"} \union Ways), desc \in Descs :
       /\ op # "tag" => desc = Untagged
       /\ tasks' = [tasks EXCEPT ![c] = [Idle EXCEPT !.op = op, !.desc = desc, !.left = SetToSeq(Known)]]
  /\ UNCHANGED <<registryVars, toolkitVars, savedVars, recent, overtaken, mixed>>

\* The request is done with its window, or failed on it; one of all goes on with the next.
Done(t) == IF t.left = <<>> THEN Idle ELSE [t EXCEPT !.w = NoWindow, !.todo = <<>>]

Resolve(c) ==
  LET t == tasks[c]  target == Head(t.left)  rest == [t EXCEPT !.left = Tail(t.left)] IN
  /\ t.todo = <<>> /\ t.left # <<>>
  /\ t.op = "close" => Opens = {} /\ Closers = {}
  /\ \/ \E w \in Resolved(target) :
          tasks' = [tasks EXCEPT ![c] = [rest EXCEPT !.w = w, !.todo = Script(t.op)]]
     \/ /\ Resolved(target) = {}
        /\ tasks' = [tasks EXCEPT ![c] = Done(rest)]
  /\ UNCHANGED <<registryVars, toolkitVars, savedVars, recent, overtaken, mixed>>

At(c, steps) == tasks[c].todo # <<>> /\ Head(tasks[c].todo) \in steps
Pop(t) == IF Tail(t.todo) = <<>> THEN Done(t) ELSE [t EXCEPT !.todo = Tail(t.todo)]
Advance(c) == tasks' = [tasks EXCEPT ![c] = Pop(tasks[c])]
Fail(c) == tasks' = [tasks EXCEPT ![c] = Done(tasks[c])]

NativeState(step, state) ==
  CASE step = "maximize" -> "maximized"
    [] step = "minimize" -> "minimized"
    [] step = "unmaximize" -> IF state = "maximized" THEN "normal" ELSE state
    [] step = "unminimize" -> IF state = "minimized" THEN "normal" ELSE state

\* Whether a client other than c is about to record a state of w.
Recording(c, w) ==
  \E d \in Clients \ {c} : tasks[d].w = w /\ At(d, StateRecords)

Native(c) ==
  LET w == tasks[c].w  step == Head(tasks[c].todo) IN
  /\ At(c, NativeCalls)
  /\ native[w] = "alive"
  /\ \/ /\ step = "set_focus"
        /\ front' = w
        /\ pending' = IF front = w THEN pending ELSE pending \o FocusEvents(w)
        /\ UNCHANGED <<native, shown, mixed>>
     \/ /\ step = "destroy"
        /\ Destroyed(w)
        /\ UNCHANGED <<shown, mixed>>
     \/ /\ step \in StateCalls
        /\ shown' = [shown EXCEPT ![w] = NativeState(step, shown[w])]
        /\ mixed' = IF Recording(c, w) THEN mixed \union {w} ELSE mixed
        /\ UNCHANGED <<native, front, pending>>
  /\ Advance(c)
  /\ UNCHANGED <<registryVars, savedVars, recent, overtaken>>

\* The window has no handle, or the toolkit refuses the call.
NativeFails(c) ==
  /\ At(c, NativeCalls)
  /\ Fail(c)
  /\ UNCHANGED <<registryVars, toolkitVars, savedVars, recent, overtaken, mixed>>

FocusDone(c) ==
  /\ At(c, {"record_focus"})
  /\ FocusRecorded(tasks[c].w)
  /\ Advance(c)
  /\ UNCHANGED <<toolkitVars, savedVars, mixed>>

CloseDone(c) ==
  /\ At(c, {"remove"})
  /\ Removed(tasks[c].w)
  /\ Advance(c)
  /\ UNCHANGED <<counter, toolkitVars, savedVars, recent, overtaken, mixed>>

StateDone(c) ==
  LET w == tasks[c].w IN
  /\ At(c, StateRecords)
  /\ \/ /\ w \in Known
        /\ windows' = [windows EXCEPT ![w] = WithState(@, Head(tasks[c].todo))]
        /\ Advance(c)
     \/ /\ w \notin Known
        /\ Fail(c)
        /\ UNCHANGED windows
  /\ UNCHANGED <<counter, toolkitVars, savedVars, recent, overtaken, mixed>>

\* An observation or an open has read the window's record and not yet stored what it read.
Copied(w) == opening[w] = "track" \/ (snapshot # <<>> /\ snapshot[1].w = w)

\* The mutex is held while the worker stores the description, and while it is put back.
Tagged(w, desc) == windows' = [windows EXCEPT ![w].desc = desc] /\ saved' = Synced(w, desc)
TagRefused(w, desc) == UNCHANGED <<windows, saved>>

Tag(c) ==
  LET w == tasks[c].w  desc == tasks[c].desc IN
  /\ At(c, {"tag"})
  /\ \/ /\ w \in Known
        /\ Tagged(w, desc)
        /\ stale' = IF Copied(w) THEN stale \union {w} ELSE stale
     \/ TagRefused(w, desc) /\ UNCHANGED stale
  /\ Advance(c)
  /\ UNCHANGED <<counter, toolkitVars, snapshot, recent, overtaken, mixed>>

Request(c) ==
  \/ Call(c) \/ CallAll(c) \/ Resolve(c)
  \/ Native(c) \/ NativeFails(c) \/ FocusDone(c)
  \/ StateDone(c) \/ Tag(c) \/ CloseDone(c)

Meanwhile ==
  \/ \E w \in Windows : UserClose(w) \/ Observe(w)
  \/ \E w \in Windows \union {NoWindow} : UserFocus(w)
  \/ GuiEvent \/ SyncAsync
  \/ \E c \in Clients : Request(c)

DeskNext ==
  /\ UNCHANGED offered
  /\ \/ Meanwhile /\ UNCHANGED openVars
     \/ \E w \in Windows : OpenStep(w)

DeskSpec == DeskInit /\ [][DeskNext]_deskVars

-----------------------------------------------------------------------------
(* Properties *)

WindowRecords == [desc : Descs, focused : BOOLEAN, order : Nat, max : BOOLEAN, min : BOOLEAN]

\* The types of the registry, the toolkit and the requests.
RegistryTypeOK ==
  /\ Known \subseteq Windows
  /\ \A w \in Known : windows[w] \in WindowRecords
  /\ counter \in Nat
  /\ offered \in Mixes
  /\ opening \in [Windows -> OpenSteps \union OpenEnds] /\ copied \in [Windows -> Descs]
  /\ native \in [Windows -> {"unborn", "alive", "gone"}]
  /\ front \in Windows \union {NoWindow}
  /\ shown \in [Windows -> States]
  /\ pending \in Seq([w : Windows, kind : {"focus", "blur", "destroyed"}])
  /\ \A c \in Clients :
       /\ tasks[c].op \in Ops /\ tasks[c].desc \in Descs
       /\ tasks[c].left \in Seq(Selectors)
       /\ tasks[c].w \in Windows \union {NoWindow}
       /\ tasks[c].todo \in Seq(NativeCalls \union StateRecords \union {"record_focus", "tag", "remove"})

\* A window recorded as focused is the one whose focus was recorded last, so two windows are
\* never recorded as focused, whatever requests and events write (record_focus).
FocusedIsNewest ==
  \A w \in Known :
    /\ windows[w].order <= counter
    /\ windows[w].focused => windows[w].order = counter
    /\ \A v \in Known \ {w} : windows[w].order = windows[v].order => windows[w].order = 0

\* Whether a focus of w was recorded after every focus of v.
Later(w, v) ==
  \E i \in 1..Len(recent) : recent[i] = w /\ \A j \in 1..i : recent[j] # v

\* What a target may mean: a registered id means that window; anything else a matching window,
\* of several the one focused last.
Means(target, w) ==
  IF target \in Known THEN w = target
  ELSE w \in Matches(target) /\ \A v \in Matches(target) \ {w} : Later(w, v)

\* A request acts on a window its target means, and fails although windows match only when
\* none of them was ever focused: the rule of the code (resolve_target), not of the documents.
ResolvedIsMeant ==
  [][\A c \in Clients : Resolve(c) =>
       LET target == Head(tasks[c].left) IN
       IF tasks'[c].todo # <<>> THEN Means(target, tasks'[c].w)
       ELSE target \notin Known /\ \A w \in Matches(target), i \in 1..Len(recent) : recent[i] # w]_deskVars

\* What the documents say instead: a target that several windows match fails (CLI.md, SKILL.md).
AmbiguousFails ==
  [][\A c \in Clients : Resolve(c) =>
       LET target == Head(tasks[c].left) IN
       target \notin Known /\ Cardinality(Matches(target)) > 1 => tasks'[c].todo = <<>>]_deskVars

\* Once its events are handled, the recorded focus is the toolkit's, unless a request recorded
\* a focus after the user had moved it on (focus, attach_window_events).
FocusSettles ==
  pending = <<>> /\ ~overtaken => \A w \in Known : windows[w].focused <=> front = w

\* The recorded state of a window is the one the toolkit was last told, although a request
\* fails between its calls, unless two requests changed it at once (resize).
StateSettles ==
  \A w \in Known \ mixed :
    (\A c \in Clients : tasks[c].w = w => ~At(c, StateRecords))
      => /\ windows[w].max <=> shown[w] = "maximized"
         /\ windows[w].min <=> shown[w] = "minimized"

\* Once a window is tracked, a description is in the registry if and only if the worker has stored
\* it, unless a copy that was read before the tag is stored after it (open, tag, apply_observation).
DescriptionIsStored ==
  \A w \in Known \ stale :
    Tracked(w) /\ (snapshot = <<>> \/ snapshot[1].w # w) => saved[w] = windows[w].desc

\* Once everything is handled, what the registry records of the windows is what the toolkit
\* shows and what the worker has stored, with the exceptions of its parts.
RecordsSettle == FocusedIsNewest /\ FocusSettles /\ StateSettles /\ DescriptionIsStored
=============================================================================
