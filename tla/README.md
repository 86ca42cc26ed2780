# Portus Window in TLA+

Portus Window is a desktop host that opens, inspects and closes visible windows
(web pages, videos, local media) on behalf of an agent.  The agent runs
`portus-window-cli`, which sends one request over a local socket to the running host;
the host drives native windows through Tauri and keeps a durable history of what was
open.  This directory models the host's own logic, checks the models with TLC and
proves theorems about them with TLAPS.

## The system

Threads of the host: the tokio tasks of the IPC server (several clients at a time), the
GUI thread (all window, page-load and navigation callbacks), the database worker, the
workspace event thread (X11) or poller (Windows), and the threads of the media and
web-video servers.

| Component | Source (`src/portus-window/src`) | State | Operations | Correct when |
|---|---|---|---|---|
| Database worker | `database.rs`, `database/service.rs` | SQLite tables, active sessions, config, command queue | open, abort, sync, close, history, clear, config, recovery, shutdown | sessions and open rows agree; closed rows are final; nothing is lost early; every caller is answered |
| Window manager | `tauri_window.rs`, `tauri_window/*.rs` | registry mutex, lifecycle lock, pending close reasons, observation gates | open, close, list, status, config, tag, resize, focus, batch, spec | registered windows are tracked, closes are recorded once with the true reason, no deadlock |
| Window registry | `window_core.rs` | window records | insert, remove, observe pages/title/focus/workspace/console/media, resolve targets | bounded timelines, a target means what the code's rule says, one focused window |
| Authorization | `auth_session/*.rs`, `handler.rs` | requests, grants, consent views | request, decide, apply, revoke | a grant is authorized only by an answer to its own overlay, only while its window lives |
| Local media | `media.rs`, `media_runtime.rs` | capabilities per window | admit, present, serve ranges, revoke | nothing is served after revocation; ranges lie in the file |
| Web video | `web_video.rs` | registrations per window | register, serve, revoke | likewise |
| Workspaces | `workspace.rs`, `workspace/*.rs` | watched windows | catalog, watch, query, move | moves are confirmed, closed windows are unwatched |
| IPC server | `ipc.rs` | socket, connections | bind, recover, serve, frames | one host per socket; frames bounded |
| Interactions | `interaction.rs` | none across requests | click, type, wait, ... | stops at the first failure; results fit the frame |
| Screenshots, console | `screenshot.rs`, `observability.rs` | files | persist, probe | no partial file |
| CLI | `src/portus-window-cli` | none | one request per process | reply belongs to the request |

Interaction: the IPC tasks call the handler, which calls the window manager; the manager
takes the lifecycle lock (readers: opens; writers: closes and history changes), then the
registry's mutex for single steps, and sends commands to the database worker, waiting
for an answer (open, config, status) or not (closes and observations).  GUI callbacks
take the registry's mutex and send commands without waiting; they never take the
lifecycle lock.

Hard behaviours: the window may be destroyed by its user at any step of an open or
a close; snapshots of a record are taken under the mutex and sent after it is
released; `config` waits for the worker with the mutex held; SQL may fail; the host may
die anywhere and its next start repairs the table.  `PROJECT.json` lists each hazard at
its line, with the properties that would catch it.

## Modules

| Module | Models | Kind |
|---|---|---|
| `HistoryLog` | what the durable history promises | abstract specification |
| `DbWorker` | the worker, its queue, tables, recovery and clients that send anything | implements `HistoryLog` (`ImplementsLog`) |
| `WindowHistory` | the window manager's threads in front of the worker | extends `DbWorker`, implements its `Spec` (`WorkerSpec`) |
| `AuthConsent` | grants, consent overlays, the answers that come from their pages, the destroy hook | detailed |
| `ByteRange` | which bytes a Range header selects | pure operators, compared with a definition by what was asked |
| `Presentations` | opens of media and videos, the loopback servers, reads of a shared handle | extends `ByteRange` |
| `Registry` | the opens' last steps, targets, focus, tags and window states, the GUI thread's events between | detailed |
| `ApplySpec` | apply, open-batch and export of layouts | detailed |
| `Requests` | a request's checks in client and host, serving and the answer | detailed |
| `PageLoad` | one window's record, its observation gate and its page's events | detailed |
| `Workspaces` | placements, watchers, the poller, moves | detailed |
| `HostSocket` | how hosts take the socket path, fail and end | detailed |
| `Exchange` | one request on the wire: stages, timeouts, the runtime's threads, kills | detailed |
| `Interaction` | batches of scripts on one page, callbacks, timeouts, the cut of a result | detailed |
| `...Proofs` | theorems about the module of that name; `DeskProofs` about `Requests`, `ApplySpec` and the sum `MCDesk`, `ServicesProofs` about `HostSocket`, `Exchange`, `Workspaces`, `PageLoad`, `Interaction` and the sum `MCServices` | |
| `MC...` | instances for TLC | |

`MCPages`, `MCDesk` and `MCServices` are sums of modules that share no state.  A variable `part`
says which of them a behaviour exercises; the others stay in one fixed initial state.  The
reachable states are the union of the parts', so an invariant of one part means what it
would mean alone.  `MCServices` joins a fairness condition of one part with one of another in
a single `WF`: since the actions of all other parts are never enabled in a behaviour, the joint
condition is the condition of the part that acts.

### DbWorker

`rows` is the sessions table, one sequence of rows per window; a row's position stands
for its UUID, and a deleted row stays as a tombstone so that no position is reused.
`sessions` is `active_sessions`; `queue` the mpsc channel; `reply` the per-call reply
channels; `config` the config table (and the worker's copy, which only a committed
transaction changes).  Each arm of `DbWorker::run` is one action `Worker...`; its
disjuncts are the early returns, the failing statement and the success.  `Recover` and
`RecoverPrune` are the two statements of `initialize`, which no transaction joins.
`Crash` may come anywhere.  A window's observable data is its URL and its URL timeline;
the workspace timeline is maintained by the same code shape and left out.
`MaxQueue`, `MaxSessions`, `MaxDay` bound the queue, the sessions per window and the
clock; `ClientSend` and `AsyncSend` let any client send any command at any time.  It is a part of `MCServices`.

### WindowHistory

`registry` is the map of records, `native` the native window as the toolkit sees it,
`reasons` the pending close reasons, `gates` the windows whose observation gate is
active, `task` the local state of each API thread; `observed` is the GUI thread's
snapshot between mutex and queue.  Pages are numbered in the order a window shows them,
so an outdated snapshot has a smaller number.  The lifecycle lock is derived from
`task`.  `registry.lock().remove(..)` in an `if let` keeps the guard through the
body, so removal and `close_async` are one step (`RemoveAndClose`).  `outcome`, `asked`,
`byUser`, `final` and `shown` are history variables for the properties.  `MaxPages` bounds the pages.

### AuthConsent

`grants` is the authority's map, `tokens` and `byTarget` the consent controller's two,
`actor` the place of each client thread and of the GUI thread.  Each mutex acquisition of
`present`, `remove_record`, `decide_for_window` and `cancel_window` is a step of its own,
because none of them holds two locks.  `overlay`, `click`, the page and the user are external:
posting a script to a destroyed window succeeds and does nothing, and a navigation drops
the overlay.  The overlay is an element of the page: it asks one fixed question, does not show the payload it
is given, and its answer is a navigation.  `AnswerOverlay` therefore lets each of `Approvers` answer, the user
as well as the page (one of its scripts, or an interaction with it), and nothing in the module says that the
terms were read.  The Escape key, which only denies, is as its Deny button.  Once-scope, `available` and `applied` are
left out: only a loaded broker sets them, and nothing loads it outside the tests.  `approvals` is a history variable:
whose overlay was approved, and by whom.

### ByteRange and Presentations

`ByteRange` is the arithmetic of `parse_range`, `cap_range` and `select_range`: a header is its kind
and its two numbers, 64-bit additions saturate at `MaxU64`, and a file may be empty.  `Wanted`
defines by a set comprehension what a header asks for.

`Presentations` has the threads that open a window (`opener`), the native window (`widget`), the
record, the workspace watcher and the authorization of each; an open may fail after each step it has
taken, and gives back what the code gives back there (`RollBack`).  A close takes
the write side of the lifecycle lock; the Destroyed event comes whenever the user closes the
window.  `conn` is one record per server thread, from the request line through the lookup of
the token, the mutex of the file's handle, seek and read.  Locking the handle, seeking and
reading are separate steps, and the file may be truncated under them.  `leftover` and `late` are
history variables for two cases the code leaves behind (see Differences).

### Registry

`windows` holds description, focus and its order, maximized and minimized flag of each
registered window; `front`, `shown` and `native` are the toolkit's own state.  An open (`opening`) goes as far as
`open_web` does, one step for each lock it takes and each call it makes: the window is built and its record
inserted with the description of the request; it gets the focus, which is then recorded; the record is
copied (`OpenCopies`); and the copy is stored by the worker (`OpenTracks`).  Before that the worker has no row of the window and drops
what it is sent (`Synced`).  An open may fail between these steps, and takes the window back or, when the page cannot be
loaded, leaves it.  Opens hold the read side of the lifecycle lock and a close the write side, so they exclude each other
(`Opens`, `Closers`); the user's close, tags and focus requests fall in between.  Opens of media and videos, whose other steps are in
`Presentations`, insert, focus, copy and track in the same order.  A window's first geometry is left out: it sets the window's state
as a resize does.  A window whose build fails has no record and is not begun.

A request resolves its target (`Resolve`: an id, or the words of the description, the title, the source or the URL; of
several matches the newest focused), acts on the native window and records the result; the GUI thread's focus and destroy
events fall in between.  Every critical section is one step.  Observations copy a record and send it later, as
`apply_observation` does.  `recent` is what the order of focus
should be, kept independently of `counter`.  `overtaken`, `stale` and `mixed` name the races in
which the record need not agree with the display (see Differences).

### ApplySpec

`desk` is the registry reduced to source, URL, description and geometry; `jobs` holds what each
applier has read and done.  `First` is the search by name, source or URL among the
list taken at the start; `Update`, `Create` and `CreateFails` are the body of the loop;
`Prune` closes what no entry took.  What an open records of a source is its normal form (`Normal`: the URL as the
parser writes it), what an open or a tag records of a description is the trimmed one (`Trimmed`); entries are
compared as they are written, so that an entry may not find the window it opened.  `Distinct` is the condition under
which a layout can be applied again: each entry matches its own window, as recorded, and no other.  Others open, close, tag and navigate windows at any moment.
`settled` and `since` are history: what the last undisturbed application laid out, and
what was opened since an application began.

### Requests

A request is its kind, whether it names a window or asks for all, its texts by length
(as typed and trimmed), a number that may be missing or NaN, and whether its other fields are well
formed; one limit stands for the limit of each field.  `ClientAccepts` is what `request.rs` and
`validation.rs` check, `Decodes` what serde refuses, `Admitted` and `Suits` what the handler and
the modules behind it check for the request and for each window; they are translated
one by one, so that their differences are the code's.  `sender` may be a program that checks
nothing, or speaks another version.  `Serve` takes the windows or entries in order;
`Stops` says which requests end at the first failure and which pass over it.

### PageLoad

`record` is what `window_core.rs` keeps of the page (load state, error, URL, timeline);
`gate` is the `ObservationGate`, `handed` the event the GUI thread has past it, `replay`
what `activate_observations` still has to apply outside the gate's lock, `poll` the URL a
status request has read and not recorded.  `PageStarted`, `PageFinished` and `PageFailed`
are the registry's observers.  The web view (`view`) is external: a load reports started
and finished; a failed one reports the failure before finished, and may be followed by
an error page under the same URL, which is what the observers' early returns are for.
`WindowHistory` has the same events as atomic snapshots; this module has what one event
does to the record.

### Workspaces

`onDesktop` and `asked` are the display: where windows are, and the moves its window manager has
not served, and may never serve.  `watcher` is the placement cached beside each window, `placed` the
registry's with its bounded trail; `CallBack` records what a watch, an unwatch or a move has told its watcher, and a resize
records its placement once more after that (`Record`); `poller` the Windows polling thread between looking at a window
and recording what it saw, `calls` the requests that open, refresh or move.  The X11 watcher learns
of nothing, because the service's connection selects events on the root window only.  The
index users see is shifted by one on Windows (`Index`, `Native`).  `passed` and `reached` are history.

### HostSocket

The steps of `recover_stale_socket`, `bind` and `run` in `main.rs`, one system call each: look at the
path, probe for a listener, remove, bind, listen, set the mode, store the cleanup, open the
database, serve.  A path names an inode, so that removing a path another host has rebound removes
the other's socket.  Hosts end by a signal (nothing is cleaned up) or by a failing set-up (the
cleanup runs).  `strayed` marks behaviours in which two hosts start at once, or a server stops in a host
that lives on.

### Exchange

Each client has its `stage` and, when done, its `outcome` (the exit code's class); the host
has a `peer` per connection.  A frame is nothing, part or whole on the `wire`.  A handler that blocks
keeps its thread of the runtime, of which there are `Threads`.  Every read and write of either side may
time out, the host may be killed and started again, and a client may be gone while its request is
executed: `executed` counts the handlers that acted on a request, in whole or in part.  A handler that
answers an error may have acted (a batch whose second window fails, a close of all that stops midway), may still act
(a call its thread has not finished in time), or may have refused before anything was done: `Execute` has all three.  On Windows the pipe exists in one instance more than are
connected, so connecting is not the same as being accepted.

### Interaction

`scripts` is the page's queue; a script that ran puts its answer on the `channel` of its evaluation
or, if the executor has given up, nowhere.  A wait polls with scripts of its own until its
deadline.  The loop of `bound_result_for_frame` is a state of its own (`cutting`): each of its rounds is a
step `Cut`, which drops one part of the result in the code's order (`Shrink`), until the result fits `Budget` or
nothing is left to drop (`Bounded`), when the batch returns (`Return`).  The rounds are steps, instead of
a recursive operator, so that what they keep can be stated as an invariant and proved.

## Runs

| Run | Question | Properties |
|---|---|---|
| `WindowHistory` | two clients, open/close/status/enable/disable, the user and the page | `TrackedWhileOpen`, `NoGhostSession`, `OneRowPerWindow`, `FinalStateRecorded` |
| `WindowHistoryAll` | two windows, close_all, list, clear, retention, failing SQL | `ReasonTruthful`: each row says truly who closed its window |
| `WindowHistoryLive` | fair threads | `RequestsReturn`, `ClosesAreRecorded`, `WorkerSpec` |
| `Pages` | consent with two clients, one window and a domain, failing scripts; or a media and a video window whose opens fail anywhere, closes, two connections | `AnsweredIsAuthorized`, `ClosedIsNotAuthorized`, `GuiGoesOn`, `NoLateApproval`; `NothingIsLeft`, `EndedIsNotServed`, `BodyIsItsRange` |
| `Desk` | registry, layouts or requests | `RecordsSettle`, `ResolvedIsMeant`; `LayoutIsKept`, `PruneIsSafe`; `AnswerIsHonest`, `VerdictsAgree` |
| `Services` | the worker under any commands, failing statements, a clock and crashes; or placements, page loads, socket, exchanges, interactions | `SessionsMatchOpenRows`, `DisabledTracksNothing`, `HistoryIsFinal`, `NoPrematureLoss`, `ImplementsLog`; `PlacementIsTrue`; `OrderlyIsLive`, `TimelineIsTrue`; `ServedPath`; `OnlyReadsLeaveDoubt`; `StepsAreTrue`, `ResultIsBounded`; `BegunEnds` |
| `WindowHistoryFailedOpen` | a failed open leaves nothing | violated: see Findings |
| `WindowHistoryBackfill` | re-enabling does not backfill | violated: see Findings |
| `ApplyTwice` | applying a layout again, with prune, leaves its windows | violated: see Findings |
| `WorkMove` | a move is answered after it happened | violated: see Findings |
| `ConsentPage` | only the user approves a grant | violated: see Findings |
| `Ambiguous` | a selector that several windows match fails | violated: see Findings |

Each passing run also checks one type invariant.  What the passing runs show beyond the history
and consent properties above:

- a target that is resolved is by the code's rule the window the selector means at that step, and once nothing is under way
  the registry's focus, window states and stored descriptions are the display's;
- a layout applied again undisturbed keeps its windows when each entry matches its own window and no other by name, source or
  URL as recorded, with the description the entry gives it or finds, and prune closes no window that an entry took or that was opened after the apply began;
- an answer that reports success had its effect on everything it lists, a refusal had none, and client
  and host disagree only on the requests `OnlyClient` and `OnlyHost` name;
- an authorization, a record and a watcher do not outlive their window; a token of an ended
  window is not served by a lookup that begins afterwards; a body is exactly the bytes its header names, with
  two readers on one handle;
- a record's placement is one the window had, page loads leave a live record and a true timeline;
- the path names the socket of the host that serves; a client that is told its request was not
  sent can rely on it: only a failed read and an error of the handler leave doubt, and nothing is acted on twice;
- a grant is authorized only by an approval of its own overlay, whoever gave it, and never after its denial or its window's end;
- steps report what their own scripts saw, not a late answer of an earlier one; a result fits its frame.

### Bounds

One window is enough for the worker's per-window logic, and two for what the
commands that touch all rows do; two sessions per window let a row be closed or dropped
and another opened; a queue of 2-3 lets commands overtake nothing but meet
(close before open, sync around close); two pages tell an outdated snapshot from a
current one; two clients are a reader and a writer of the lifecycle lock.  In the consent part of `Pages` two
grants are asked for, a window's and a domain's, or two of a domain with different terms (`Pair`), and two
overlays are one and the one that supersedes it; clients
begin a request only while its overlay stays within `MaxTokens`, so the bound stops nobody
midway.

The presentations of `Pages`: a file of two bytes and a response of at most one, so that a range is cut, ends at the
file's end, or begins past it, with headers on either side of each limit; the constraint `OneWindow`
admits one window per behaviour, because two share only the lifecycle lock.  `Desk`:
two windows are opened, one by its page and one by its description found by the same word (`Text`, `Described`);
`Mixes` lists the operations that two clients, the user and the opens may combine (focus against close, focus
against focus, tag against opens and observations, states against states, opens that overlap and fail); three
recorded focuses (`MaxFocus`) are those of two opens and one more that changes the order; the documents have entries with and without names,
crossed with descriptions, two with one source, and a URL and a description that are recorded otherwise than they are written;
two applications, a third window and one act of others let a window appear between list and
prune; requests have texts and numbers on both sides of each limit, and one list entry and one frame unit
more than fit.  `Services`: the worker has one window with one page, and a clock of three days passes a retention of one and of none; two desktops tell a shifted index from the desktop's own; two loads of two URLs
give the gate up to ten events and pass the limit of a one-entry timeline; three hosts are one that
serves, one that meets it and one that comes after; one runtime thread and two clients are the
smallest case in which a handler or a silent peer keeps another waiting, and one kill separates the two lives of a
host; two scripts per wait and one change of the page put each change before, between or
after them.  In `Services` two batches meet on one page; a third has the page to itself and
the results of every shape (`part = "results"`), since what is cut does not depend on what others do.

Deadlock is checked in `Desk` and the `WindowHistory` runs, whose systems never
have to stop.  It is off where a bounded or finished behaviour really ends: all hosts have been
started and killed, all clients answered, all windows closed.

### Fairness

Weak fairness on the worker, a thread that loops on `recv`; strong fairness on a thread that has begun a
call, on a queued sync and on the Destroyed event, for the eventual fairness of parking_lot's
locks and the FIFO event loop.  In `Services` the poller, a request's own steps, the opening thread,
the event loop, a starting host, the host's and the client's side of an exchange, and a batch's
steps with its deadline are weakly fair: each is a thread, a task or a timer that waits for nothing
but what its guard names.  Nothing is assumed of users, pages, callers, window managers or
kills; scripts need not run.  `BegunEnds` states what follows: every part settles again and again (`[]<>`), and on
Windows a window that stays where it is comes to be recorded there (`<>[]`).

## Findings

- `WindowHistoryFailedOpen`: `abort_open` has no caller outside the tests.  A window
  destroyed between the status snapshot and `track_open` has its close queued before its
  session exists; the open returns an error and the session stays.
- `WindowHistoryBackfill`: a snapshot taken before a disable/enable pair may be applied
  after it, so that the new session records a page shown only before it
  (`docs/LINUX.md:110` says it does not backfill).
- `ApplyTwice`: an entry may match a window an earlier entry has taken.  A document with two
  entries of one source opens two windows; applied again both entries take the first, and prune
  closes the second (`docs/CLI.md:64` says apply is idempotent and prune closes windows that are absent).  Nor is an
  unnamed entry idempotent whose URL is not in its normal form: the window it opens is recorded under that form
  (`open.rs:80-81`), the entry is compared as written (`commands.rs:176-179`), and each application opens another window.
- `WorkMove`: on X11 a move is cached, recorded and answered when the message has been sent
  (`docs/LINUX.md:81` says completion is event-confirmed).
- `ConsentPage`: the consent dialog is an element of the page in the window, asks a fixed question without the
  scope, the reason or the provenance, and is answered by a navigation that the page can start as well as the user
  (`docs/LINUX.md:97-98` says the agent can never approve and a trusted dialog shows the terms; `docs/CLI.md:167` that the
  user approves).  What does hold is `AnsweredIsAuthorized`: the approval was that of the grant's own overlay.
- `Ambiguous`: of several windows that match a selector the newest focused is taken, and only a tie fails
  (`docs/CLI.md:102` says that several matches fail, with a precedence of description, title and URL in `docs/CLI.md:95-100`;
  `skills/portus-window/SKILL.md:297` names the error).  `ResolvedIsMeant` states the rule of the code.

### Differences

Seen while modelling.  Those that concern a property are excluded from it by a named history variable
or a named condition, so that the exclusion can be read:

- a page that failed, is loaded again and succeeds stays at `failed` (`Retried`); a status request may
  write a URL older than the record's (`polled`); the gate is opened before its buffer is replayed, so a
  direct event may come before a buffered one (`OrderlyIsLive` is about events applied in order);
- a request may record a focus that has already moved on (`overtaken`), two requests that set a
  window's state at once may leave the record with the other's (`mixed`), and what an observation or the window's open has
  copied before a tag may be stored after it (`stale`): the row then keeps the older description until the next observation;
- a reader of a placement may record what the watcher has meanwhile left (`passed`);
- two hosts started at one moment may both remove and bind, and a host whose accept fails lives on
  without a listener (`strayed`);
- a video's token stays registered when its profile directory cannot be prepared (`leftover`), and a
  window destroyed during its open may be watched afterwards (`late`);
- a failed presentation of a consent overlay denies whatever is pending, also another client's request;
  a presentation that overlaps the window's end leaves its request pending; asking again after a
  navigation is answered as pending and shows nothing;
- an entry that only has a URL written otherwise than its normal form matches no window (`distinct`): applied again it opens
  a duplicate;
- an error of the handler does not say that nothing was done: a batch, a close of all or a call that took too
  long may have acted, or still act;
- requests for all windows pass over the ones that fail and answer with success
  (`docs/CLI.md:102` says every eligible window); an open-batch that fails leaves the earlier entries open
  and reports none of them; a profile name is checked trimmed and used untrimmed;
- a recording is answered with success and records nothing, and its path must end in `.png` where
  `docs/CLI.md:29` says `<FILE.mp4>`;
- a close whose statement fails leaves its row open until the next start repairs it.

## Proofs

`DbWorkerProofs` proves for every set of windows, clients, snapshots and every bound:
`TypeCorrect`, `SessionsMatch`, `DisabledIsUntracked` and the action property
`ClosedIsFinal`.  `SessionsMatchOpenRows` is not inductive together with `TypeOK` as
stated row by row; `WorkerInv` adds `OpenMatch`, which says that the set of open
positions of each window is the singleton of its session's id, or empty, by phase and by
setting.  Lemmas state what each table operation does to the set of open positions and
that it leaves closed rows final; one lemma per command then shows that the step keeps
`WorkerInv`.  The proofs use `DbAssumption` only.  `HistoryLogProofs` proves `LogInv` of the
abstract log.

`AuthConsentProofs` proves, for every set of windows, domains, clients and requests,
`TypeCorrect`, `OnlyAnsweredIsAuthorized`, `ClosedStaysUnauthorized`, `NeverStuck` and the action
property `LateApprovalIsIgnored`.  None of the first four is inductive: the approval
and the decision are many steps apart.  `ConsentInv` therefore says what each thread holds
at each place it can be at (`ClientHolds`, `GuiHolds`): while a decision is under way its
token's window is open and an approval is one its overlay's page gave (`Approved`); a token that is being
denied or disposed of is no longer live; a click on its way carries an approval of its own
token.  Tokens keep their grant and never come back (`Keeps`), which carries these facts
over the steps of the other threads.  One lemma per action shows that it keeps
`ConsentInv`; they use `ConsentAssumption` only, which says that a window's own grant is
shown in that window.

`DbWorkerProofs` also proves `NothingIsLostEarly`, that no step drops a closed row before its
retention has passed unless the history is cleared, and `WorkerImplementsLog`, that the worker
implements `HistoryLog`.  The refinement maps the table to entries by row; each command is a step of the
log or leaves it as it is, from `WorkerInv` and the same lemmas about the table's operations.

`WindowHistoryProofs` proves the safety properties of the window manager in front of the worker, for
every number of windows, clients and pages.  `HostInv` has one part per party: what a queued
command says of its sender and its window, what a thread between two steps may count on, that the
lifecycle lock keeps writers apart from openers, that a window that is being destroyed has a reason,
what rows a window has, and which windows have a session.  Two facts depend on each other: a step
of the manager and the worker is a step of the worker alone (`ManagerIsClient`) because `HostInv` says
that commands are well formed, and the proof that it keeps `HostInv` uses the worker's own invariant, which that
step keeps.  Each action is therefore shown to be a worker's step first.  `NoGhosts` is stated under
`~StorageMayFail`: a close whose statement fails does leave its session (see Differences).

`RegistryProofs` proves `RecordsSettle` and `ResolvedIsMeant`.  The registry agrees with the display only when
nothing is under way, so `RegistryInv` says what lies between: the GUI thread's queued events lead
from the focus the registry has to the one the toolkit has (`Moves`); at most one request is about to
record a window's state, and it records what is shown (`Shown`); a copy of a record on its way to the worker, from an
observation or from the window's open, is still the record's, and the row of a tracked window has it (`Stored`, `OpensHold`); and the ranks given by `counter` are the order of focus kept in
`recent` (`Ranks`).  That a resolved target is the window meant is then a fact about the two
definitions: the code's passes over the windows, and the selector's meaning.

`DeskProofs` proves for every set of requests, windows found and limits that answers are honest and
that client and host disagree only where `OnlyClient` and `OnlyHost` say; `RequestInv` says how far serving has
come by what it has reported.  For every set of documents and appliers it proves `PruneIsSafe` and `LayoutIsKept`.
The second needs most.  What an undisturbed applier has opened is as its entries ask (`CalmSound`), so
that in the end every entry has a window that no other entry matches (`LaysOut`), recorded by normal forms (`NormalSources`, `TrimmedDescs`); a second application
goes through these windows one by one (`Follows`), and leaves each as it was laid out.

`PresentationsProofs` proves that an authorization, a record and a watcher end with their window, that a token
of an ended window is not served, and that a body is exactly the bytes asked for.  `WindowSound` relates how far
an open has come to what the toolkit has; `HandleSound` says that only the thread with the mutex moves a file's
handle, so that what it reads begins where it sought.  `SelectionIsSound` is the arithmetic of `ByteRange`, for files
and headers of any size.

`ServicesProofs`:

- `PathIsServed`: `ServedPath` speaks of hosts that have bound; `SocketInv` adds that at most one host is starting,
  and that one which starts beside a serving host is still at its look or its probe, which will find the listener.
- `ReportsAreSure`: `ExchangeInv` says of each client which values its variables can have together: a request the
  host may still act on has a whole frame and a client that can only fail to read; one that was acted on has
  nothing on the wire any more, and its report is a result, an error of the handler or a failed read; an answer leaves a stream that is closed or, on Windows, lingers.  It is stated
  over values (`Sound`), so that each step is a lemma about the values before and after it.
- `PlacementIsAlwaysTrue`: `WorkspaceInv` says that a watcher's placement which is not the registry's is on its
  way there or was overtaken by a reader (`Follows`), and that a Windows request that is about to report a move
  has seen it (`Sure`).
- `OrderlyRecordsAreLive`, `TimelinesAreTrue`: `PageInv` says what a page may have reported so far (`Story`: whose
  turn it is, and what its last load came to), that each event is applied, handed over, buffered or
  being replayed as often as it was reported (`NoneLost`), and what a record is after a prefix of
  these events (`Shows`, `Timeline`).
- `StepsAreAlwaysTrue`: a late script runs when its batch has moved on, so `InteractionInv` follows a script from
  the queue to its run: before (`ScriptSound`) it is the only one of its batch, which waits for it or
  has given its step up, and nothing of that step was found yet; afterwards (`RunSound`) it belongs to a step that is
  over or to the one under way.  With `RunsOrdered` and `FoundSound`, a step that is ok found its element once.
- `ResultsAreBounded`: `CutSound` says what a result is after any number of rounds, and the lemmas about `Shrink`
  that a round which changes a result makes it smaller, and that only a result without console and status has none left.
- `ServicesTypesHold`, and `DeskTypesHold` in `DeskProofs`: a behaviour of a sum is a behaviour of each of its
  parts (`PartsRun`), so that what is proved of the parts holds of the sum that TLC runs.

All theorems rest on the modules' named assumptions alone: that the bounds are numbers, that the model values
which stand for nothing are not members of the sets they are compared with, and (`Workspaces`) that desktops
are numbered, as both platforms do.  Each inductive invariant was checked by TLC before it was proved.

Proofs that would not go through corrected the models.  Verdicts were said to agree for requests for all
windows even when there is none, where only the client refuses: `OnlyClient` names this case.  Applying a
layout again was said to keep its windows if sources differ: TLC then found an entry whose window another
entry matches by the description it was given, and `Distinct` now says so of each entry and window, as recorded.  `EventsKept` counts occurrences
by `Cardinality` instead of a fold, which needs no induction.
`ResultIsBounded` compared with the whole cut computed at once; it now speaks of every round, and of the bound when the
batch returns.

Only model-checked: liveness (`ClosesAreRecorded`, `RequestsReturn`, `BegunEnds`), which rests on fairness and on
ENABLED and is out of the provers' reach.  Every invariant and action property of a passing run is a theorem.

## Plan of further proofs

1. Abstract specifications of what single components promise, implemented by the detailed ones: a request
   that is executed at most once and whose report is one of sent, not sent and unknown (`Exchange`); one name that at most one
   host holds (`HostSocket`); a capability that is served only between its issue and its end (`Presentations`).
2. The overlay that a live token is taken as proof of (`consent.rs:66`): the hazard no property covers yet.
3. The steps of `Registry`, `Requests` and `ApplySpec` share their targets: that `Resolve` and `First` agree on a target
   both can name.

## Not modelled

Inspection of the database's schema and of its path, and history queries (no state changes);
content sniffing, the HTML and the scripts that drive media and video players (`media_runtime.rs`; the
requests reach no code of `web_video_runtime.rs`); capture of screenshots, and console probing (platform
calls without state of their own, a failing step in `Requests`); web profile directories (file-system
checks, a failing step in `Presentations` and `WindowHistory`); reading of browsers' cookie databases
and cookie transfer (nothing loads the broker outside the tests); the authenticated-profile upgrade
(`tauri_window/auth.rs`), whose first step rejects every call on every platform; argument parsing,
encoding of the protocol's answers, and rendering.
