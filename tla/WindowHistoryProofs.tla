------------------------ MODULE WindowHistoryProofs ------------------------
(***************************************************************************)
(* Proofs about the window manager in front of the database worker, for    *)
(* any number of windows, clients and pages and for queues and timelines   *)
(* of any length: that the manager is a client of the worker, and the      *)
(* invariants that relate the registry, the threads and the table.         *)
(*                                                                         *)
(* HostInv, the inductive invariant, has a part for each party.  Commands  *)
(* says of a queued command what its sender is doing and what it knows of  *)
(* the window; Threads, what a thread between two steps may count on;      *)
(* Locks, that the lifecycle lock keeps writers apart from openers, and no *)
(* two threads open one window; Onces, that a window is registered once;   *)
(* Causes, that a registered window is being destroyed for a reason;       *)
(* Tables, what the rows of a window are; Tracks and Ghosts, which windows *)
(* have a session.  It needs the worker's own invariant, and the worker's  *)
(* step needs of HostInv that commands are well formed: so each step is    *)
(* shown to be one of the worker's first, and to keep HostInv then.        *)
(***************************************************************************)
EXTENDS WindowHistory, DbWorkerProofs, FiniteSetTheorems

-----------------------------------------------------------------------------
(* What the threads do *)

Reading == {"building", "placing", "tracking", "tracked", "replaying", "replayed", "opened"}
Unsent == {"building", "placing", "tracking"}
Settled == {"replaying", "replayed", "opened"}
Closing == {"targeted", "marked", "destroyed"}
Waiting == {"tracked", "awaiting", "configuring"}
Uses == {"list", "enable", "status"}

TaskType ==
  [at: {"idle", "awaiting"}]
    \union [at: Reading \ {"tracking", "replayed"}, win: Windows]
    \union {t \in [at: {"tracking", "replayed"}, win: Windows, snap: Records] : t.snap.win = t.win}
    \union [at: {"closing"}, todo: SUBSET Windows]
    \union [at: Closing, win: Windows, todo: SUBSET Windows]
    \union [at: {"refreshing"}, todo: SUBSET Windows, next: {"list", "enable"}]
    \union [at: {"refreshing"}, todo: SUBSET Windows, next: Uses, win: Windows]
    \union [at: {"refreshed"}, todo: SUBSET Windows, next: Uses, win: Windows, snap: Records]
    \union [at: {"syncing"}, snap: Records]
    \union [at: {"configuring"}, next: {"enable", "disable", "retention"}]

\* A task that holds the lifecycle lock as a writer, one that opens a window.
Writes(t) ==
  \/ t.at \in {"closing"} \union Closing
  \/ t.at \in {"refreshing", "refreshed", "configuring"} /\ t.next = "enable"
  \/ t.at = "configuring" /\ t.next = "disable"
Reads(t) == t.at \in Reading

\* A writer is alone, and no two threads open one window.
Apart(t, u) ==
  /\ ~(Writes(t) /\ (Writes(u) \/ Reads(u)))
  /\ ~(Writes(u) /\ Reads(t))
  /\ ~(Reads(t) /\ Reads(u) /\ t.win = u.win)

-----------------------------------------------------------------------------
(* The inductive invariant *)

HostTypes ==
  /\ DOMAIN registry \subseteq Windows /\ \A w \in DOMAIN registry : registry[w] \in Records /\ registry[w].win = w
  /\ native \in [Windows -> {"unused", "hidden", "live", "dying", "gone"}]
  /\ reasons \subseteq Windows /\ gates \subseteq Windows
  /\ observed = {} \/ \E snap \in Records : observed = {snap}
  /\ task \in [Clients -> TaskType]
  /\ outcome \in [Windows -> {"none", "ok", "error"}]
  /\ asked \subseteq Windows /\ byUser \subseteq Windows
  /\ DOMAIN final \subseteq Windows

\* While no worker runs there is nothing to tell it.
Quiescent ==
  /\ phase # "draining"
  /\ phase # "running" =>
       queue = <<>> /\ DOMAIN registry = {} /\ observed = {} /\ \A c \in Clients : task[c] = Idle

\* The window has left nothing in the table.
Blank(w) == \A i \in DOMAIN rows[w] : rows[w][i].status = "deleted"

\* What the command tells of its sender and of the window it is about.
Meant(cmd) ==
  /\ cmd.by \in Clients => reply[cmd.by] = "waiting" /\ (task[cmd.by].at = "tracked" => cmd.op = "open")
  /\ \/ /\ cmd.op = "open" /\ cmd.by \in Clients
        /\ task[cmd.by].at = "tracked" /\ task[cmd.by].win = cmd.snap.win
        /\ Blank(cmd.snap.win)
     \/ cmd.op \in {"sync", "clear", "retention"}
     \/ /\ cmd.op = "close" /\ cmd.snap.win \in DOMAIN final /\ cmd.snap = final[cmd.snap.win]
        /\ cmd.reason = "explicit" => cmd.snap.win \in asked
        /\ cmd.reason = "destroyed" => cmd.snap.win \in byUser
     \/ /\ cmd.op = "history" /\ cmd.by \in Clients /\ cmd.active = ActiveWindows
        /\ task[cmd.by].at = "configuring" /\ task[cmd.by].next \in {"enable", "disable"}
Commands ==
  /\ \A i \in DOMAIN queue : Meant(queue[i])
  /\ \A i, j \in DOMAIN queue : queue[i].by \in Clients /\ queue[j].by = queue[i].by => i = j

\* What each thread knows of the windows it is about.
Holds(t, r) ==
  /\ r = "waiting" => t.at \in Waiting
  /\ t.at \in Reading => outcome[t.win] = "none"
  /\ t.at \in Reading \union Closing => native[t.win] # "unused"
  /\ t.at \in Unsent => Blank(t.win)
  /\ (t.at \in Settled \/ (t.at = "tracked" /\ r = "ok")) /\ t.win \in DOMAIN registry /\ config.enabled
       => Tracked(t.win)
  /\ t.at \in {"closing"} \union Closing => t.todo \subseteq asked
  /\ t.at \in Closing => t.win \in asked
  /\ t.at = "marked" => t.win \in reasons \/ t.win \notin DOMAIN registry
Threads == \A c \in Clients : Holds(task[c], reply[c])
Locks == \A c, d \in Clients : c # d => Apart(task[c], task[d])

\* A window is registered once, between its opening and its end.
Onces ==
  /\ \A w \in Windows : native[w] = "unused" =>
       w \notin DOMAIN registry /\ w \notin DOMAIN final /\ rows[w] = <<>> /\ outcome[w] = "none"
  /\ DOMAIN registry \intersect DOMAIN final = {}

\* A registered window is being destroyed by its user, or by a client that asked.
Causes ==
  /\ reasons \subseteq asked
  /\ \A w \in DOMAIN registry : native[w] = "dying" =>
       w \in byUser \/ (w \in reasons /\ \E c \in Clients : task[c].at = "destroyed" /\ task[c].win = w)

\* The rows of a window.
Kept(w) ==
  /\ w \in DOMAIN registry => \A i \in DOMAIN rows[w] : rows[w][i].status # "closed"
  /\ \A i, j \in DOMAIN rows[w] : rows[w][i].status # "deleted" /\ rows[w][j].status # "deleted" => i = j
  /\ \A i \in DOMAIN rows[w] :
       /\ rows[w][i].reason = "explicit" => w \in asked
       /\ rows[w][i].reason = "destroyed" => w \in byUser
       /\ rows[w][i].status = "closed" /\ rows[w][i].reason \in CloseReasons =>
            w \in DOMAIN final /\ rows[w][i].url = final[w].url
Tables == \A w \in Windows : Kept(w)

\* An open that succeeded is tracked for as long as it is registered.
Tracks ==
  \A w \in DOMAIN registry : config.enabled /\ outcome[w] = "ok" => Tracked(w)
Ghosts ==
  ~StorageMayFail => \A w \in Windows : Tracked(w) /\ outcome[w] = "ok" =>
    w \in DOMAIN registry \/ \E i \in DOMAIN queue : queue[i].op = "close" /\ queue[i].snap.win = w

HostInv ==
  /\ WorkerInv /\ HostTypes /\ Quiescent /\ Commands /\ Threads /\ Locks
  /\ Onces /\ Causes /\ Tables /\ Tracks /\ Ghosts

-----------------------------------------------------------------------------
(* Records and tasks *)

\* A record that is trimmed loses its first pages, so it is a record again.
LEMMA FinishedIsRecord ==
  ASSUME NEW snap \in Records
  PROVE  PageFinished(snap) \in Records /\ PageFinished(snap).win = snap.win
<1> DEFINE n == Len(snap.urls)
<1>1. /\ snap \in [win: Windows, url: 1..MaxPages, urls: Timelines, trunc: BOOLEAN]
      /\ n \in 1..MaxTimeline /\ snap.urls \in [1..n -> 1..MaxPages]
      /\ \A i, j \in 1..n : i < j => snap.urls[i] < snap.urls[j]
      /\ \A i \in 1..n : snap.urls[i] <= snap.url
      /\ snap.trunc => snap.urls[1] > 1 /\ n = MaxTimeline
  <2>1. PICK m \in 1..MaxTimeline : snap.urls \in [1..m -> 1..MaxPages]
    BY DEF Records, Timelines
  <2>2. m = n
    BY <2>1, DbAssumption
  <2>3. DOMAIN snap.urls = 1..n /\ n \in 1..MaxTimeline
    BY <2>1, <2>2
  <2>4. /\ \A i, j \in DOMAIN snap.urls : i < j => snap.urls[i] < snap.urls[j]
        /\ \A i \in DOMAIN snap.urls : snap.urls[i] <= snap.url
        /\ snap.trunc => snap.urls[1] > 1 /\ n = MaxTimeline
        /\ snap \in [win: Windows, url: 1..MaxPages, urls: Timelines, trunc: BOOLEAN]
    BY DEF Records
  <2> HIDE DEF n
  <2> QED BY <2>1, <2>2, <2>3, <2>4
<1>2. MaxTimeline \in Nat \ {0} /\ MaxPages \in Nat \ {0}
  BY DbAssumption, HostAssumption
<1>3. CASE snap.urls[n] = snap.url
  <2>1. snap.urls # <<>>
    BY <1>1, <1>2
  <2>2. PageFinished(snap) = snap
    BY <1>3, <2>1 DEF PageFinished
  <2> QED BY <2>2
<1>4. CASE snap.urls[n] # snap.url
  <2> DEFINE all == Append(snap.urls, snap.url)
             urls == Trim(all)
             trunc == snap.trunc \/ n >= MaxTimeline
  <2>1. PageFinished(snap) = [snap EXCEPT !.urls = urls, !.trunc = trunc]
    BY <1>4 DEF PageFinished
  <2>2. snap.url \in 1..MaxPages /\ snap.urls[n] < snap.url
    BY <1>1, <1>2, <1>4
  <2>3. /\ Len(all) = n + 1 /\ all \in [1..n + 1 -> 1..MaxPages] /\ all \in Seq(1..MaxPages)
        /\ all[n + 1] = snap.url /\ \A i \in 1..n : all[i] = snap.urls[i]
    <3>1. snap.urls \in Seq(1..MaxPages) /\ snap.url \in 1..MaxPages
      BY <1>1, <1>2, <2>2
    <3>2. n \in Nat /\ Len(snap.urls) = n /\ DOMAIN snap.urls = 1..n
      BY <1>1, <1>2
    <3>3. /\ all \in Seq(1..MaxPages) /\ Len(all) = Len(snap.urls) + 1
          /\ all[Len(snap.urls) + 1] = snap.url
          /\ \A i \in 1..Len(snap.urls) : all[i] = snap.urls[i]
      BY <3>1
    <3> HIDE DEF all, n
    <3>4. /\ DOMAIN all = 1..n + 1 /\ all \in [1..n + 1 -> 1..MaxPages]
      <4>1. Len(all) = n + 1
        BY <3>2, <3>3
      <4>2. all \in [1..Len(all) -> 1..MaxPages] /\ DOMAIN all = 1..Len(all)
        BY <3>3, LenProperties
      <4> QED BY <4>1, <4>2
    <3> QED BY <3>2, <3>3, <3>4
  <2> HIDE DEF all
  <2>4. /\ \A i, j \in 1..n + 1 : i < j => all[i] < all[j]
        /\ \A i \in 1..n + 1 : all[i] <= snap.url
    <3>1. \A i \in 1..n : all[i] < all[n + 1]
      BY <1>1, <1>2, <2>2, <2>3
    <3>2. n \in Nat
      BY <1>1, <1>2
    <3> HIDE DEF n
    <3>3. ASSUME NEW i \in 1..n + 1, NEW j \in 1..n + 1, i < j
          PROVE  all[i] < all[j]
      <4>1. i \in 1..n
        BY <3>2, <3>3
      <4>2. CASE j = n + 1
        BY <3>1, <4>1, <4>2
      <4>3. CASE j # n + 1
        <5>1. j \in 1..n
          BY <3>2, <4>3
        <5> QED BY <1>1, <2>3, <3>3, <4>1, <5>1
      <4> QED BY <4>2, <4>3
    <3>4. \A i \in 1..n + 1 : all[i] <= snap.url
      <4>1. snap.url \in Nat
        BY <1>2, <2>2
      <4>2. ASSUME NEW i \in 1..n + 1
            PROVE  all[i] <= snap.url
        <5>1. CASE i = n + 1
          BY <2>3, <4>1, <5>1
        <5>2. CASE i # n + 1
          <6>1. i \in 1..n
            BY <3>2, <5>2
          <6> QED BY <1>1, <2>3, <6>1
        <5> QED BY <5>1, <5>2
      <4> QED BY <4>2
    <3> QED BY <3>3, <3>4
  <2>5. /\ urls \in Timelines
        /\ \A i, j \in DOMAIN urls : i < j => urls[i] < urls[j]
        /\ \A i \in DOMAIN urls : urls[i] <= snap.url
        /\ trunc => urls[1] > 1 /\ Len(urls) = MaxTimeline
    <3>1. CASE n < MaxTimeline
      <4>1. urls = all /\ n + 1 \in 1..MaxTimeline /\ ~trunc
        BY <1>1, <1>2, <2>3, <3>1 DEF Trim
      <4>2. DOMAIN all = 1..n + 1 /\ all \in Timelines
        BY <2>3, <4>1 DEF Timelines
      <4> HIDE DEF urls, trunc
      <4> QED BY <2>4, <4>1, <4>2
    <3>2. CASE n = MaxTimeline
      <4>1. urls = SubSeq(all, 2, n + 1)
        BY <1>1, <1>2, <2>3, <3>2 DEF Trim
      <4> HIDE DEF urls
      <4>2. /\ urls \in [1..n -> 1..MaxPages] /\ Len(urls) = n
            /\ \A i \in 1..n : urls[i] = all[i + 1]
        <5>1. n \in Nat /\ n + 1 - 2 + 1 = n
          BY <1>1, <1>2
        <5> HIDE DEF n
        <5>2. /\ Len(SubSeq(all, 2, n + 1)) = n /\ DOMAIN SubSeq(all, 2, n + 1) = 1..n
              /\ \A i \in 1..n : SubSeq(all, 2, n + 1)[i] = all[i + 1]
          <6>1. all \in Seq(1..MaxPages) /\ Len(all) = n + 1
            BY <2>3
          <6> QED BY <5>1, <6>1
        <5>3. \A i \in 1..n : i + 1 \in 1..n + 1
          BY <5>1
        <5>4. urls \in [1..n -> 1..MaxPages]
          <6>1. SubSeq(all, 2, n + 1) \in Seq(1..MaxPages)
            BY <2>3, <5>1
          <6>2. SubSeq(all, 2, n + 1) \in [1..n -> 1..MaxPages]
            BY <5>2, <6>1, LenProperties
          <6> QED BY <4>1, <6>2
        <5> QED BY <4>1, <5>2, <5>4
      <4>3. DOMAIN urls = 1..n /\ urls \in Timelines
        BY <1>1, <3>2, <4>2 DEF Timelines
      <4>4. \A i \in 1..n : i + 1 \in 1..n + 1
        BY <1>1
      <4>5. /\ \A i, j \in 1..n : i < j => urls[i] < urls[j]
            /\ \A i \in 1..n : urls[i] <= snap.url
        <5>1. ASSUME NEW i \in 1..n, NEW j \in 1..n, i < j
              PROVE  i + 1 < j + 1
          BY <1>1, <1>2, <5>1
        <5> HIDE DEF n
        <5> QED BY <2>4, <4>2, <4>4, <5>1
      <4>6. urls[1] > 1
        <5>1. 1 \in 1..n + 1 /\ 2 \in 1..n + 1 /\ 1 \in 1..n
          BY <1>1, <1>2
        <5>2. urls[1] = all[2] /\ all[1] < all[2] /\ all[1] \in 1..MaxPages
          BY <2>3, <2>4, <4>2, <5>1
        <5>3. all[2] \in 1..MaxPages
          BY <2>3, <5>1
        <5> QED BY <5>2, <5>3
      <4> QED BY <3>2, <4>2, <4>3, <4>5, <4>6
    <3> QED BY <1>1, <1>2, <3>1, <3>2
  <2> HIDE DEF urls
  <2>6. trunc \in BOOLEAN
    OBVIOUS
  <2> HIDE DEF trunc
  <2> QED BY <1>1, <2>1, <2>5, <2>6 DEF Records
<1> QED BY <1>3, <1>4

LEMMA RecordsAre ==
  /\ \A w \in Windows : NewRecord(w) \in Records /\ NewRecord(w).win = w
  /\ \A snap \in Records : snap \in Snapshots /\ snap \in Snapshot /\ snap.win \in Windows
  /\ \A snap \in Records : \A next \in Observations(snap) : next \in Records /\ next.win = snap.win
  /\ \A snap \in Records : \A next \in Navigations(snap) : next \in Records /\ next.win = snap.win
<1>1. ASSUME NEW w \in Windows
      PROVE  NewRecord(w) \in Records /\ NewRecord(w).win = w
  <2>1. 1 \in 1..MaxTimeline /\ 1 \in 1..MaxPages
    BY DbAssumption, HostAssumption
  <2>2. <<1>> \in [1..1 -> 1..MaxPages] /\ DOMAIN <<1>> = 1..1 /\ <<1>>[1] = 1
    BY <2>1
  <2>3. <<1>> \in Timelines
    BY <2>1, <2>2 DEF Timelines
  <2> QED BY <2>1, <2>2, <2>3 DEF NewRecord, Records
<1>2. ASSUME NEW snap \in Records
      PROVE  snap \in Snapshots /\ snap \in Snapshot /\ snap.win \in Windows
  BY DbAssumption, HostAssumption DEF Records
<1>3. ASSUME NEW snap \in Records, NEW next \in Navigations(snap)
      PROVE  next \in Records /\ next.win = snap.win
  <2>1. CASE next = snap
    BY <2>1
  <2>2. CASE snap.url < MaxPages /\ next = PageStarted(snap)
    <3>1. /\ snap \in [win: Windows, url: 1..MaxPages, urls: Timelines, trunc: BOOLEAN]
          /\ MaxPages \in Nat /\ snap.url \in 1..MaxPages /\ snap.url + 1 \in 1..MaxPages
      BY <2>2, HostAssumption DEF Records
    <3>2. /\ next \in [win: Windows, url: 1..MaxPages, urls: Timelines, trunc: BOOLEAN]
          /\ next.win = snap.win /\ next.url = snap.url + 1
          /\ next.urls = snap.urls /\ next.trunc = snap.trunc
      BY <2>2, <3>1 DEF PageStarted
    <3>3. \A i \in DOMAIN snap.urls : snap.urls[i] \in Nat
      BY <3>1 DEF Timelines
    <3>4. \A i \in DOMAIN snap.urls : snap.urls[i] <= snap.url + 1
      BY <3>1, <3>3 DEF Records
    <3> QED BY <3>2, <3>4 DEF Records
  <2> QED BY <2>1, <2>2 DEF Navigations
<1>4. ASSUME NEW snap \in Records, NEW next \in Observations(snap)
      PROVE  next \in Records /\ next.win = snap.win
  BY <1>3, FinishedIsRecord DEF Observations
<1> QED BY <1>1, <1>2, <1>3, <1>4

LEMMA TaskFields ==
  ASSUME NEW t \in TaskType
  PROVE  /\ t.at \in Reading => t.win \in Windows
         /\ t.at \in {"tracking", "replayed"} => t.snap \in Records /\ t.snap.win = t.win
         /\ t.at \in {"closing"} \union Closing => t.todo \in SUBSET Windows
         /\ t.at \in Closing => t.win \in Windows
         /\ t.at \in {"refreshing", "refreshed"} => t.todo \in SUBSET Windows /\ t.next \in Uses
         /\ t.at = "refreshing" /\ t.next = "status" => t.win \in Windows
         /\ t.at = "refreshed" => t.win \in Windows /\ t.snap \in Records
         /\ t.at = "syncing" => t.snap \in Records
         /\ t.at = "configuring" => t.next \in {"enable", "disable", "retention"}
BY DEF TaskType, Reading, Closing, Uses

LEMMA TasksAre ==
  /\ Idle \in TaskType /\ [at |-> "awaiting"] \in TaskType
  /\ \A w \in Windows : \A at \in {"building", "placing", "tracked", "replaying", "opened"} :
       [at |-> at, win |-> w] \in TaskType
  /\ \A snap \in Records : \A at \in {"tracking", "replayed"} :
       [at |-> at, win |-> snap.win, snap |-> snap] \in TaskType
  /\ \A todo \in SUBSET Windows : [at |-> "closing", todo |-> todo] \in TaskType
  /\ \A w \in Windows : \A todo \in SUBSET Windows : \A at \in Closing :
       [at |-> at, win |-> w, todo |-> todo] \in TaskType
  /\ \A todo \in SUBSET Windows : \A next \in {"list", "enable"} :
       [at |-> "refreshing", todo |-> todo, next |-> next] \in TaskType
  /\ \A w \in Windows : \A todo \in SUBSET Windows : \A next \in Uses :
       /\ [at |-> "refreshing", todo |-> todo, next |-> next, win |-> w] \in TaskType
       /\ \A snap \in Records :
            [at |-> "refreshed", todo |-> todo, next |-> next, win |-> w, snap |-> snap] \in TaskType
  /\ \A snap \in Records : [at |-> "syncing", snap |-> snap] \in TaskType
  /\ \A next \in {"enable", "disable", "retention"} : [at |-> "configuring", next |-> next] \in TaskType
<1>1. \A snap \in Records : snap.win \in Windows
  BY RecordsAre
<1>2. /\ Idle \in TaskType /\ [at |-> "awaiting"] \in TaskType
      /\ \A snap \in Records : [at |-> "syncing", snap |-> snap] \in TaskType
      /\ \A next \in {"enable", "disable", "retention"} : [at |-> "configuring", next |-> next] \in TaskType
  BY DEF TaskType, Idle
<1>3. /\ \A w \in Windows : \A at \in {"building", "placing", "tracked", "replaying", "opened"} :
           [at |-> at, win |-> w] \in TaskType
      /\ \A snap \in Records : \A at \in {"tracking", "replayed"} :
           [at |-> at, win |-> snap.win, snap |-> snap] \in TaskType
  BY <1>1 DEF TaskType, Reading
<1>4. /\ \A todo \in SUBSET Windows : [at |-> "closing", todo |-> todo] \in TaskType
      /\ \A w \in Windows : \A todo \in SUBSET Windows : \A at \in Closing :
           [at |-> at, win |-> w, todo |-> todo] \in TaskType
  BY DEF TaskType
<1>5. /\ \A todo \in SUBSET Windows : \A next \in {"list", "enable"} :
           [at |-> "refreshing", todo |-> todo, next |-> next] \in TaskType
      /\ \A w \in Windows : \A todo \in SUBSET Windows : \A next \in Uses :
           /\ [at |-> "refreshing", todo |-> todo, next |-> next, win |-> w] \in TaskType
           /\ \A snap \in Records :
                [at |-> "refreshed", todo |-> todo, next |-> next, win |-> w, snap |-> snap] \in TaskType
  BY DEF TaskType
<1> QED BY <1>1, <1>2, <1>3, <1>4, <1>5

\* Moving on to the next step of an open or a close keeps what the task is about.
LEMMA TaskMoves ==
  ASSUME NEW t \in TaskType, NEW at
  PROVE  /\ t.at \in {"building", "placing"} => [t EXCEPT !.at = at] = [at |-> at, win |-> t.win]
         /\ t.at \in Closing => [t EXCEPT !.at = at] = [at |-> at, win |-> t.win, todo |-> t.todo]
<1>1. CASE t.at \in {"building", "placing"}
  <2>1. t \in [at: Reading, win: Windows]
    BY <1>1 DEF TaskType, Reading, Closing
  <2> QED BY <1>1, <2>1 DEF Closing
<1>2. CASE t.at \in Closing
  <2>1. t \in [at: Closing, win: Windows, todo: SUBSET Windows]
    BY <1>2 DEF TaskType, Reading, Closing
  <2> QED BY <1>2, <2>1 DEF Closing
<1> QED BY <1>1, <1>2

LEMMA LocksAre ==
  /\ \A c \in Clients : (c \in Writers <=> Writes(task[c])) /\ (c \in Readers <=> Reads(task[c]))
  /\ MayRead => \A c \in Clients : ~Writes(task[c])
  /\ MayWrite => \A c \in Clients : ~Writes(task[c]) /\ ~Reads(task[c])
  /\ RegistryFree => \A c \in Clients : task[c].at # "configuring"
<1>1. \A c \in Clients : (c \in Writers <=> Writes(task[c])) /\ (c \in Readers <=> Reads(task[c]))
  BY DEF Writers, Readers, Writes, Reads, Reading, Closing
<1> QED BY <1>1 DEF MayRead, MayWrite, RegistryFree

-----------------------------------------------------------------------------
(* What the manager's own steps may do, the worker's apart *)

ClosePending(w) == \E i \in DOMAIN queue : queue[i].op = "close" /\ queue[i].snap.win = w

\* A step that leaves the worker's state alone: a window enters the registry only
\* when its native window is made, it leaves for good, its record is kept, and an
\* open succeeds only with a window the worker knows.
Outward ==
  /\ UNCHANGED <<phase, config, rows, sessions, day>>
  /\ asked \subseteq asked' /\ byUser \subseteq byUser'
  /\ \A w \in DOMAIN final : w \in DOMAIN final' /\ final'[w] = final[w]
  /\ \A w \in DOMAIN final' : w \in DOMAIN final \/ (w \in DOMAIN registry /\ w \notin DOMAIN registry')
  /\ \A w \in Windows : native'[w] = "unused" => native[w] = "unused" /\ outcome'[w] = outcome[w]
  /\ \A w \in DOMAIN registry' :
       w \in DOMAIN registry \/ (w \in Windows /\ native[w] = "unused" /\ native'[w] # "unused")
  /\ \A i \in DOMAIN queue : i \in DOMAIN queue' /\ queue'[i] = queue[i]
  /\ \A w \in Windows : outcome'[w] = "ok" =>
       \/ /\ outcome[w] = "ok"
          /\ w \in DOMAIN registry => w \in DOMAIN registry' \/ ClosePending(w)'
       \/ w \in DOMAIN registry /\ w \in DOMAIN registry' /\ (config.enabled => Tracked(w))

LEMMA OutwardKeeps ==
  HostTypes /\ Onces /\ Tables /\ Tracks /\ Ghosts /\ Outward => Onces' /\ Tables' /\ Tracks' /\ Ghosts'
<1> SUFFICES ASSUME HostTypes, Onces, Tables, Tracks, Ghosts, Outward
             PROVE  Onces' /\ Tables' /\ Tracks' /\ Ghosts'
  OBVIOUS
<1>1. Onces'
  <2>1. ASSUME NEW w \in Windows, native'[w] = "unused"
        PROVE  w \notin DOMAIN registry' /\ w \notin DOMAIN final' /\ rows'[w] = <<>> /\ outcome'[w] = "none"
    BY <2>1 DEF Outward, Onces
  <2>2. ASSUME NEW w \in DOMAIN registry', w \in DOMAIN final'
        PROVE  FALSE
    BY <2>2 DEF Outward, Onces
  <2> QED BY <2>1, <2>2 DEF Onces
<1>2. ASSUME NEW w \in Windows
      PROVE  Kept(w)'
  <2>1. /\ Kept(w) /\ rows' = rows
        /\ w \in DOMAIN registry' => w \in DOMAIN registry \/ rows[w] = <<>>
    BY DEF Tables, Outward, Onces
  <2>2. w \in DOMAIN registry' => \A i \in DOMAIN rows'[w] : rows'[w][i].status # "closed"
    BY <2>1 DEF Kept
  <2>3. \A i, j \in DOMAIN rows'[w] : rows'[w][i].status # "deleted" /\ rows'[w][j].status # "deleted" => i = j
    BY <2>1 DEF Kept
  <2>4. \A i \in DOMAIN rows'[w] :
          /\ rows'[w][i].reason = "explicit" => w \in asked'
          /\ rows'[w][i].reason = "destroyed" => w \in byUser'
          /\ rows'[w][i].status = "closed" /\ rows'[w][i].reason \in CloseReasons =>
               w \in DOMAIN final' /\ rows'[w][i].url = final'[w].url
    BY <2>1 DEF Kept, Outward
  <2> QED BY <2>2, <2>3, <2>4 DEF Kept
<1>3. \A w : Tracked(w)' <=> Tracked(w)
  BY DEF Outward, Tracked
<1>4. Tracks'
  <2>1. ASSUME NEW w \in DOMAIN registry', config.enabled, outcome'[w] = "ok"
        PROVE  Tracked(w)
    BY <2>1 DEF Outward, Onces, Tracks, HostTypes
  <2> QED BY <1>3, <2>1 DEF Tracks, Outward
<1>5. Ghosts'
  <2>1. ASSUME ~StorageMayFail, NEW w \in Windows, Tracked(w), outcome'[w] = "ok"
        PROVE  w \in DOMAIN registry' \/ ClosePending(w)'
    <3>1. ClosePending(w) => ClosePending(w)'
      BY DEF ClosePending, Outward
    <3>2. outcome[w] = "ok" => w \in DOMAIN registry \/ ClosePending(w)
      BY <2>1 DEF Ghosts, ClosePending
    <3> QED BY <2>1, <3>1, <3>2 DEF Outward
  <2> QED BY <1>3, <2>1 DEF Ghosts, ClosePending
<1> QED BY <1>1, <1>2, <1>4, <1>5 DEF Tables

\* A thread that the step leaves alone still knows what it knew.
LEMMA OthersHold ==
  ASSUME HostTypes, Onces, Threads, Outward, NEW d \in Clients,
         task'[d] = task[d], reply'[d] = reply[d],
         Reads(task[d]) => outcome'[task[d].win] = outcome[task[d].win],
         task[d].at = "marked" /\ task[d].win \in reasons =>
           task[d].win \in reasons' \/ task[d].win \notin DOMAIN registry'
  PROVE  Holds(task[d], reply[d])'
<1> DEFINE t == task[d]
<1>1. Holds(t, reply[d]) /\ t \in TaskType
  BY DEF Threads, HostTypes
<1>2. /\ t.at \in Reading => t.win \in Windows
      /\ t.at \in Closing => t.win \in Windows
  BY <1>1, TaskFields
<1>3. /\ t.at \in Reading => outcome'[t.win] = "none"
      /\ t.at \in Reading \union Closing => native'[t.win] # "unused"
  BY <1>1, <1>2 DEF Holds, Outward, Reads
<1>4. Unsent \subseteq Reading /\ Settled \subseteq Reading /\ "tracked" \in Reading
  BY DEF Unsent, Reading, Settled
<1>5. t.at \in Unsent => Blank(t.win)'
  BY <1>1 DEF Holds, Outward, Blank
<1>6. (t.at \in Settled \/ (t.at = "tracked" /\ reply[d] = "ok")) /\ t.win \in DOMAIN registry' /\ config'.enabled
        => sessions'[t.win].id # 0
  BY <1>1, <1>2, <1>4 DEF Holds, Outward, Tracked
<1>7. /\ t.at \in {"closing"} \union Closing => t.todo \subseteq asked'
      /\ t.at \in Closing => t.win \in asked'
  BY <1>1 DEF Holds, Outward
<1>8. t.at = "marked" => t.win \in reasons' \/ t.win \notin DOMAIN registry'
  <2>1. "marked" \in Closing
    BY DEF Closing
  <2>2. ASSUME t.at = "marked", t.win \in DOMAIN registry'
        PROVE  t.win \in DOMAIN registry \/ native[t.win] = "unused"
    BY <2>2 DEF Outward
  <2> QED BY <1>1, <1>2, <2>1, <2>2 DEF Holds, Outward
<1>9. reply[d] = "waiting" => t.at \in Waiting
  BY <1>1 DEF Holds
<1> QED BY <1>3, <1>5, <1>6, <1>7, <1>8, <1>9 DEF Holds, Tracked

\* The commands that wait stay true, and so does one that is sent now.
LEMMA CommandsStay ==
  ASSUME Commands, Outward, NEW cmd,
         registry' = registry \/ RegistryFree,
         \A d \in Clients : reply[d] = "waiting" => task'[d] = task[d] /\ reply'[d] = "waiting",
         queue \in Seq(Command),
         queue' = queue \/ (/\ queue' = Append(queue, cmd) /\ Meant(cmd)'
                            /\ cmd.by \in Clients => reply[cmd.by] # "waiting")
  PROVE  Commands'
<1>1. ASSUME NEW i \in DOMAIN queue
      PROVE  LET q == queue[i] IN
             /\ q.by \in Clients => reply'[q.by] = "waiting" /\ (task'[q.by].at = "tracked" => q.op = "open")
             /\ \/ /\ q.op = "open" /\ q.by \in Clients
                   /\ task'[q.by].at = "tracked" /\ task'[q.by].win = q.snap.win
                   /\ Blank(q.snap.win)
                \/ q.op \in {"sync", "clear", "retention"}
                \/ /\ q.op = "close" /\ q.snap.win \in DOMAIN final' /\ q.snap = final'[q.snap.win]
                   /\ q.reason = "explicit" => q.snap.win \in asked'
                   /\ q.reason = "destroyed" => q.snap.win \in byUser'
                \/ /\ q.op = "history" /\ q.by \in Clients /\ q.active = ActiveWindows'
                   /\ task'[q.by].at = "configuring" /\ task'[q.by].next \in {"enable", "disable"}
  <2> DEFINE q == queue[i]
  <2>1. Meant(q)
    BY DEF Commands
  <2>2. q.by \in Clients => reply'[q.by] = "waiting" /\ (task'[q.by].at = "tracked" => q.op = "open")
    BY <2>1 DEF Meant
  <2>3. CASE q.op = "open"
    BY <2>1, <2>2, <2>3 DEF Meant
  <2>4. CASE q.op = "close"
    BY <2>1, <2>2, <2>4 DEF Meant, Outward
  <2>5. CASE q.op = "history"
    <3>1. /\ q.by \in Clients /\ q.active = ActiveWindows
          /\ task'[q.by].at = "configuring" /\ task[q.by].at = "configuring"
          /\ task'[q.by].next \in {"enable", "disable"}
      BY <2>1, <2>5 DEF Meant
    <3>2. registry' = registry
      BY <3>1, LocksAre
    <3>3. ActiveWindows' = ActiveWindows
      BY <3>2 DEF ActiveWindows
    <3> QED BY <2>2, <2>5, <3>1, <3>3
  <2>6. CASE q.op \in {"sync", "clear", "retention"}
    BY <2>2, <2>6
  <2> QED BY <2>1, <2>3, <2>4, <2>5, <2>6 DEF Meant
<1>2. \A i \in DOMAIN queue' : (i \in DOMAIN queue /\ queue'[i] = queue[i]) \/
                                (queue'[i] = cmd /\ Meant(cmd)' /\ i = Len(queue) + 1 /\ queue' # queue)
  OBVIOUS
<1>3. \A w : Blank(w)' <=> Blank(w)
  BY DEF Blank, Outward
<1>4. ASSUME NEW i \in DOMAIN queue'
      PROVE  Meant(queue[i])'
  <2>1. CASE i \in DOMAIN queue /\ queue'[i] = queue[i]
    BY <1>1, <1>3, <2>1 DEF Meant
  <2>2. CASE queue'[i] = cmd /\ Meant(cmd)'
    BY <2>2 DEF Meant
  <2> QED BY <1>2, <2>1, <2>2
<1>5. ASSUME NEW i \in DOMAIN queue', NEW j \in DOMAIN queue',
             queue'[i].by \in Clients, queue'[j].by = queue'[i].by
      PROVE  i = j
  <2>1. CASE i \in DOMAIN queue /\ j \in DOMAIN queue
    BY <1>2, <1>5, <2>1 DEF Commands
  <2>2. ASSUME NEW k \in DOMAIN queue, queue' # queue, queue[k].by = cmd.by, cmd.by \in Clients
        PROVE  FALSE
    <3>1. reply[cmd.by] # "waiting" /\ Meant(queue[k])
      BY <2>2 DEF Commands
    <3> QED BY <2>2, <3>1 DEF Meant
  <2> QED BY <1>2, <1>5, <2>1, <2>2
<1> QED BY <1>4, <1>5 DEF Commands

\* The lifecycle lock: a thread writes or reads when it did, or when it may.
LEMMA LocksStay ==
  ASSUME Locks, Threads, HostTypes, NEW c \in Clients,
         \A d \in Clients \ {c} : task'[d] = task[d],
         Writes(task'[c]) => Writes(task[c]) \/ MayWrite,
         Reads(task'[c]) => \/ Reads(task[c]) /\ task'[c].win = task[c].win
                            \/ MayRead /\ native[task'[c].win] = "unused"
  PROVE  Locks'
<1>1. ASSUME NEW d \in Clients \ {c}
      PROVE  Apart(task'[c], task[d]) /\ Apart(task[d], task'[c])
  <2>1. Apart(task[c], task[d]) /\ Holds(task[d], reply[d])
    BY DEF Locks, Threads
  <2>2. Reads(task[d]) => native[task[d].win] # "unused"
    BY <2>1 DEF Holds, Reads
  <2>3. MayRead => ~Writes(task[d])
    BY LocksAre
  <2>4. MayWrite => ~Writes(task[d]) /\ ~Reads(task[d])
    BY LocksAre
  <2> QED BY <2>1, <2>2, <2>3, <2>4 DEF Apart
<1>2. ASSUME NEW d \in Clients, NEW e \in Clients, d # e
      PROVE  Apart(task'[d], task'[e])
  BY <1>1, <1>2 DEF Locks
<1> QED BY <1>2 DEF Locks

LEMMA CausesStay ==
  ASSUME Causes, HostTypes, reasons \subseteq reasons', reasons' \subseteq asked', byUser \subseteq byUser',
         \A w \in DOMAIN registry' : native'[w] = "dying" => w \in DOMAIN registry /\ native[w] = "dying",
         \A c \in Clients : task[c].at = "destroyed" => task'[c] = task[c]
  PROVE  Causes'
BY DEF Causes

\* The rest of the invariant, for the steps that leave the worker running.
LEMMA RunningStays ==
  ASSUME Quiescent, phase = "running", phase' = phase
  PROVE  Quiescent'
BY DEF Quiescent

\* A step of one thread that removes no window, destroys none, and leaves the lock
\* as it was.
Steady(c, t) ==
  /\ phase = "running"
  /\ UNCHANGED <<phase, config, rows, sessions, day, byUser, final, observed>>
  /\ task' = [task EXCEPT ![c] = t] /\ task[c].at # "destroyed" /\ reply[c] # "waiting"
  /\ DOMAIN registry' = DOMAIN registry
  /\ \A w \in DOMAIN registry : registry'[w] \in Records /\ registry'[w].win = w
  /\ registry' = registry \/ RegistryFree
  /\ native' \in [Windows -> {"unused", "hidden", "live", "dying", "gone"}]
  /\ \A w \in Windows : native'[w] = native[w] \/ (native[w] = "hidden" /\ native'[w] = "live")
  /\ reasons \subseteq reasons' /\ reasons' \subseteq asked'
  /\ asked \subseteq asked' /\ asked' \subseteq Windows /\ gates' \subseteq Windows
  /\ outcome' \in [Windows -> {"none", "ok", "error"}]
  /\ \A w \in Windows : \/ outcome'[w] = outcome[w]
                        \/ /\ Reads(task[c]) /\ w = task[c].win
                           /\ outcome'[w] = "ok" => w \in DOMAIN registry /\ (config.enabled => Tracked(w))
  /\ Writes(t) => Writes(task[c]) \/ MayWrite
  /\ Reads(t) => Reads(task[c]) /\ t.win = task[c].win

\* What the thread sends while it takes the step.
Sends(cmd) ==
  /\ queue' = Append(queue, cmd)
  /\ reply' = [d \in Clients |-> IF d = cmd.by THEN "waiting" ELSE reply[d]]

LEMMA SteadyStep ==
  ASSUME HostInv, WorkerInv', NEW c \in Clients, NEW t \in TaskType, NEW cmd, Steady(c, t),
         \/ queue' = queue /\ reply' = reply
         \/ Sends(cmd) /\ Meant(cmd)' /\ cmd.by \in {c, Nobody},
         Holds(t, reply[c])'
  PROVE  HostInv'
<1> USE DEF HostInv
<1>1. /\ task \in [Clients -> TaskType] /\ task' \in [Clients -> TaskType] /\ task'[c] = t
      /\ \A d \in Clients \ {c} : task'[d] = task[d]
  BY DEF Steady, HostTypes
<1>2. HostTypes'
  BY <1>1 DEF Steady, HostTypes
<1>3. /\ queue \in Seq(Command) /\ \A i \in DOMAIN queue : i \in DOMAIN queue' /\ queue'[i] = queue[i]
      /\ \A d \in Clients \ {c} : reply'[d] = reply[d]
  <2>1. queue \in Seq(Command) /\ reply \in [Clients -> {"idle", "waiting", "ok", "error"}]
    BY DEF WorkerInv, TypeOK
  <2>2. Nobody \notin Clients
    BY DbAssumption
  <2> QED BY <2>1, <2>2 DEF Sends
<1>4. Outward
  <2>1. Reads(task[c]) => native[task[c].win] # "unused"
    BY DEF Threads, Holds, Reads
  <2>2. \A w \in Windows : native'[w] = "unused" => native[w] = "unused" /\ outcome'[w] = outcome[w]
    BY <2>1 DEF Steady
  <2>3. \A w \in Windows : outcome'[w] = "ok" =>
          \/ outcome[w] = "ok" /\ (w \in DOMAIN registry => w \in DOMAIN registry')
          \/ w \in DOMAIN registry /\ w \in DOMAIN registry' /\ (config.enabled => Tracked(w))
    BY DEF Steady
  <2>4. /\ UNCHANGED <<phase, config, rows, sessions, day, final>>
        /\ asked \subseteq asked' /\ byUser \subseteq byUser' /\ DOMAIN registry' = DOMAIN registry
    BY DEF Steady
  <2> QED BY <1>3, <2>2, <2>3, <2>4 DEF Outward
<1>5. Onces' /\ Tables' /\ Tracks' /\ Ghosts'
  BY <1>4, OutwardKeeps
<1>6. Threads'
  <2>1. ASSUME NEW d \in Clients \ {c}
        PROVE  Holds(task[d], reply[d])'
    <3>1. task'[d] = task[d] /\ reply'[d] = reply[d]
      BY <1>1, <1>3
    <3>2. Reads(task[d]) => outcome'[task[d].win] = outcome[task[d].win]
      <4>1. Apart(task[c], task[d])
        BY DEF Locks
      <4>2. Reads(task[d]) => task[d].win \in Windows
        BY <1>1, TaskFields DEF Reads
      <4> QED BY <4>1, <4>2 DEF Apart, Steady
    <3>3. reasons \subseteq reasons'
      BY DEF Steady
    <3> QED BY <1>4, <3>1, <3>2, <3>3, OthersHold
  <2>2. Holds(task[c], reply[c])'
    BY <1>1 DEF Holds
  <2> QED BY <2>1, <2>2 DEF Threads
<1>7. Commands'
  <2>1. \A d \in Clients : reply[d] = "waiting" => task'[d] = task[d] /\ reply'[d] = "waiting"
    BY <1>1, <1>3 DEF Steady
  <2>2. registry' = registry \/ RegistryFree
    BY DEF Steady
  <2>3. queue' = queue \/ (/\ queue' = Append(queue, cmd) /\ Meant(cmd)'
                           /\ cmd.by \in Clients => reply[cmd.by] # "waiting")
    BY DbAssumption DEF Sends, Steady
  <2> QED BY <1>3, <1>4, <2>1, <2>2, <2>3, CommandsStay
<1>8. Locks'
  BY <1>1, LocksStay DEF Steady
<1>9. Causes'
  <2>1. \A d \in Clients : task[d].at = "destroyed" => task'[d] = task[d]
    BY <1>1 DEF Steady
  <2>2. \A w \in DOMAIN registry' : native'[w] = "dying" => w \in DOMAIN registry /\ native[w] = "dying"
    BY DEF Steady, HostTypes
  <2>3. reasons \subseteq reasons' /\ reasons' \subseteq asked' /\ byUser \subseteq byUser'
    BY DEF Steady
  <2> QED BY <2>1, <2>2, <2>3, CausesStay
<1>10. Quiescent'
  BY RunningStays DEF Steady
<1> QED BY <1>2, <1>5, <1>6, <1>7, <1>8, <1>9, <1>10

-----------------------------------------------------------------------------
(* To the worker the manager is a client *)

LEMMA ListsAreListings == HostTypes => ActiveWindows \in Listings
<1> SUFFICES ASSUME HostTypes
             PROVE  ActiveWindows \in Listings
  OBVIOUS
<1>1. \A w \in DOMAIN registry : registry[w] \in Snapshots /\ registry[w].win = w
  BY RecordsAre DEF HostTypes
<1> QED BY <1>1 DEF ActiveWindows, Listings

LEMMA ManagerSends ==
  ASSUME HostTypes
  PROVE  /\ \A snap \in Records : Enqueue(SyncCommand(snap, Nobody)) => AsyncSend
         /\ \A snap \in Records, why \in CloseReasons : Enqueue(CloseCommand(snap, why)) => AsyncSend
         /\ \A c \in Clients : reply[c] # "waiting" =>
              /\ \A snap \in Records :
                   /\ Enqueue(SyncCommand(snap, c)) => ClientSend(c)
                   /\ Enqueue([op |-> "open", snap |-> snap, by |-> c]) /\ Room => ClientSend(c)
              /\ Enqueue([op |-> "clear", by |-> c]) => ClientSend(c)
              /\ \A on \in BOOLEAN :
                   Enqueue(HistoryCommand(c, on)) /\ (on => Room) => ClientSend(c)
              /\ \A days \in Retentions :
                   Enqueue([op |-> "retention", days |-> days, by |-> c]) => ClientSend(c)
<1>1. \A snap \in Records : snap \in Snapshots
  BY RecordsAre
<1>2. ActiveWindows \in Listings
  BY ListsAreListings
<1>3. /\ \A snap \in Records : Enqueue(SyncCommand(snap, Nobody)) => AsyncSend
      /\ \A snap \in Records, why \in CloseReasons : Enqueue(CloseCommand(snap, why)) => AsyncSend
  BY <1>1 DEF Enqueue, Fits, SyncCommand, CloseCommand, AsyncSend
<1>4. ASSUME NEW c \in Clients, reply[c] # "waiting"
      PROVE  /\ \A snap \in Records :
                  /\ Enqueue(SyncCommand(snap, c)) => ClientSend(c)
                  /\ Enqueue([op |-> "open", snap |-> snap, by |-> c]) /\ Room => ClientSend(c)
             /\ Enqueue([op |-> "clear", by |-> c]) => ClientSend(c)
             /\ \A on \in BOOLEAN :
                  Enqueue(HistoryCommand(c, on)) /\ (on => Room) => ClientSend(c)
             /\ \A days \in Retentions :
                  Enqueue([op |-> "retention", days |-> days, by |-> c]) => ClientSend(c)
  <2>1. ASSUME NEW snap \in Records
        PROVE  /\ Enqueue(SyncCommand(snap, c)) => ClientSend(c)
               /\ Enqueue([op |-> "open", snap |-> snap, by |-> c]) /\ Room => ClientSend(c)
    BY <1>1, <1>4 DEF Enqueue, Fits, SyncCommand, ClientSend
  <2>2. Enqueue([op |-> "clear", by |-> c]) => ClientSend(c)
    BY <1>4 DEF Enqueue, Fits, ClientSend
  <2>3. ASSUME NEW on \in BOOLEAN, Enqueue(HistoryCommand(c, on)), on => Room
        PROVE  ClientSend(c)
    <3>1. /\ Len(queue) < MaxQueue /\ UNCHANGED <<phase, config, rows, sessions, day>>
          /\ Send([op |-> "history", enabled |-> on, active |-> ActiveWindows, by |-> c])
      BY <2>3 DEF Enqueue, Fits, HistoryCommand
    <3> QED BY <1>2, <1>4, <2>3, <3>1 DEF ClientSend
  <2>4. \A days \in Retentions : Enqueue([op |-> "retention", days |-> days, by |-> c]) => ClientSend(c)
    BY <1>4 DEF Enqueue, Fits, ClientSend
  <2> QED BY <2>1, <2>2, <2>3, <2>4
<1> QED BY <1>3, <1>4

LEMMA OpenSends == ASSUME HostInv, NEW c \in Clients, Open(c) PROVE Quiet \/ AsyncSend \/ ClientSend(c)
<1>1. CASE OpenTrack(c)
  <2>1. task[c].snap \in Records /\ reply[c] # "waiting"
    BY <1>1, TaskFields DEF OpenTrack, HostInv, HostTypes, Threads, Holds, Waiting
  <2> QED BY <1>1, <2>1, ManagerSends DEF OpenTrack, HostInv
<1>2. CASE OpenReplayed(c)
  <2>1. task[c].snap \in Records
    BY <1>2, TaskFields DEF OpenReplayed, HostInv, HostTypes
  <2> QED BY <1>2, <2>1, ManagerSends DEF OpenReplayed, HostInv
<1>3. CASE ~OpenTrack(c) /\ ~OpenReplayed(c)
  BY <1>3 DEF Open, OpenCall, OpenAbandoned, OpenFails, Rollback, OpenShow, OpenStatus, OpenRefused,
     OpenActivate, OpenReplay, OpenReturns
<1> QED BY <1>1, <1>2, <1>3

LEMMA RemovalSends ==
  ASSUME HostTypes, NEW w \in DOMAIN registry, NEW reason \in CloseReasons, RemoveAndClose(w, reason)
  PROVE  AsyncSend
<1>1. registry[w] \in Records
  BY DEF HostTypes
<1> QED BY <1>1, ManagerSends DEF RemoveAndClose

LEMMA CloseSends == ASSUME HostInv, NEW c \in Clients, Close(c) PROVE Quiet \/ AsyncSend
<1>1. CASE CloseRemove(c)
  <2>1. task[c].win \in DOMAIN registry => RemoveAndClose(task[c].win, "explicit")
    BY <1>1 DEF CloseRemove
  <2>2. task[c].win \notin DOMAIN registry => Quiet
    BY <1>1 DEF CloseRemove
  <2>3. "explicit" \in CloseReasons
    BY DEF CloseReasons
  <2> QED BY <2>1, <2>2, <2>3, RemovalSends DEF HostInv
<1>2. CASE ~CloseRemove(c)
  BY <1>2 DEF Close, CloseCall, CloseTarget, CloseMark, CloseDestroy
<1> QED BY <1>1, <1>2

LEMMA InspectSends == ASSUME HostInv, NEW c \in Clients, Inspect(c) PROVE Quiet \/ AsyncSend \/ ClientSend(c)
<1> USE DEF HostInv
<1>1. /\ task[c] \in TaskType
      /\ task[c].at \notin {"awaiting", "configuring", "tracked"} => reply[c] # "waiting"
      /\ task[c] = Idle => task[c].at = "idle"
  BY DEF HostTypes, Threads, Holds, Waiting, Idle
<1>2. CASE RefreshSync(c)
  <2>1. task[c].snap \in Records
    BY <1>1, <1>2, TaskFields DEF RefreshSync
  <2> QED BY <1>2, <2>1, ManagerSends DEF RefreshSync
<1>3. CASE StatusSync(c)
  <2>1. task[c].snap \in Records
    BY <1>1, <1>3, TaskFields DEF StatusSync
  <2> QED BY <1>1, <1>3, <2>1, ManagerSends DEF StatusSync
<1>4. CASE ClearCall(c)
  BY <1>1, <1>4, ManagerSends DEF ClearCall
<1>5. CASE ConfigEnable(c)
  BY <1>1, <1>5, ManagerSends DEF ConfigEnable, ConfigSend
<1>6. CASE ConfigDisable(c)
  BY <1>1, <1>6, ManagerSends DEF ConfigDisable, ConfigSend
<1>7. CASE ConfigRetention(c)
  BY <1>1, <1>7, ManagerSends DEF ConfigRetention, ConfigSend
<1>8. CASE RefreshCall(c) \/ StatusCall(c) \/ RefreshOne(c) \/ ListReturns(c) \/ StatusSnapshot(c) \/ Answered(c)
  BY <1>8 DEF RefreshCall, StatusCall, RefreshOne, ListReturns, StatusSnapshot, Answered
<1> QED BY <1>2, <1>3, <1>4, <1>5, <1>6, <1>7, <1>8 DEF Inspect

LEMMA WindowSends ==
  ASSUME HostInv, NEW w \in Windows, UserDestroys(w) \/ DestroyedEvent(w) \/ PageEvent(w)
  PROVE  Quiet \/ AsyncSend
<1>1. CASE DestroyedEvent(w)
  <2>1. PICK reason \in CloseReasons : w \in DOMAIN registry => RemoveAndClose(w, reason)
    BY <1>1 DEF DestroyedEvent, CloseReasons
  <2>2. w \notin DOMAIN registry => Quiet
    BY <1>1 DEF DestroyedEvent
  <2> QED BY <2>1, <2>2, RemovalSends DEF HostInv
<1>2. CASE UserDestroys(w) \/ PageEvent(w)
  BY <1>2 DEF UserDestroys, PageEvent
<1> QED BY <1>1, <1>2

\* Every step of the manager is a step of the worker, of one of its clients, or
\* leaves them alone.
LEMMA HostStepIsWorkerStep == HostInv /\ [HostNext]_vars => [Next]_dbVars
<1> SUFFICES ASSUME HostInv, [HostNext]_vars
             PROVE  [Next]_dbVars
  OBVIOUS
<1>1. CASE DbStep
  BY <1>1 DEF DbStep, Next
<1>2. CASE HostCrash
  BY <1>2 DEF HostCrash, Next
<1>3. ASSUME NEW c \in Clients, Open(c) \/ Close(c) \/ Inspect(c)
      PROVE  [Next]_dbVars
  <2>1. Quiet \/ AsyncSend \/ ClientSend(c)
    BY <1>3, OpenSends, CloseSends, InspectSends
  <2> QED BY <2>1 DEF Quiet, Next
<1>4. ASSUME NEW w \in Windows, UserDestroys(w) \/ DestroyedEvent(w) \/ PageEvent(w)
      PROVE  [Next]_dbVars
  <2>1. Quiet \/ AsyncSend
    BY <1>4, WindowSends
  <2> QED BY <2>1 DEF Quiet, Next
<1>5. CASE PageSync
  <2>1. PICK snap \in observed : Enqueue(SyncCommand(snap, Nobody))
    BY <1>5 DEF PageSync
  <2>2. snap \in Records
    BY <2>1 DEF HostInv, HostTypes
  <2> QED BY <2>1, <2>2, ManagerSends DEF HostInv, Next
<1>6. CASE UNCHANGED vars
  BY <1>6 DEF vars
<1> QED BY <1>1, <1>2, <1>3, <1>4, <1>5, <1>6 DEF HostNext

-----------------------------------------------------------------------------
(* The steps of the threads, one by one *)

LEMMA Running ==
  ASSUME HostInv
  PROVE  /\ \A c \in Clients : task[c] # Idle => phase = "running"
         /\ \A w \in DOMAIN registry : phase = "running"
         /\ observed # {} => phase = "running"
BY DEF HostInv, Quiescent

\* The thread moves on and changes nothing the other threads see.
Moves(c, t) ==
  /\ phase = "running"
  /\ UNCHANGED <<phase, config, rows, sessions, day, registry, native, reasons, observed>>
  /\ UNCHANGED <<outcome, asked, byUser, final>>
  /\ task' = [task EXCEPT ![c] = t] /\ task[c].at # "destroyed" /\ reply[c] # "waiting"
  /\ gates' \subseteq Windows
  /\ Writes(t) => Writes(task[c]) \/ MayWrite
  /\ Reads(t) => Reads(task[c]) /\ t.win = task[c].win

LEMMA MovesAreSteady ==
  ASSUME HostInv, NEW c \in Clients, NEW t, Moves(c, t)
  PROVE  Steady(c, t)
BY DEF HostInv, HostTypes, Causes, Moves, Steady

LEMMA SteadyQuietStep ==
  ASSUME HostInv, WorkerInv', NEW c \in Clients, NEW t \in TaskType, Steady(c, t), Quiet, Holds(t, reply[c])'
  PROVE  HostInv'
<1>1. PICK cmd : cmd = Idle
  OBVIOUS
<1>2. queue' = queue /\ reply' = reply
  BY DEF Quiet, dbVars
<1> QED BY <1>2, SteadyStep

LEMMA MoveStep ==
  ASSUME HostInv, WorkerInv', NEW c \in Clients, NEW t \in TaskType, Moves(c, t), Quiet, Holds(t, reply[c])'
  PROVE  HostInv'
BY MovesAreSteady, SteadyQuietStep

\* The fields of a task that opens or closes no window, as far as Holds is concerned.
LEMMA QuietHolds ==
  ASSUME NEW c \in Clients, NEW t, t.at \notin Reading \union {"closing"} \union Closing,
         reply'[c] = "waiting" => t.at \in {"awaiting", "configuring"}
  PROVE  Holds(t, reply[c])'
BY DEF Holds, Reading, Closing, Unsent, Settled, Waiting

\* A thread that is not waiting for the worker, and what it knows.
LEMMA Known ==
  ASSUME HostInv, NEW c \in Clients
  PROVE  /\ task \in [Clients -> TaskType] /\ task[c] \in TaskType /\ Holds(task[c], reply[c])
         /\ task[c].at \notin Waiting => reply[c] # "waiting"
         /\ task[c].at \in Reading => task[c].win \in Windows /\ native[task[c].win] # "unused"
                                      /\ outcome[task[c].win] = "none" /\ Reads(task[c])
         /\ task[c].at # "idle" => task[c] # Idle
         /\ task[c] = Idle => ~Reads(task[c]) /\ ~Writes(task[c]) /\ reply[c] # "waiting" /\ task[c].at = "idle"
<1>1. task \in [Clients -> TaskType] /\ task[c] \in TaskType /\ Holds(task[c], reply[c])
  BY DEF HostInv, HostTypes, Threads
<1>2. task[c].at \in Reading => task[c].win \in Windows
  BY <1>1, TaskFields
<1> QED BY <1>1, <1>2 DEF Holds, Reads, Writes, Reading, Closing, Waiting, Idle

LEMMA IdleIs == Idle.at = "idle" /\ ~Reads(Idle) /\ ~Writes(Idle) /\ Idle \in TaskType
  BY TasksAre DEF Idle, Reads, Writes, Reading, Closing

\* A call that ends.
LEMMA ReturnStep ==
  ASSUME HostInv, WorkerInv', NEW c \in Clients, Return(c), Quiet, reply[c] # "waiting",
         task[c] # Idle, task[c].at # "destroyed",
         UNCHANGED <<registry, native, gates, observed, reasons>> /\ UNCHANGED auxVars
  PROVE  HostInv'
<1>1. Moves(c, Idle)
  BY IdleIs, Running DEF Moves, Return, Goto, Quiet, dbVars, auxVars, HostInv, HostTypes
<1>2. Holds(Idle, reply[c])'
  BY QuietHolds, IdleIs DEF Quiet, dbVars, Reading, Closing
<1> QED BY <1>1, <1>2, IdleIs, MoveStep

LEMMA OpenShowStep == ASSUME HostInv, WorkerInv', NEW c \in Clients, OpenShow(c) PROVE HostInv'
<1>1. /\ task[c].at = "building" /\ task[c].win \in Windows
      /\ Holds(task[c], reply[c]) /\ native[task[c].win] # "unused"
      /\ reply[c] # "waiting" /\ phase = "running" /\ Reads(task[c])
  BY Known, Running DEF OpenShow, Reading, Waiting
<1>2. PICK t : t = [at |-> "placing", win |-> task[c].win]
  OBVIOUS
<1>3. t \in TaskType /\ t.at = "placing" /\ t.win = task[c].win /\ ~Writes(t)
  BY <1>1, <1>2, TasksAre DEF Writes, Closing
<1>4. task' = [task EXCEPT ![c] = t]
  BY <1>1, <1>2, Known, TaskMoves DEF OpenShow, Goto
<1>5. Steady(c, t)
  BY <1>1, <1>3, <1>4, Running DEF OpenShow, Steady, Quiet, dbVars, auxVars, HostInv, HostTypes, Causes
<1>6. Holds(t, reply[c])'
  <2>1. native'[t.win] # "unused" /\ UNCHANGED <<outcome, rows, reply>>
    BY <1>1, <1>3 DEF OpenShow, HostInv, HostTypes, Quiet, dbVars, auxVars
  <2>2. Blank(t.win)' /\ outcome[t.win] = "none"
    BY <1>1, <1>3, <2>1 DEF Holds, Unsent, Reading, Blank
  <2> QED BY <1>1, <1>3, <2>1, <2>2 DEF Holds, Reading, Unsent, Settled, Closing, Waiting
<1> QED BY <1>3, <1>5, <1>6, SteadyQuietStep DEF OpenShow

\* An open that returns: with an error, or with a window the worker knows.
LEMMA OpenEndStep ==
  ASSUME HostInv, WorkerInv', NEW c \in Clients, NEW result \in {"ok", "error"}, Return(c), Quiet,
         Reads(task[c]), task[c].at # "tracked",
         outcome' = [outcome EXCEPT ![task[c].win] = result],
         result = "ok" => task[c].win \in DOMAIN registry /\ (config.enabled => Tracked(task[c].win)),
         UNCHANGED <<registry, native, reasons, gates, observed, asked, byUser, final, shown>>
  PROVE  HostInv'
<1>1. /\ task[c].at \in Reading /\ task[c].win \in Windows /\ task[c] # Idle
      /\ reply[c] # "waiting" /\ phase = "running" /\ task[c].at # "destroyed"
  BY Known, Running, IdleIs DEF Reads, Reading, Waiting
<1>2. Steady(c, Idle)
  BY <1>1, IdleIs DEF Steady, Return, Goto, Quiet, dbVars, HostInv, HostTypes, Causes
<1>3. Holds(Idle, reply[c])'
  BY <1>1, QuietHolds, IdleIs DEF Quiet, dbVars, Reading, Closing
<1> QED BY <1>2, <1>3, IdleIs, SteadyQuietStep

LEMMA OpenAbandonedStep == ASSUME HostInv, WorkerInv', NEW c \in Clients, OpenAbandoned(c) PROVE HostInv'
<1>1. Reads(task[c]) /\ task[c].at # "tracked"
  BY DEF OpenAbandoned, Reads, Reading
<1> QED BY <1>1, OpenEndStep DEF OpenAbandoned

LEMMA OpenReturnsStep == ASSUME HostInv, WorkerInv', NEW c \in Clients, OpenReturns(c) PROVE HostInv'
<1>1. Reads(task[c]) /\ task[c].at # "tracked" /\ task[c].at \in Settled
  BY DEF OpenReturns, Reads, Reading, Settled
<1>2. task[c].win \in DOMAIN registry /\ config.enabled => Tracked(task[c].win)
  BY <1>1, Known DEF Holds
<1>3. CASE task[c].win \in DOMAIN registry
  BY <1>1, <1>2, <1>3, OpenEndStep DEF OpenReturns
<1>4. CASE task[c].win \notin DOMAIN registry
  BY <1>1, <1>4, OpenEndStep DEF OpenReturns
<1> QED BY <1>3, <1>4

LEMMA OpenStatusStep == ASSUME HostInv, WorkerInv', NEW c \in Clients, OpenStatus(c) PROVE HostInv'
<1>1. /\ task[c].at = "placing" /\ Reads(task[c]) /\ reply[c] # "waiting"
      /\ Holds(task[c], reply[c]) /\ phase = "running" /\ task[c].win \in Windows
  BY Known, Running DEF OpenStatus, Reading, Reads, Waiting
<1>2. CASE task[c].win \notin DOMAIN registry
  BY <1>1, <1>2, OpenEndStep DEF OpenStatus
<1>3. CASE task[c].win \in DOMAIN registry
  <2>1. PICK t : t = [at |-> "tracking", win |-> task[c].win, snap |-> registry[task[c].win]]
    OBVIOUS
  <2>2. t \in TaskType /\ t.at = "tracking" /\ t.win = task[c].win /\ ~Writes(t)
    BY <1>3, <2>1, TasksAre DEF HostInv, HostTypes, Writes, Closing
  <2>3. Moves(c, t) /\ Quiet
    BY <1>1, <1>3, <2>1, <2>2 DEF OpenStatus, Moves, Goto, Quiet, dbVars, HostInv, HostTypes
  <2>4. Holds(t, reply[c])'
    <3>1. UNCHANGED <<native, outcome, rows, reply>>
      BY <1>3 DEF OpenStatus, Quiet, dbVars
    <3> QED BY <1>1, <2>2, <3>1 DEF Holds, Reading, Unsent, Settled, Closing, Waiting, Blank
  <2> QED BY <2>2, <2>3, <2>4, MoveStep
<1> QED BY <1>2, <1>3

LEMMA SendStays ==
  ASSUME NEW c \in Clients, NEW cmd, Enqueue(cmd), cmd.by \in {c, Nobody}
  PROVE  /\ Sends(cmd) /\ phase = "running" /\ UNCHANGED <<phase, config, rows, sessions, day>>
         /\ cmd.by = c => reply'[c] = "waiting"
         /\ cmd.by = Nobody => reply'[c] = reply[c]
BY DbAssumption DEF Enqueue, Send, Sends

\* A step that sends a command and moves on.
LEMMA SendMoveStep ==
  ASSUME HostInv, WorkerInv', NEW c \in Clients, NEW t \in TaskType, NEW cmd, Moves(c, t), Enqueue(cmd),
         cmd.by \in {c, Nobody}, Meant(cmd)', Holds(t, reply[c])'
  PROVE  HostInv'
BY SendStays, MovesAreSteady, SteadyStep

LEMMA OpenTrackStep == ASSUME HostInv, WorkerInv', NEW c \in Clients, OpenTrack(c) PROVE HostInv'
<1>1. /\ task[c].at = "tracking" /\ Reads(task[c]) /\ reply[c] # "waiting"
      /\ Holds(task[c], reply[c]) /\ phase = "running" /\ task[c].win \in Windows
      /\ task[c].snap.win = task[c].win
  BY Known, Running, TaskFields DEF OpenTrack, Reading, Reads, Waiting
<1>2. PICK t : t = [at |-> "tracked", win |-> task[c].win]
  OBVIOUS
<1>3. t \in TaskType /\ t.at = "tracked" /\ t.win = task[c].win /\ ~Writes(t)
  BY <1>1, <1>2, TasksAre DEF Writes, Closing
<1>4. PICK cmd : cmd = [op |-> "open", snap |-> task[c].snap, by |-> c]
  OBVIOUS
<1>5. cmd.op = "open" /\ cmd.by = c /\ cmd.snap.win = t.win
  BY <1>1, <1>3, <1>4
<1>6. Enqueue(cmd)
  BY <1>4 DEF OpenTrack
<1>7. /\ reply'[c] = "waiting" /\ UNCHANGED <<phase, config, rows, sessions, day, native, outcome>>
      /\ task' = [task EXCEPT ![c] = t]
  BY <1>2, <1>5, <1>6, SendStays DEF OpenTrack, auxVars, Goto
<1>8. task'[c] = t
  BY <1>7, Known
<1>9. Moves(c, t)
  BY <1>1, <1>3, <1>7 DEF OpenTrack, Moves, auxVars, HostInv, HostTypes
<1>10. Blank(t.win)'
  BY <1>1, <1>3, <1>7 DEF Holds, Unsent, Blank
<1>11. Meant(cmd)'
  BY <1>3, <1>5, <1>7, <1>8, <1>10 DEF Meant, Blank
<1>12. Holds(t, reply[c])'
  BY <1>1, <1>3, <1>7 DEF Holds, Reading, Unsent, Settled, Closing, Waiting
<1> QED BY <1>3, <1>5, <1>6, <1>9, <1>11, <1>12, SendMoveStep

LEMMA OpenActivateStep == ASSUME HostInv, WorkerInv', NEW c \in Clients, OpenActivate(c) PROVE HostInv'
<1>1. /\ task[c].at = "tracked" /\ Reads(task[c]) /\ reply[c] = "ok"
      /\ Holds(task[c], reply[c]) /\ phase = "running" /\ task[c].win \in Windows
  BY Known, Running DEF OpenActivate, Reading, Reads
<1>2. PICK step \in {"replaying", "opened"} : Goto(c, [at |-> step, win |-> task[c].win])
  BY DEF OpenActivate
<1>3. PICK t : t = [at |-> step, win |-> task[c].win]
  OBVIOUS
<1>4. t \in TaskType /\ t.at \in Settled /\ t.win = task[c].win /\ ~Writes(t)
  BY <1>1, <1>3, TasksAre DEF Writes, Closing, Settled
<1>5. Moves(c, t) /\ Quiet
  BY <1>1, <1>2, <1>3, <1>4 DEF OpenActivate, Moves, Goto, Quiet, dbVars, auxVars, HostInv, HostTypes
<1>6. Holds(t, reply[c])'
  <2>1. UNCHANGED <<native, outcome, rows, reply, registry, config, sessions>>
    BY DEF OpenActivate, Quiet, dbVars, auxVars
  <2> QED BY <1>1, <1>4, <2>1 DEF Holds, Reading, Unsent, Settled, Closing, Waiting, Tracked
<1> QED BY <1>4, <1>5, <1>6, MoveStep

LEMMA OpenReplayStep == ASSUME HostInv, WorkerInv', NEW c \in Clients, OpenReplay(c) PROVE HostInv'
<1>1. /\ task[c].at = "replaying" /\ Reads(task[c]) /\ reply[c] # "waiting"
      /\ Holds(task[c], reply[c]) /\ phase = "running" /\ task[c].win \in Windows
  BY Known, Running DEF OpenReplay, Reading, Reads, Waiting
<1>2. CASE task[c].win \notin DOMAIN registry
  <2>1. PICK t : t = [at |-> "opened", win |-> task[c].win]
    OBVIOUS
  <2>2. t \in TaskType /\ t.at = "opened" /\ t.win = task[c].win /\ ~Writes(t)
    BY <1>1, <2>1, TasksAre DEF Writes, Closing
  <2>3. Moves(c, t) /\ Quiet
    BY <1>1, <1>2, <2>1, <2>2 DEF OpenReplay, Moves, Goto, Quiet, dbVars, HostInv, HostTypes
  <2>4. Holds(t, reply[c])'
    <3>1. UNCHANGED <<native, outcome, rows, reply, registry, config, sessions>>
      BY <1>2 DEF OpenReplay, Quiet, dbVars
    <3> QED BY <1>1, <2>2, <3>1 DEF Holds, Reading, Unsent, Settled, Closing, Waiting, Tracked
  <2> QED BY <2>2, <2>3, <2>4, MoveStep
<1>3. CASE task[c].win \in DOMAIN registry
  <2>1. PICK snap \in Observations(registry[task[c].win]) :
          Record(task[c].win, snap) /\ Goto(c, [at |-> "replayed", win |-> task[c].win, snap |-> snap])
    BY <1>3 DEF OpenReplay
  <2>2. snap \in Records /\ snap.win = task[c].win
    BY <1>3, RecordsAre DEF HostInv, HostTypes
  <2>3. PICK t : t = [at |-> "replayed", win |-> task[c].win, snap |-> snap]
    OBVIOUS
  <2>4. t \in TaskType /\ t.at = "replayed" /\ t.win = task[c].win /\ ~Writes(t)
    BY <2>2, <2>3, TasksAre DEF Writes, Closing
  <2>5. /\ DOMAIN registry' = DOMAIN registry
        /\ \A w \in DOMAIN registry : registry'[w] \in Records /\ registry'[w].win = w
    BY <1>3, <2>1, <2>2 DEF Record, Put, HostInv, HostTypes
  <2>6. Steady(c, t) /\ Quiet
    BY <1>1, <2>1, <2>3, <2>4, <2>5 DEF OpenReplay, Steady, Goto, Quiet, dbVars, HostInv, HostTypes, Causes
  <2>7. Holds(t, reply[c])'
    <3>1. UNCHANGED <<native, outcome, rows, reply, config, sessions>>
      BY DEF OpenReplay, Quiet, dbVars
    <3> QED BY <1>1, <2>4, <2>5, <3>1 DEF Holds, Reading, Unsent, Settled, Closing, Waiting, Tracked
  <2> QED BY <2>4, <2>6, <2>7, SteadyQuietStep
<1> QED BY <1>2, <1>3

LEMMA OpenReplayedStep == ASSUME HostInv, WorkerInv', NEW c \in Clients, OpenReplayed(c) PROVE HostInv'
<1>1. /\ task[c].at = "replayed" /\ Reads(task[c]) /\ reply[c] # "waiting"
      /\ Holds(task[c], reply[c]) /\ phase = "running" /\ task[c].win \in Windows
  BY Known, Running DEF OpenReplayed, Reading, Reads, Waiting
<1>2. PICK t : t = [at |-> "opened", win |-> task[c].win]
  OBVIOUS
<1>3. t \in TaskType /\ t.at = "opened" /\ t.win = task[c].win /\ ~Writes(t)
  BY <1>1, <1>2, TasksAre DEF Writes, Closing
<1>4. PICK cmd : cmd = SyncCommand(task[c].snap, Nobody)
  OBVIOUS
<1>5. cmd.op = "sync" /\ cmd.by = Nobody /\ Enqueue(cmd)
  BY <1>4 DEF OpenReplayed, SyncCommand
<1>6. /\ reply'[c] = reply[c]
      /\ UNCHANGED <<phase, config, rows, sessions, day, native, outcome, registry>>
      /\ task' = [task EXCEPT ![c] = t]
  BY <1>2, <1>5, SendStays DEF OpenReplayed, auxVars, Goto
<1>7. Moves(c, t)
  BY <1>1, <1>3, <1>6 DEF OpenReplayed, Moves, auxVars, HostInv, HostTypes
<1>8. Meant(cmd)'
  BY <1>5, DbAssumption DEF Meant
<1>9. Holds(t, reply[c])'
  BY <1>1, <1>3, <1>6 DEF Holds, Reading, Unsent, Settled, Closing, Waiting, Tracked
<1> QED BY <1>3, <1>5, <1>7, <1>8, <1>9, SendMoveStep

LEMMA CloseCallStep == ASSUME HostInv, WorkerInv', NEW c \in Clients, CloseCall(c) PROVE HostInv'
<1>1. PICK targets \in SUBSET DOMAIN registry :
        asked' = asked \union targets /\ Goto(c, [at |-> "closing", todo |-> targets])
  BY DEF CloseCall
<1>2. PICK t : t = [at |-> "closing", todo |-> targets]
  OBVIOUS
<1>3. targets \subseteq Windows /\ t \in TaskType /\ t.at = "closing" /\ t.todo = targets /\ ~Reads(t)
  BY <1>2, TasksAre DEF HostInv, HostTypes, Reads, Reading
<1>4. Steady(c, t) /\ Quiet
  BY <1>1, <1>2, <1>3, Known DEF CloseCall, Steady, Goto, Quiet, dbVars, HostInv, HostTypes, Causes
<1>5. reply'[c] # "waiting"
  BY <1>4, Known DEF CloseCall, Quiet, dbVars
<1>6. Holds(t, reply[c])'
  BY <1>1, <1>3, <1>5 DEF Holds, Reading, Unsent, Settled, Closing, Waiting
<1> QED BY <1>3, <1>4, <1>6, SteadyQuietStep

LEMMA CloseTargetStep == ASSUME HostInv, WorkerInv', NEW c \in Clients, CloseTarget(c) PROVE HostInv'
<1>1. /\ task[c].at = "closing" /\ task[c] # Idle /\ reply[c] # "waiting" /\ phase = "running"
      /\ Holds(task[c], reply[c]) /\ task[c].todo \subseteq asked /\ task[c].todo \in SUBSET Windows
      /\ Writes(task[c])
  BY Known, TaskFields, Running DEF CloseTarget, Waiting, Holds, Writes
<1>2. CASE Return(c)
  BY <1>1, <1>2, ReturnStep DEF CloseTarget
<1>3. CASE ~Return(c)
  <2>1. PICK w \in task[c].todo :
          HasHandle(w) /\ Goto(c, [at |-> "targeted", win |-> w, todo |-> task[c].todo \ {w}])
    BY <1>3 DEF CloseTarget
  <2>2. PICK t : t = [at |-> "targeted", win |-> w, todo |-> task[c].todo \ {w}]
    OBVIOUS
  <2>3. t \in TaskType /\ t.at = "targeted" /\ t.todo = task[c].todo \ {w} /\ t.win = w /\ ~Reads(t)
    BY <1>1, <2>1, <2>2, TasksAre DEF Reads, Reading, Closing
  <2>4. Moves(c, t) /\ Quiet
    BY <1>1, <2>1, <2>2, <2>3 DEF CloseTarget, Moves, Goto, Quiet, dbVars, auxVars, HostInv, HostTypes
  <2>5. Holds(t, reply[c])'
    <3>1. UNCHANGED <<native, asked, reply>>
      BY DEF CloseTarget, Quiet, dbVars, auxVars
    <3> QED BY <1>1, <2>1, <2>3, <3>1 DEF Holds, Reading, Unsent, Settled, Closing, Waiting, HasHandle
  <2> QED BY <2>3, <2>4, <2>5, MoveStep
<1> QED BY <1>2, <1>3

LEMMA CloseMarkStep == ASSUME HostInv, WorkerInv', NEW c \in Clients, CloseMark(c) PROVE HostInv'
<1>1. /\ task[c].at = "targeted" /\ task[c].at \in Closing /\ reply[c] # "waiting" /\ phase = "running"
      /\ task[c] # Idle /\ task[c] \in TaskType
      /\ Holds(task[c], reply[c]) /\ Writes(task[c])
  BY Known, Running DEF CloseMark, Waiting, Closing, Writes
<1>2. task[c].win \in Windows /\ task[c].todo \in SUBSET Windows
  BY <1>1, TaskFields DEF Closing
<1>3. PICK t : t = [at |-> "marked", win |-> task[c].win, todo |-> task[c].todo]
  OBVIOUS
<1>4. /\ t \in TaskType /\ t.at = "marked" /\ t.todo = task[c].todo /\ t.win = task[c].win /\ ~Reads(t)
      /\ t = [task[c] EXCEPT !.at = "marked"]
  <2>1. [task[c] EXCEPT !.at = "marked"] = [at |-> "marked", win |-> task[c].win, todo |-> task[c].todo]
    BY <1>1, TaskMoves
  <2> QED BY <1>2, <1>3, <2>1, TasksAre DEF Reads, Reading, Closing
<1>5. task[c].win \in asked
  BY <1>1 DEF Holds
<1>6. Steady(c, t) /\ Quiet
  BY <1>1, <1>4, <1>5 DEF CloseMark, Steady, Goto, Quiet, dbVars, auxVars, HostInv, HostTypes, Causes
<1>7. Holds(t, reply[c])'
  <2>1. UNCHANGED <<native, asked, reply>> /\ t.win \in reasons'
    BY <1>4 DEF CloseMark, Quiet, dbVars, auxVars
  <2> QED BY <1>1, <1>4, <1>5, <2>1 DEF Holds, Reading, Unsent, Settled, Closing, Waiting
<1> QED BY <1>4, <1>6, <1>7, SteadyQuietStep

\* Steps of the calls that open and close nothing.
LEMMA InspectMoveStep ==
  ASSUME HostInv, WorkerInv', NEW c \in Clients, NEW t \in TaskType, Moves(c, t), Quiet,
         t.at \notin Reading \union {"closing"} \union Closing
  PROVE  HostInv'
<1>1. reply'[c] # "waiting"
  BY DEF Moves, Quiet, dbVars
<1> QED BY <1>1, QuietHolds, MoveStep

LEMMA RefreshCallStep == ASSUME HostInv, WorkerInv', NEW c \in Clients, RefreshCall(c) PROVE HostInv'
<1>1. PICK next \in {"list", "enable"} :
        /\ Goto(c, [at |-> "refreshing", todo |-> DOMAIN registry, next |-> next])
        /\ next = "enable" => MayWrite
  BY DEF RefreshCall
<1>2. PICK t : t = [at |-> "refreshing", todo |-> DOMAIN registry, next |-> next]
  OBVIOUS
<1>3. /\ t \in TaskType /\ t.at = "refreshing" /\ t.next = next
      /\ t.at \notin Reading \union {"closing"} \union Closing /\ ~Reads(t)
  BY <1>2, TasksAre DEF HostInv, HostTypes, Reads, Reading, Closing
<1>4. Moves(c, t) /\ Quiet
  BY <1>1, <1>2, <1>3, Known DEF RefreshCall, Moves, Goto, Quiet, dbVars, auxVars, HostInv, HostTypes,
     Writes, Closing
<1> QED BY <1>3, <1>4, InspectMoveStep

LEMMA StatusCallStep == ASSUME HostInv, WorkerInv', NEW c \in Clients, StatusCall(c) PROVE HostInv'
<1>1. PICK w \in DOMAIN registry :
        /\ \E snap \in Navigations(registry[w]) : Record(w, snap)
        /\ Goto(c, [at |-> "refreshing", todo |-> {w}, next |-> "status", win |-> w])
  BY DEF StatusCall
<1>2. PICK snap \in Navigations(registry[w]) : Record(w, snap)
  BY <1>1
<1>3. snap \in Records /\ snap.win = w /\ w \in Windows
  BY RecordsAre DEF HostInv, HostTypes
<1>4. PICK t : t = [at |-> "refreshing", todo |-> {w}, next |-> "status", win |-> w]
  OBVIOUS
<1>5. /\ t \in TaskType /\ t.at = "refreshing" /\ t.next = "status"
      /\ t.at \notin Reading \union {"closing"} \union Closing /\ ~Reads(t) /\ ~Writes(t)
  BY <1>3, <1>4, TasksAre DEF Reads, Reading, Closing, Writes, Uses
<1>6. /\ DOMAIN registry' = DOMAIN registry
      /\ \A v \in DOMAIN registry : registry'[v] \in Records /\ registry'[v].win = v
  BY <1>2, <1>3 DEF Record, Put, HostInv, HostTypes
<1>7. Steady(c, t) /\ Quiet
  BY <1>1, <1>4, <1>5, <1>6, Known DEF StatusCall, Steady, Goto, Quiet, dbVars, HostInv, HostTypes, Causes
<1>8. Holds(t, reply[c])'
  BY <1>5, <1>7, Known, QuietHolds DEF StatusCall, Quiet, dbVars
<1> QED BY <1>5, <1>7, <1>8, SteadyQuietStep

LEMMA RefreshOneStep == ASSUME HostInv, WorkerInv', NEW c \in Clients, RefreshOne(c) PROVE HostInv'
<1>1. /\ task[c].at = "refreshing" /\ task[c] # Idle /\ reply[c] # "waiting" /\ phase = "running"
      /\ task[c].todo \in SUBSET Windows /\ task[c].next \in Uses
      /\ task[c].next = "enable" => Writes(task[c])
  BY Known, TaskFields, Running DEF RefreshOne, Waiting, Writes
<1>2. CASE Return(c)
  BY <1>1, <1>2, ReturnStep DEF RefreshOne
<1>3. CASE ~Return(c)
  <2>1. PICK w \in task[c].todo :
          /\ w \in DOMAIN registry
          /\ Goto(c, [at |-> "refreshed", todo |-> task[c].todo \ {w},
                      next |-> task[c].next, win |-> w, snap |-> registry[w]])
    BY <1>3 DEF RefreshOne
  <2>2. PICK t : t = [at |-> "refreshed", todo |-> task[c].todo \ {w},
                      next |-> task[c].next, win |-> w, snap |-> registry[w]]
    OBVIOUS
  <2>3. registry[w] \in Records /\ w \in Windows /\ task[c].todo \ {w} \in SUBSET Windows
    BY <1>1, <2>1 DEF HostInv, HostTypes
  <2>4. /\ t \in TaskType /\ t.at = "refreshed" /\ t.next = task[c].next
        /\ t.at \notin Reading \union {"closing"} \union Closing /\ ~Reads(t)
    BY <1>1, <2>2, <2>3, TasksAre DEF Reads, Reading, Closing
  <2>5. Moves(c, t) /\ Quiet
    BY <1>1, <2>1, <2>2, <2>4 DEF RefreshOne, Moves, Goto, Quiet, dbVars, auxVars, HostInv, HostTypes,
       Writes, Closing
  <2> QED BY <2>4, <2>5, InspectMoveStep
<1> QED BY <1>2, <1>3

LEMMA ListReturnsStep == ASSUME HostInv, WorkerInv', NEW c \in Clients, ListReturns(c) PROVE HostInv'
<1>1. task[c].at = "refreshing" /\ task[c] # Idle /\ reply[c] # "waiting"
  BY Known DEF ListReturns, Waiting
<1> QED BY <1>1, ReturnStep DEF ListReturns

LEMMA StatusSnapshotStep == ASSUME HostInv, WorkerInv', NEW c \in Clients, StatusSnapshot(c) PROVE HostInv'
<1>1. task[c].at = "refreshing" /\ task[c] # Idle /\ reply[c] # "waiting" /\ phase = "running"
  BY Known, Running DEF StatusSnapshot, Waiting
<1>2. CASE task[c].win \notin DOMAIN registry
  BY <1>1, <1>2, ReturnStep DEF StatusSnapshot
<1>3. CASE task[c].win \in DOMAIN registry
  <2>1. PICK t : t = [at |-> "syncing", snap |-> registry[task[c].win]]
    OBVIOUS
  <2>2. /\ t \in TaskType /\ t.at = "syncing" /\ ~Reads(t) /\ ~Writes(t)
        /\ t.at \notin Reading \union {"closing"} \union Closing
    BY <1>3, <2>1, TasksAre DEF Reads, Reading, Closing, Writes, HostInv, HostTypes
  <2>3. Moves(c, t) /\ Quiet
    BY <1>1, <1>3, <2>1, <2>2 DEF StatusSnapshot, Moves, Goto, Quiet, dbVars, auxVars, HostInv, HostTypes
  <2> QED BY <2>2, <2>3, InspectMoveStep
<1> QED BY <1>2, <1>3

LEMMA AnsweredStep == ASSUME HostInv, WorkerInv', NEW c \in Clients, Answered(c) PROVE HostInv'
<1>1. task[c] # Idle /\ reply[c] # "waiting" /\ task[c].at # "destroyed"
  BY Known DEF Answered
<1> QED BY <1>1, ReturnStep DEF Answered

\* Steps of those calls that send a command.
LEMMA InspectSendStep ==
  ASSUME HostInv, WorkerInv', NEW c \in Clients, NEW t \in TaskType, NEW cmd, Moves(c, t), Enqueue(cmd),
         cmd.by \in {c, Nobody}, cmd.by = c => t.at \in {"awaiting", "configuring"},
         t.at \notin Reading \union {"closing"} \union Closing,
         \/ cmd.op \in {"sync", "clear", "retention"}
         \/ /\ cmd.op = "history" /\ cmd.by = c /\ cmd.active = ActiveWindows
            /\ t.at = "configuring" /\ t.next \in {"enable", "disable"}
  PROVE  HostInv'
<1>1. task'[c] = t /\ registry' = registry
  BY Known DEF Moves
<1>2. /\ cmd.by = c => reply'[c] = "waiting"
      /\ cmd.by = Nobody => reply'[c] # "waiting"
  BY SendStays DEF Moves
<1>3. ActiveWindows' = ActiveWindows
  BY <1>1 DEF ActiveWindows
<1>4. Meant(cmd)'
  <2>1. cmd.by \in Clients => cmd.by = c
    BY DbAssumption
  <2> QED BY <1>1, <1>2, <1>3, <2>1 DEF Meant
<1>5. Holds(t, reply[c])'
  BY <1>2, QuietHolds
<1> QED BY <1>4, <1>5, SendMoveStep

LEMMA RefreshSyncStep == ASSUME HostInv, WorkerInv', NEW c \in Clients, RefreshSync(c) PROVE HostInv'
<1>1. /\ task[c].at = "refreshed" /\ reply[c] # "waiting"
      /\ task[c].todo \in SUBSET Windows /\ task[c].next \in Uses /\ task[c].win \in Windows
      /\ task[c].next = "enable" => Writes(task[c])
  BY Known, TaskFields DEF RefreshSync, Waiting, Writes
<1>2. PICK t : t = [at |-> "refreshing", todo |-> task[c].todo, next |-> task[c].next, win |-> task[c].win]
  OBVIOUS
<1>3. /\ t \in TaskType /\ t.at = "refreshing" /\ t.next = task[c].next
      /\ t.at \notin Reading \union {"closing"} \union Closing /\ ~Reads(t)
  BY <1>1, <1>2, TasksAre DEF Reads, Reading, Closing
<1>4. PICK cmd : cmd = SyncCommand(task[c].snap, Nobody)
  OBVIOUS
<1>5. cmd.op = "sync" /\ cmd.by = Nobody /\ Enqueue(cmd) /\ cmd.by # c
  BY <1>4, DbAssumption DEF RefreshSync, SyncCommand
<1>6. Moves(c, t)
  BY <1>1, <1>2, <1>3, <1>5, SendStays DEF RefreshSync, Moves, Goto, auxVars, HostInv, HostTypes,
     Writes, Closing
<1> QED BY <1>3, <1>5, <1>6, InspectSendStep

LEMMA StatusSyncStep == ASSUME HostInv, WorkerInv', NEW c \in Clients, StatusSync(c) PROVE HostInv'
<1>1. task[c].at = "syncing" /\ reply[c] # "waiting"
  BY Known DEF StatusSync, Waiting
<1>2. PICK t : t = [at |-> "awaiting"]
  OBVIOUS
<1>3. /\ t \in TaskType /\ t.at = "awaiting" /\ ~Reads(t) /\ ~Writes(t)
      /\ t.at \notin Reading \union {"closing"} \union Closing
  BY <1>2, TasksAre DEF Reads, Reading, Closing, Writes
<1>4. PICK cmd : cmd = SyncCommand(task[c].snap, c)
  OBVIOUS
<1>5. cmd.op = "sync" /\ cmd.by = c /\ Enqueue(cmd)
  BY <1>4 DEF StatusSync, SyncCommand
<1>6. Moves(c, t)
  BY <1>1, <1>2, <1>3, <1>5, SendStays DEF StatusSync, Moves, Goto, auxVars, HostInv, HostTypes
<1> QED BY <1>3, <1>5, <1>6, InspectSendStep

LEMMA ClearCallStep == ASSUME HostInv, WorkerInv', NEW c \in Clients, ClearCall(c) PROVE HostInv'
<1>1. task[c].at = "idle" /\ reply[c] # "waiting"
  BY Known DEF ClearCall
<1>2. PICK t : t = [at |-> "awaiting"]
  OBVIOUS
<1>3. /\ t \in TaskType /\ t.at = "awaiting" /\ ~Reads(t) /\ ~Writes(t)
      /\ t.at \notin Reading \union {"closing"} \union Closing
  BY <1>2, TasksAre DEF Reads, Reading, Closing, Writes
<1>4. PICK cmd : cmd = [op |-> "clear", by |-> c]
  OBVIOUS
<1>5. cmd.op = "clear" /\ cmd.by = c /\ Enqueue(cmd)
  BY <1>4 DEF ClearCall
<1>6. Moves(c, t)
  BY <1>1, <1>2, <1>3, <1>5, SendStays DEF ClearCall, Moves, Goto, auxVars, HostInv, HostTypes
<1> QED BY <1>3, <1>5, <1>6, InspectSendStep

\* The three changes of the configuration, which keep the registry locked.
LEMMA ConfigStep ==
  ASSUME HostInv, WorkerInv', NEW c \in Clients, NEW cmd, NEW next \in {"enable", "disable", "retention"},
         ConfigSend(c, cmd, next), cmd.by = c, reply[c] # "waiting", task[c].at # "destroyed",
         next # "retention" => /\ cmd.op = "history" /\ cmd.active = ActiveWindows
                               /\ Writes(task[c]) \/ MayWrite,
         next = "retention" => cmd.op = "retention"
  PROVE  HostInv'
<1>1. PICK t : t = [at |-> "configuring", next |-> next]
  OBVIOUS
<1>2. /\ t \in TaskType /\ t.at = "configuring" /\ t.next = next
      /\ t.at \notin Reading \union {"closing"} \union Closing /\ ~Reads(t)
  BY <1>1, TasksAre DEF Reads, Reading, Closing
<1>3. Moves(c, t) /\ Enqueue(cmd)
  BY <1>1, <1>2, SendStays DEF ConfigSend, Moves, Goto, HostInv, HostTypes, Writes, Closing
<1> QED BY <1>2, <1>3, InspectSendStep

LEMMA ConfigSteps ==
  ASSUME HostInv, WorkerInv', NEW c \in Clients, ConfigEnable(c) \/ ConfigDisable(c) \/ ConfigRetention(c)
  PROVE  HostInv'
<1>1. CASE ConfigEnable(c)
  <2>1. reply[c] # "waiting" /\ Writes(task[c]) /\ task[c].at # "destroyed"
    BY <1>1, Known DEF ConfigEnable, Waiting, Writes
  <2>2. PICK cmd : cmd = HistoryCommand(c, TRUE)
    OBVIOUS
  <2>3. ConfigSend(c, cmd, "enable") /\ cmd.by = c /\ cmd.op = "history" /\ cmd.active = ActiveWindows
    BY <1>1, <2>2 DEF ConfigEnable, HistoryCommand
  <2> QED BY <2>1, <2>3, ConfigStep
<1>2. CASE ConfigDisable(c)
  <2>1. reply[c] # "waiting" /\ MayWrite /\ task[c].at # "destroyed"
    BY <1>2, Known DEF ConfigDisable
  <2>2. PICK cmd : cmd = HistoryCommand(c, FALSE)
    OBVIOUS
  <2>3. ConfigSend(c, cmd, "disable") /\ cmd.by = c /\ cmd.op = "history" /\ cmd.active = ActiveWindows
    BY <1>2, <2>2 DEF ConfigDisable, HistoryCommand
  <2> QED BY <2>1, <2>3, ConfigStep
<1>3. CASE ConfigRetention(c)
  <2>1. reply[c] # "waiting" /\ task[c].at # "destroyed"
    BY <1>3, Known DEF ConfigRetention
  <2>2. PICK days \in Retentions : ConfigSend(c, [op |-> "retention", days |-> days, by |-> c], "retention")
    BY <1>3 DEF ConfigRetention
  <2>3. PICK cmd : cmd = [op |-> "retention", days |-> days, by |-> c]
    OBVIOUS
  <2>4. ConfigSend(c, cmd, "retention") /\ cmd.by = c /\ cmd.op = "retention"
    BY <2>2, <2>3
  <2> QED BY <2>1, <2>4, ConfigStep
<1> QED BY <1>1, <1>2, <1>3

\* The steps that make or remove a window.

LEMMA OpenCallStep == ASSUME HostInv, WorkerInv', NEW c \in Clients, OpenCall(c) PROVE HostInv'
<1> USE DEF HostInv
<1>1. PICK w \in Windows :
        /\ native[w] = "unused" /\ native' = [native EXCEPT ![w] = "hidden"]
        /\ Record(w, NewRecord(w)) /\ Goto(c, [at |-> "building", win |-> w])
  BY DEF OpenCall
<1>2. /\ phase = "running" /\ MayRead /\ RegistryFree /\ task[c] = Idle
      /\ UNCHANGED <<reasons, gates, observed, outcome, asked, byUser, final>>
      /\ UNCHANGED <<phase, config, rows, sessions, queue, reply, day>>
  BY DEF OpenCall, Quiet, dbVars
<1>3. PICK t : t = [at |-> "building", win |-> w]
  OBVIOUS
<1>4. t \in TaskType /\ t.at = "building" /\ t.win = w /\ ~Writes(t)
  BY <1>3, TasksAre DEF Writes, Closing
<1>5. /\ task \in [Clients -> TaskType] /\ task' \in [Clients -> TaskType] /\ task'[c] = t
      /\ \A d \in Clients \ {c} : task'[d] = task[d]
  BY <1>1, <1>3, <1>4, Known DEF Goto
<1>6. /\ DOMAIN registry' = DOMAIN registry \union {w}
      /\ \A v \in DOMAIN registry' : registry'[v] \in Records /\ registry'[v].win = v
  BY <1>1, RecordsAre DEF Record, Put, HostTypes
<1>7. w \notin DOMAIN registry /\ w \notin DOMAIN final /\ rows[w] = <<>> /\ outcome[w] = "none"
  BY <1>1 DEF Onces
<1>8. HostTypes'
  BY <1>1, <1>2, <1>5, <1>6 DEF HostTypes
<1>9. Outward
  BY <1>1, <1>2, <1>6 DEF Outward, HostTypes
<1>10. Onces' /\ Tables' /\ Tracks' /\ Ghosts'
  BY <1>9, OutwardKeeps
<1>11. Threads'
  <2>1. ASSUME NEW d \in Clients \ {c}
        PROVE  Holds(task[d], reply[d])'
    BY <1>2, <1>5, <1>9, OthersHold
  <2>2. Holds(task[c], reply[c])'
    <3>1. native'[w] # "unused" /\ Blank(w)' /\ reply'[c] # "waiting"
      BY <1>1, <1>2, <1>7, Known DEF Blank, HostTypes
    <3> QED BY <1>2, <1>4, <1>5, <1>7, <3>1 DEF Holds, Reading, Unsent, Settled, Closing, Waiting
  <2> QED BY <2>1, <2>2 DEF Threads
<1>12. Commands'
  <2>1. \A d \in Clients : reply[d] = "waiting" => task'[d] = task[d] /\ reply'[d] = "waiting"
    BY <1>2, <1>5, Known
  <2>2. queue \in Seq(Command)
    BY DEF WorkerInv, TypeOK
  <2>3. PICK cmd : cmd = t
    OBVIOUS
  <2> QED BY <1>2, <1>9, <2>1, <2>2, <2>3, CommandsStay
<1>13. Locks'
  BY <1>1, <1>2, <1>4, <1>5, LocksStay
<1>14. Causes'
  <2>1. \A d \in Clients : task[d].at = "destroyed" => task'[d] = task[d]
    BY <1>2, <1>5, Known
  <2>2. \A v \in DOMAIN registry' : native'[v] = "dying" => v \in DOMAIN registry /\ native[v] = "dying"
    BY <1>1, <1>6 DEF HostTypes
  <2> QED BY <1>2, <2>1, <2>2, CausesStay DEF Causes
<1>15. Quiescent'
  BY <1>2, RunningStays
<1> QED BY <1>8, <1>10, <1>11, <1>12, <1>13, <1>14, <1>15

LEMMA RollbackStep ==
  ASSUME HostInv, WorkerInv', NEW c \in Clients, Rollback(c), RegistryFree, Reads(task[c]), reply[c] # "waiting"
  PROVE  HostInv'
<1> USE DEF HostInv
<1>1. PICK w : w = task[c].win
  OBVIOUS
<1>2. /\ registry' = Without(registry, w) /\ native' = Destroyed(w)
      /\ outcome' = [outcome EXCEPT ![w] = "error"] /\ Return(c)
      /\ UNCHANGED <<reasons, gates, observed, asked, byUser, final>>
      /\ UNCHANGED <<phase, config, rows, sessions, queue, reply, day>>
  BY <1>1 DEF Rollback, Quiet, dbVars
<1>3. /\ task \in [Clients -> TaskType] /\ task' \in [Clients -> TaskType] /\ task'[c] = Idle
      /\ \A d \in Clients \ {c} : task'[d] = task[d]
  BY <1>2, Known, IdleIs DEF Return, Goto
<1>4. /\ w \in Windows /\ native[w] # "unused" /\ outcome[w] = "none" /\ phase = "running"
      /\ task[c].at \in Reading
  BY <1>1, Known, Running DEF Reads, Reading
<1>5. /\ DOMAIN registry' = DOMAIN registry \ {w}
      /\ \A v \in DOMAIN registry' : registry'[v] = registry[v]
  BY <1>2 DEF Without
<1>6. /\ native' \in [Windows -> {"unused", "hidden", "live", "dying", "gone"}]
      /\ \A v \in Windows : v # w => native'[v] = native[v]
      /\ native'[w] # "unused"
  BY <1>2, <1>4 DEF Destroyed, HostTypes
<1>7. HostTypes'
  BY <1>2, <1>3, <1>5, <1>6 DEF HostTypes
<1>8. Outward
  BY <1>2, <1>4, <1>5, <1>6 DEF Outward, HostTypes
<1>9. Onces' /\ Tables' /\ Tracks' /\ Ghosts'
  BY <1>8, OutwardKeeps
<1>10. Threads'
  <2>1. ASSUME NEW d \in Clients \ {c}
        PROVE  Holds(task[d], reply[d])'
    <3>1. Apart(task[c], task[d])
      BY DEF Locks
    <3>2. Reads(task[d]) => task[d].win \in Windows /\ task[d].win # w
      BY <1>1, <3>1, Known DEF Apart, Reads
    <3>3. Reads(task[d]) => outcome'[task[d].win] = outcome[task[d].win]
      BY <1>2, <3>2 DEF HostTypes
    <3> QED BY <1>2, <1>3, <1>8, <3>3, OthersHold
  <2>2. Holds(task[c], reply[c])'
    <3>1. Holds(Idle, reply[c])'
      BY <1>2, QuietHolds, IdleIs DEF Reading, Closing
    <3> QED BY <1>3, <3>1 DEF Holds
  <2> QED BY <2>1, <2>2 DEF Threads
<1>11. Commands'
  <2>1. \A d \in Clients : reply[d] = "waiting" => task'[d] = task[d] /\ reply'[d] = "waiting"
    BY <1>2, <1>3
  <2>2. queue \in Seq(Command)
    BY DEF WorkerInv, TypeOK
  <2> QED BY <1>2, <1>8, <2>1, <2>2, CommandsStay
<1>12. Locks'
  BY <1>2, <1>3, IdleIs, LocksStay
<1>13. Causes'
  <2>1. \A d \in Clients : task[d].at = "destroyed" => task'[d] = task[d]
    BY <1>3, <1>4 DEF Reading
  <2>2. \A v \in DOMAIN registry' : native'[v] = "dying" => v \in DOMAIN registry /\ native[v] = "dying"
    BY <1>5, <1>6 DEF HostTypes
  <2> QED BY <1>2, <2>1, <2>2, CausesStay DEF Causes
<1>14. Quiescent'
  BY <1>2, <1>4, RunningStays
<1> QED BY <1>7, <1>9, <1>10, <1>11, <1>12, <1>13, <1>14

LEMMA OpenFailSteps ==
  ASSUME HostInv, WorkerInv', NEW c \in Clients, OpenFails(c) \/ OpenRefused(c)
  PROVE  HostInv'
<1>1. /\ Rollback(c) /\ RegistryFree /\ Reads(task[c])
      /\ task[c].at \in {"building", "placing"} \/ reply[c] = "error"
  BY DEF OpenFails, OpenRefused, Reads, Reading
<1>2. reply[c] # "waiting"
  BY <1>1, Known DEF Waiting
<1> QED BY <1>1, <1>2, RollbackStep

LEMMA CloseDestroyStep == ASSUME HostInv, WorkerInv', NEW c \in Clients, CloseDestroy(c) PROVE HostInv'
<1> USE DEF HostInv
<1>1. PICK w : w = task[c].win
  OBVIOUS
<1>2. /\ task[c].at = "marked" /\ task[c].at \in Closing /\ reply[c] # "waiting" /\ phase = "running"
      /\ task[c] # Idle /\ task[c] \in TaskType /\ task \in [Clients -> TaskType]
      /\ Holds(task[c], reply[c]) /\ Writes(task[c])
  BY Known, Running DEF CloseDestroy, Waiting, Closing, Writes
<1>3. w \in Windows /\ native[w] # "unused" /\ w \in asked /\ (w \in reasons \/ w \notin DOMAIN registry)
  BY <1>1, <1>2, TaskFields DEF Holds, Closing
<1>4. PICK t : t = [at |-> "destroyed", win |-> w, todo |-> task[c].todo]
  OBVIOUS
<1>5. /\ t \in TaskType /\ t.at = "destroyed" /\ t.todo = task[c].todo /\ t.win = w /\ ~Reads(t)
      /\ t = [task[c] EXCEPT !.at = "destroyed"]
  <2>1. [task[c] EXCEPT !.at = "destroyed"] = [at |-> "destroyed", win |-> w, todo |-> task[c].todo]
    BY <1>1, <1>2, TaskMoves
  <2>2. task[c].todo \in SUBSET Windows
    BY <1>2, TaskFields
  <2> QED BY <1>3, <1>4, <2>1, <2>2, TasksAre DEF Reads, Reading, Closing
<1>6. /\ UNCHANGED <<phase, config, rows, sessions, queue, reply, day>>
      /\ UNCHANGED <<registry, gates, observed, outcome, asked, byUser, final>>
      /\ \/ native' = Destroyed(w) /\ task' = [task EXCEPT ![c] = t] /\ reasons' = reasons
         \/ reasons' = reasons \ {w} /\ task' = [task EXCEPT ![c] = Idle] /\ native' = native
  BY <1>1, <1>5 DEF CloseDestroy, Quiet, dbVars, auxVars, Goto, Return
<1>7. /\ task' \in [Clients -> TaskType] /\ task'[c] \in {t, Idle}
      /\ \A d \in Clients \ {c} : task'[d] = task[d]
  BY <1>2, <1>5, <1>6, IdleIs
<1>8. /\ native' \in [Windows -> {"unused", "hidden", "live", "dying", "gone"}]
      /\ \A v \in Windows : v # w => native'[v] = native[v]
      /\ native'[w] # "unused" /\ reasons' \subseteq reasons
  BY <1>3, <1>6 DEF Destroyed, HostTypes
<1>9. HostTypes'
  BY <1>6, <1>7, <1>8 DEF HostTypes
<1>10. Outward
  BY <1>6, <1>8 DEF Outward, HostTypes
<1>11. Onces' /\ Tables' /\ Tracks' /\ Ghosts'
  BY <1>10, OutwardKeeps
<1>12. \A d \in Clients \ {c} : ~Writes(task[d]) /\ ~Reads(task[d])
  BY <1>2 DEF Locks, Apart
<1>13. Threads'
  <2>1. ASSUME NEW d \in Clients \ {c}
        PROVE  Holds(task[d], reply[d])'
    <3>1. task[d].at # "marked"
      BY <1>12 DEF Writes, Closing
    <3> QED BY <1>6, <1>7, <1>10, <1>12, <3>1, OthersHold
  <2>2. Holds(task[c], reply[c])'
    <3>1. Holds(Idle, reply[c])'
      BY <1>2, <1>6, QuietHolds, IdleIs DEF Reading, Closing
    <3>2. Holds(t, reply[c])'
      BY <1>2, <1>3, <1>5, <1>6, <1>8 DEF Holds, Reading, Unsent, Settled, Closing, Waiting
    <3> QED BY <1>7, <3>1, <3>2 DEF Holds
  <2> QED BY <2>1, <2>2 DEF Threads
<1>14. Commands'
  <2>1. \A d \in Clients : reply[d] = "waiting" => task'[d] = task[d] /\ reply'[d] = "waiting"
    BY <1>2, <1>6, <1>7
  <2>2. queue \in Seq(Command)
    BY DEF WorkerInv, TypeOK
  <2> QED BY <1>6, <1>10, <2>1, <2>2, CommandsStay
<1>15. Locks'
  BY <1>2, <1>5, <1>7, IdleIs, LocksStay
<1>16. Causes'
  <2>1. reasons' \subseteq asked'
    BY <1>6, <1>8 DEF Causes
  <2>2. ASSUME NEW v \in DOMAIN registry', native'[v] = "dying"
        PROVE  v \in byUser' \/ (v \in reasons' /\ \E d \in Clients : task'[d].at = "destroyed" /\ task'[d].win = v)
    <3>1. v \in DOMAIN registry /\ v \in Windows
      BY <1>6 DEF HostTypes
    <3>2. CASE native[v] = "dying"
      <4>1. CASE v \in byUser
        BY <1>6, <4>1
      <4>2. ASSUME NEW d \in Clients, task[d].at = "destroyed"
            PROVE  FALSE
        BY <1>2, <1>12, <4>2 DEF Writes, Closing
      <4> QED BY <3>1, <3>2, <4>1, <4>2 DEF Causes
    <3>3. CASE native[v] # "dying"
      <4>1. v = w /\ task' = [task EXCEPT ![c] = t] /\ reasons' = reasons
        BY <1>6, <1>8, <2>2, <3>1, <3>3
      <4>2. task'[c] = t /\ v \in reasons
        BY <1>2, <1>3, <3>1, <4>1
      <4> QED BY <1>5, <4>1, <4>2
    <3> QED BY <3>2, <3>3
  <2> QED BY <2>1, <2>2 DEF Causes
<1>17. Quiescent'
  BY <1>2, <1>6, RunningStays
<1> QED BY <1>9, <1>11, <1>13, <1>14, <1>15, <1>16, <1>17

\* A record that leaves with its close: the record becomes final, the command is
\* true, and everything else the step may not disturb.
LEMMA RemovalStep ==
  ASSUME HostInv, NEW w \in DOMAIN registry, NEW reason \in CloseReasons, RemoveAndClose(w, reason), RegistryFree,
         reason = "explicit" => w \in asked, reason = "destroyed" => w \in byUser,
         UNCHANGED <<outcome, asked, byUser>>,
         \A v \in Windows : native'[v] = "unused" <=> native[v] = "unused",
         \A d \in Clients : reply[d] = "waiting" => task'[d] = task[d]
  PROVE  /\ Outward /\ Commands' /\ phase = "running" /\ phase' = phase /\ reply' = reply
         /\ DOMAIN registry' = DOMAIN registry \ {w} /\ \A v \in DOMAIN registry' : registry'[v] = registry[v]
         /\ DOMAIN final' \subseteq Windows /\ reasons' = reasons \ {w}
<1> USE DEF HostInv
<1>1. PICK cmd : cmd = CloseCommand(registry[w], reason)
  OBVIOUS
<1>2. /\ cmd.op = "close" /\ cmd.by = Nobody /\ cmd.snap = registry[w] /\ cmd.snap.win = w
      /\ cmd.reason = reason /\ w \in Windows /\ w \notin DOMAIN final
  BY <1>1 DEF CloseCommand, HostTypes, Onces
<1>3. /\ phase = "running" /\ queue' = Append(queue, cmd) /\ Nobody \notin Clients
      /\ UNCHANGED <<phase, config, rows, sessions, day>>
      /\ reply' = [d \in Clients |-> IF d = cmd.by THEN "waiting" ELSE reply[d]]
      /\ queue \in Seq(Command) /\ reply \in [Clients -> {"idle", "waiting", "ok", "error"}]
  BY <1>1, DbAssumption DEF RemoveAndClose, Enqueue, Send, WorkerInv, TypeOK
<1>4. reply' = reply
  BY <1>2, <1>3
<1>5. /\ DOMAIN registry' = DOMAIN registry \ {w} /\ \A v \in DOMAIN registry' : registry'[v] = registry[v]
      /\ DOMAIN final' = DOMAIN final \union {w} /\ final'[w] = registry[w]
      /\ \A v \in DOMAIN final : final'[v] = final[v]
      /\ reasons' = reasons \ {w}
  BY <1>2 DEF RemoveAndClose, Without, Put
<1>6. Len(queue) + 1 \in DOMAIN queue' /\ queue'[Len(queue) + 1] = cmd
      /\ \A i \in DOMAIN queue : i \in DOMAIN queue' /\ queue'[i] = queue[i]
  BY <1>3
<1>7. ClosePending(w)'
  BY <1>2, <1>6 DEF ClosePending
<1>8. Outward
  BY <1>2, <1>3, <1>5, <1>6, <1>7 DEF Outward, HostTypes
<1>9. Meant(cmd)'
  BY <1>2, <1>3, <1>5, DbAssumption DEF Meant, CloseReasons
<1>10. Commands'
  <2>1. \A d \in Clients : reply[d] = "waiting" => task'[d] = task[d] /\ reply'[d] = "waiting"
    BY <1>4
  <2> QED BY <1>2, <1>3, <1>8, <1>9, <2>1, CommandsStay
<1>11. DOMAIN final' \subseteq Windows
  BY <1>2, <1>5 DEF HostTypes
<1> QED BY <1>3, <1>4, <1>5, <1>8, <1>10, <1>11

LEMMA CloseRemoveStep == ASSUME HostInv, WorkerInv', NEW c \in Clients, CloseRemove(c) PROVE HostInv'
<1> USE DEF HostInv
<1>1. PICK w : w = task[c].win
  OBVIOUS
<1>2. /\ task[c].at = "destroyed" /\ task[c].at \in Closing /\ reply[c] # "waiting" /\ phase = "running"
      /\ task[c] # Idle /\ task[c] \in TaskType /\ task \in [Clients -> TaskType]
      /\ Holds(task[c], reply[c]) /\ Writes(task[c]) /\ RegistryFree
  BY Known, Running DEF CloseRemove, Waiting, Closing, Writes
<1>3. /\ w \in Windows /\ native[w] # "unused" /\ w \in asked /\ task[c].todo \subseteq asked
      /\ task[c].todo \in SUBSET Windows
  BY <1>1, <1>2, TaskFields DEF Holds, Closing
<1>4. PICK t : t = IF task[c].todo = {} THEN Idle ELSE [at |-> "closing", todo |-> task[c].todo]
  OBVIOUS
<1>5. /\ t \in TaskType /\ t.at \in {"idle", "closing"} /\ (t.at = "closing" => t.todo = task[c].todo)
      /\ ~Reads(t) /\ task' = [task EXCEPT ![c] = t]
  BY <1>3, <1>4, TasksAre, IdleIs DEF CloseRemove, Goto, Return, Reads, Reading
<1>6. /\ task' \in [Clients -> TaskType] /\ task'[c] = t
      /\ \A d \in Clients \ {c} : task'[d] = task[d]
  BY <1>2, <1>5
<1>7. UNCHANGED <<native, gates, observed, outcome, asked, byUser>>
  BY DEF CloseRemove
<1>8. \A d \in Clients : reply[d] = "waiting" => task'[d] = task[d]
  BY <1>2, <1>6
<1>9. /\ Outward /\ Commands' /\ phase' = phase /\ reply' = reply
      /\ DOMAIN registry' = DOMAIN registry \ {w} /\ \A v \in DOMAIN registry' : registry'[v] = registry[v]
      /\ DOMAIN final' \subseteq Windows /\ reasons' \subseteq reasons /\ reasons \ {w} \subseteq reasons'
  <2>1. CASE w \in DOMAIN registry
    <3>1. "explicit" \in CloseReasons /\ RemoveAndClose(w, "explicit")
      BY <1>1, <2>1 DEF CloseRemove, CloseReasons
    <3> QED BY <1>2, <1>3, <1>7, <1>8, <2>1, <3>1, RemovalStep
  <2>2. CASE w \notin DOMAIN registry
    <3>1. UNCHANGED <<phase, config, rows, sessions, queue, reply, day, registry, final, reasons>>
      BY <1>1, <2>2 DEF CloseRemove, Quiet, dbVars
    <3>2. Outward
      BY <1>7, <3>1 DEF Outward
    <3>3. queue \in Seq(Command) /\ DOMAIN final \subseteq Windows
      BY DEF WorkerInv, TypeOK, HostTypes
    <3>4. \A d \in Clients : reply[d] = "waiting" => task'[d] = task[d] /\ reply'[d] = "waiting"
      BY <1>8, <3>1
    <3>5. Commands'
      BY <3>1, <3>2, <3>3, <3>4, CommandsStay
    <3> QED BY <2>2, <3>1, <3>2, <3>3, <3>5
  <2> QED BY <2>1, <2>2
<1>10. HostTypes'
  BY <1>6, <1>7, <1>9 DEF HostTypes
<1>11. Onces' /\ Tables' /\ Tracks' /\ Ghosts'
  BY <1>9, OutwardKeeps
<1>12. \A d \in Clients \ {c} : ~Writes(task[d]) /\ ~Reads(task[d])
  BY <1>2 DEF Locks, Apart
<1>13. Threads'
  <2>1. ASSUME NEW d \in Clients \ {c}
        PROVE  Holds(task[d], reply[d])'
    <3>1. task[d].at # "marked"
      BY <1>12 DEF Writes, Closing
    <3> QED BY <1>6, <1>9, <1>12, <3>1, OthersHold
  <2>2. Holds(t, reply[c])'
    BY <1>2, <1>3, <1>5, <1>7, <1>9 DEF Holds, Reading, Unsent, Settled, Closing, Waiting
  <2>3. Holds(task[c], reply[c])'
    BY <1>6, <2>2 DEF Holds
  <2> QED BY <2>1, <2>3 DEF Threads
<1>14. Locks'
  BY <1>2, <1>5, <1>6, LocksStay
<1>15. Causes'
  <2>1. reasons' \subseteq asked'
    BY <1>7, <1>9 DEF Causes
  <2>2. ASSUME NEW v \in DOMAIN registry', native'[v] = "dying"
        PROVE  v \in byUser'
    <3>1. v \in DOMAIN registry /\ v # w /\ native[v] = "dying"
      BY <1>7, <1>9, <2>2
    <3>2. ASSUME NEW d \in Clients, task[d].at = "destroyed", task[d].win = v
          PROVE  FALSE
      BY <1>1, <1>12, <3>1, <3>2 DEF Writes, Closing
    <3> QED BY <1>7, <3>1, <3>2 DEF Causes
  <2> QED BY <2>1, <2>2 DEF Causes
<1>16. Quiescent'
  BY <1>2, <1>9, RunningStays
<1> QED BY <1>9, <1>10, <1>11, <1>13, <1>14, <1>15, <1>16

\* The steps of the GUI thread and the user leave every thread's task alone.
LEMMA EventStep ==
  ASSUME HostInv, WorkerInv', Outward, Commands', HostTypes', Causes', phase = "running", phase' = phase,
         task' = task, reply' = reply, outcome' = outcome,
         \A w \in reasons : w \in reasons' \/ w \notin DOMAIN registry'
  PROVE  HostInv'
<1> USE DEF HostInv
<1>1. Onces' /\ Tables' /\ Tracks' /\ Ghosts'
  BY OutwardKeeps
<1>2. Threads'
  <2>1. ASSUME NEW d \in Clients
        PROVE  Holds(task[d], reply[d])'
    BY OthersHold
  <2> QED BY <2>1 DEF Threads
<1>3. Locks'
  BY DEF Locks
<1>4. Quiescent'
  BY RunningStays
<1> QED BY <1>1, <1>2, <1>3, <1>4

LEMMA QuietCommands ==
  ASSUME HostInv, Outward, queue' = queue, registry' = registry \/ RegistryFree, task' = task, reply' = reply
  PROVE  Commands'
<1>1. queue \in Seq(Command)
  BY DEF HostInv, WorkerInv, TypeOK
<1>2. PICK cmd : cmd = Idle
  OBVIOUS
<1> QED BY <1>1, <1>2, CommandsStay DEF HostInv

LEMMA UserDestroysStep == ASSUME HostInv, WorkerInv', NEW w \in Windows, UserDestroys(w) PROVE HostInv'
<1> USE DEF HostInv
<1>1. /\ native[w] = "live" /\ native' = Destroyed(w) /\ byUser' = byUser \union {w}
      /\ UNCHANGED <<phase, config, rows, sessions, queue, reply, day>>
      /\ UNCHANGED <<registry, reasons, gates, observed, task, outcome, asked, final>>
  BY DEF UserDestroys, Quiet, dbVars
<1>2. /\ native' \in [Windows -> {"unused", "hidden", "live", "dying", "gone"}]
      /\ \A v \in Windows : v # w => native'[v] = native[v]
      /\ native'[w] = "dying"
  BY <1>1 DEF Destroyed, HostTypes
<1>3. HostTypes'
  BY <1>1, <1>2 DEF HostTypes
<1>4. Outward
  BY <1>1, <1>2 DEF Outward, HostTypes
<1>5. Commands'
  BY <1>1, <1>4, QuietCommands
<1>6. Causes'
  BY <1>1, <1>2 DEF Causes, HostTypes
<1>7. CASE phase = "running"
  BY <1>1, <1>3, <1>4, <1>5, <1>6, <1>7, EventStep
<1>8. CASE phase # "running"
  \* Windows of a host whose worker is not running: there is nothing else to keep.
  <2>1. Onces' /\ Tables' /\ Tracks' /\ Ghosts'
    BY <1>4, OutwardKeeps
  <2>2. Threads'
    <3>1. ASSUME NEW d \in Clients
          PROVE  Holds(task[d], reply[d])'
      BY <1>1, <1>4, OthersHold
    <3> QED BY <3>1 DEF Threads
  <2>3. Locks' /\ Quiescent'
    BY <1>1 DEF Locks, Quiescent
  <2> QED BY <1>3, <1>5, <1>6, <2>1, <2>2, <2>3
<1> QED BY <1>7, <1>8

LEMMA DestroyedEventStep == ASSUME HostInv, WorkerInv', NEW w \in Windows, DestroyedEvent(w) PROVE HostInv'
<1> USE DEF HostInv
<1>1. /\ native[w] = "dying" /\ native' = [native EXCEPT ![w] = "gone"] /\ RegistryFree
      /\ UNCHANGED <<gates, observed, task, outcome, asked, byUser>>
  BY DEF DestroyedEvent
<1>2. /\ native' \in [Windows -> {"unused", "hidden", "live", "dying", "gone"}]
      /\ \A v \in Windows : v # w => native'[v] = native[v]
      /\ native'[w] = "gone"
      /\ \A v \in Windows : native'[v] = "unused" <=> native[v] = "unused"
  BY <1>1 DEF HostTypes
<1>3. /\ Outward /\ Commands' /\ phase' = phase /\ reply' = reply
      /\ DOMAIN registry' = DOMAIN registry \ {w} /\ \A v \in DOMAIN registry' : registry'[v] = registry[v]
      /\ DOMAIN final' \subseteq Windows /\ reasons' \subseteq reasons /\ reasons \ {w} \subseteq reasons'
      /\ w \in DOMAIN registry => phase = "running"
  <2>1. CASE w \in DOMAIN registry
    <3>1. PICK reason \in CloseReasons : reason = (IF w \in reasons THEN "explicit" ELSE "destroyed")
      BY DEF CloseReasons
    <3>2. RemoveAndClose(w, reason)
      BY <2>1, <3>1 DEF DestroyedEvent
    <3>3. /\ reason = "explicit" => w \in asked
          /\ reason = "destroyed" => w \in byUser
      BY <1>1, <2>1, <3>1 DEF Causes
    <3> QED BY <1>1, <1>2, <2>1, <3>2, <3>3, RemovalStep, Running
  <2>2. CASE w \notin DOMAIN registry
    <3>1. UNCHANGED <<phase, config, rows, sessions, queue, reply, day, registry, final, reasons>>
      BY <2>2 DEF DestroyedEvent, Quiet, dbVars
    <3>2. Outward
      BY <1>1, <1>2, <3>1 DEF Outward
    <3>3. DOMAIN final \subseteq Windows
      BY DEF HostTypes
    <3>4. Commands'
      BY <1>1, <3>1, <3>2, QuietCommands
    <3> QED BY <2>2, <3>1, <3>2, <3>3, <3>4
  <2> QED BY <2>1, <2>2
<1>4. HostTypes'
  BY <1>1, <1>2, <1>3 DEF HostTypes
<1>5. Causes'
  <2>1. reasons' \subseteq asked'
    BY <1>1, <1>3 DEF Causes
  <2>2. ASSUME NEW v \in DOMAIN registry', native'[v] = "dying"
        PROVE  v \in byUser' \/ (v \in reasons' /\ \E d \in Clients : task'[d].at = "destroyed" /\ task'[d].win = v)
    <3>1. v \in DOMAIN registry /\ v # w /\ native[v] = "dying"
      BY <1>2, <1>3, <2>2 DEF HostTypes
    <3> QED BY <1>1, <1>3, <3>1 DEF Causes
  <2> QED BY <2>1, <2>2 DEF Causes
<1>6. \A v \in reasons : v \in reasons' \/ v \notin DOMAIN registry'
  BY <1>3
<1>7. CASE phase = "running"
  BY <1>1, <1>3, <1>4, <1>5, <1>6, <1>7, EventStep
<1>8. CASE phase # "running"
  <2>1. Onces' /\ Tables' /\ Tracks' /\ Ghosts'
    BY <1>3, OutwardKeeps
  <2>2. Threads'
    <3>1. ASSUME NEW d \in Clients
          PROVE  Holds(task[d], reply[d])'
      BY <1>1, <1>3, <1>6, OthersHold
    <3> QED BY <3>1 DEF Threads
  <2>3. queue' = queue
    BY <1>3, <1>8 DEF DestroyedEvent, Quiet, dbVars
  <2>4. Locks' /\ Quiescent'
    BY <1>1, <1>3, <2>3 DEF Locks, Quiescent
  <2> QED BY <1>3, <1>4, <1>5, <2>1, <2>2, <2>4
<1> QED BY <1>7, <1>8

LEMMA PageEventStep == ASSUME HostInv, WorkerInv', NEW w \in Windows, PageEvent(w) PROVE HostInv'
<1> USE DEF HostInv
<1>1. PICK snap \in Observations(registry[w]) : Record(w, snap) /\ observed' = {snap}
  BY DEF PageEvent
<1>2. /\ w \in DOMAIN registry /\ RegistryFree
      /\ UNCHANGED <<phase, config, rows, sessions, queue, reply, day>>
      /\ UNCHANGED <<native, reasons, gates, task, outcome, asked, byUser, final>>
  BY DEF PageEvent, Quiet, dbVars
<1>3. snap \in Records /\ snap.win = w
  BY <1>1, <1>2, RecordsAre DEF HostTypes
<1>4. /\ DOMAIN registry' = DOMAIN registry
      /\ \A v \in DOMAIN registry : registry'[v] \in Records /\ registry'[v].win = v
  BY <1>1, <1>2, <1>3 DEF Record, Put, HostTypes
<1>5. HostTypes'
  BY <1>1, <1>2, <1>3, <1>4 DEF HostTypes
<1>6. Outward
  BY <1>2, <1>4 DEF Outward
<1>7. Commands'
  BY <1>2, <1>6, QuietCommands
<1>8. Causes'
  BY <1>2, <1>4 DEF Causes
<1>9. phase = "running"
  BY <1>2, Running
<1> QED BY <1>2, <1>5, <1>6, <1>7, <1>8, <1>9, EventStep

LEMMA PageSyncStep == ASSUME HostInv, WorkerInv', PageSync PROVE HostInv'
<1> USE DEF HostInv
<1>1. PICK snap \in observed : Enqueue(SyncCommand(snap, Nobody))
  BY DEF PageSync
<1>2. PICK cmd : cmd = SyncCommand(snap, Nobody)
  OBVIOUS
<1>3. /\ cmd.op = "sync" /\ cmd.by = Nobody /\ Nobody \notin Clients
      /\ phase = "running" /\ queue' = Append(queue, cmd)
      /\ UNCHANGED <<phase, config, rows, sessions, day>>
      /\ reply' = [d \in Clients |-> IF d = cmd.by THEN "waiting" ELSE reply[d]]
      /\ queue \in Seq(Command) /\ reply \in [Clients -> {"idle", "waiting", "ok", "error"}]
  BY <1>1, <1>2, DbAssumption DEF SyncCommand, Enqueue, Send, WorkerInv, TypeOK
<1>4. /\ reply' = reply
      /\ \A i \in DOMAIN queue : i \in DOMAIN queue' /\ queue'[i] = queue[i]
  BY <1>3
<1>5. observed' = {} /\ UNCHANGED <<registry, native, reasons, gates, task, outcome, asked, byUser, final>>
  BY DEF PageSync, auxVars
<1>6. HostTypes'
  BY <1>5 DEF HostTypes
<1>7. Outward
  BY <1>3, <1>4, <1>5 DEF Outward
<1>8. Meant(cmd)'
  BY <1>3 DEF Meant
<1>9. Commands'
  <2>1. \A d \in Clients : reply[d] = "waiting" => task'[d] = task[d] /\ reply'[d] = "waiting"
    BY <1>4, <1>5
  <2> QED BY <1>3, <1>5, <1>7, <1>8, <2>1, CommandsStay
<1>10. Causes'
  BY <1>5 DEF Causes
<1> QED BY <1>3, <1>4, <1>5, <1>6, <1>7, <1>9, <1>10, EventStep

LEMMA HostCrashStep == ASSUME HostInv, WorkerInv', HostCrash PROVE HostInv'
<1> USE DEF HostInv
<1>1. /\ phase' = "down" /\ sessions' = [w \in Windows |-> NoSession] /\ queue' = <<>>
      /\ reply' = [c \in Clients |-> "idle"] /\ UNCHANGED <<config, rows>>
      /\ UNCHANGED <<outcome, asked, byUser, final>>
      /\ DOMAIN registry' = {} /\ reasons' = {} /\ gates' = {} /\ observed' = {}
      /\ task' = [c \in Clients |-> Idle]
      /\ native' = [w \in Windows |-> IF native[w] = "unused" THEN "unused" ELSE "gone"]
  BY DEF HostCrash, Crash, auxVars, NoRecords
<1>2. HostTypes'
  BY <1>1, IdleIs DEF HostTypes
<1>3. Quiescent' /\ Commands' /\ Tracks' /\ Causes'
  BY <1>1 DEF Quiescent, Commands, Tracks, Causes
<1>4. Threads'
  <2>1. ASSUME NEW c \in Clients
        PROVE  Holds(task[c], reply[c])'
    <3>1. task'[c] = Idle /\ reply'[c] = "idle"
      BY <1>1
    <3> QED BY <3>1, IdleIs DEF Holds, Reading, Unsent, Settled, Closing, Waiting
  <2> QED BY <2>1 DEF Threads
<1>5. Locks'
  BY <1>1, IdleIs DEF Locks, Apart
<1>6. Onces'
  BY <1>1 DEF Onces, HostTypes
<1>7. Tables'
  <2>1. ASSUME NEW w \in Windows
        PROVE  Kept(w)'
    <3>1. Kept(w)
      BY DEF Tables
    <3> QED BY <1>1, <3>1 DEF Kept
  <2> QED BY <2>1 DEF Tables
<1>8. Ghosts'
  <2>1. \A w \in Windows : sessions'[w].id = 0
    BY <1>1, TypesOfConstants
  <2> QED BY <2>1 DEF Ghosts, Tracked
<1> QED BY <1>2, <1>3, <1>4, <1>5, <1>6, <1>7, <1>8

-----------------------------------------------------------------------------
(* The worker's steps *)

\* The worker takes the command at the head and answers its sender.
Serves ==
  /\ queue # <<>> /\ queue' = Tail(queue) /\ UNCHANGED phase
  /\ UNCHANGED <<registry, native, reasons, gates, observed, task, outcome, asked, byUser, final>>
  /\ \A d \in Clients : d # Head(queue).by => reply'[d] = reply[d]
  /\ Head(queue).by \in Clients => reply'[Head(queue).by] \in {"ok", "error"}

\* The window may start an open: the worker does not insert a row for it now.
Spares ==
  \A c \in Clients :
    Reads(task[c]) /\ ~(Head(queue).op = "open" /\ Head(queue).by = c) /\ Blank(task[c].win)
      => Blank(task[c].win)'

LEMMA QueueIs ==
  ASSUME HostInv, Serves
  PROVE  /\ queue \in Seq(Command) /\ Head(queue) = queue[1] /\ 1 \in DOMAIN queue /\ Meant(queue[1])
         /\ queue' \in Seq(Command) /\ phase = "running"
         /\ \A i \in DOMAIN queue' : i + 1 \in DOMAIN queue /\ queue'[i] = queue[i + 1] /\ i \in Nat
         /\ \A i \in DOMAIN queue : i # 1 => i - 1 \in DOMAIN queue' /\ queue'[i - 1] = queue[i]
<1>1. queue \in Seq(Command) /\ queue # <<>>
  BY DEF HostInv, WorkerInv, TypeOK, Serves
<1>2. Head(queue) = queue[1] /\ 1 \in DOMAIN queue
  BY <1>1
<1>3. Meant(queue[1]) /\ phase = "running"
  BY <1>1, <1>2 DEF HostInv, Commands, Quiescent
<1>4. queue' = Tail(queue)
  BY DEF Serves
<1>5. /\ Tail(queue) \in Seq(Command) /\ Len(Tail(queue)) = Len(queue) - 1
      /\ \A i \in 1..Len(Tail(queue)) : Tail(queue)[i] = queue[i + 1]
  BY <1>1, HeadTailProperties
<1>6. Len(queue) \in Nat /\ DOMAIN queue = 1..Len(queue) /\ DOMAIN queue' = 1..Len(queue) - 1
  BY <1>1, <1>4, <1>5
<1>7. \A i \in DOMAIN queue' : i + 1 \in DOMAIN queue /\ queue'[i] = queue[i + 1] /\ i \in Nat
  BY <1>4, <1>5, <1>6
<1>8. ASSUME NEW i \in DOMAIN queue, i # 1
      PROVE  i - 1 \in DOMAIN queue' /\ queue'[i - 1] = queue[i]
  <2>1. i - 1 \in DOMAIN queue' /\ (i - 1) + 1 = i
    BY <1>6, <1>8
  <2> QED BY <1>7, <2>1
<1> QED BY <1>1, <1>2, <1>3, <1>4, <1>5, <1>7, <1>8

LEMMA ServedCommands == ASSUME HostInv, Serves, Spares PROVE Commands'
<1> USE DEF HostInv
<1>1. ActiveWindows' = ActiveWindows
  BY DEF Serves, ActiveWindows
<1>2. ASSUME NEW i \in DOMAIN queue'
      PROVE  Meant(queue[i])'
  <2>1. PICK cmd : cmd = queue[i + 1]
    OBVIOUS
  <2>2. i + 1 \in DOMAIN queue /\ queue'[i] = cmd /\ Meant(cmd) /\ i + 1 # 1
    BY <1>2, <2>1, QueueIs DEF Commands
  <2>3. cmd.by \in Clients => cmd.by # Head(queue).by
    BY <2>1, <2>2, QueueIs DEF Commands
  <2>4. cmd.by \in Clients => reply'[cmd.by] = "waiting" /\ task'[cmd.by] = task[cmd.by]
    BY <2>2, <2>3 DEF Meant, Serves
  <2>5. cmd.op = "open" => Blank(cmd.snap.win)'
    <3>1. ASSUME cmd.op = "open"
          PROVE  /\ cmd.by \in Clients /\ Reads(task[cmd.by]) /\ task[cmd.by].win = cmd.snap.win
                 /\ Blank(task[cmd.by].win)
      BY <2>2, <3>1 DEF Meant, Reads, Reading
    <3>2. ASSUME cmd.op = "open"
          PROVE  Blank(task[cmd.by].win)'
      BY <2>3, <3>1, <3>2 DEF Spares
    <3> QED BY <3>1, <3>2 DEF Blank, Serves
  <2>6. Meant(cmd)'
    BY <1>1, <2>2, <2>4, <2>5 DEF Meant, Serves
  <2> QED BY <2>2, <2>6 DEF Meant, Blank
<1>3. ASSUME NEW i \in DOMAIN queue', NEW j \in DOMAIN queue',
             queue'[i].by \in Clients, queue'[j].by = queue'[i].by
      PROVE  i = j
  <2>1. /\ i + 1 \in DOMAIN queue /\ j + 1 \in DOMAIN queue /\ i \in Nat /\ j \in Nat
        /\ queue'[i] = queue[i + 1] /\ queue'[j] = queue[j + 1]
    BY QueueIs
  <2>2. i + 1 = j + 1
    BY <1>3, <2>1 DEF Commands
  <2> QED BY <2>1, <2>2
<1> QED BY <1>2, <1>3 DEF Commands

\* What is left to show of each command: what it does to the rows of every window,
\* and which windows it leaves tracked.
LEMMA ServedStep ==
  ASSUME HostInv, WorkerInv', Serves, Spares,
         \A w \in Windows : Kept(w)',
         \A w \in Windows : native[w] = "unused" => rows'[w] = <<>>,
         \A w \in DOMAIN registry : config'.enabled => Tracked(w)' \/ (config.enabled /\ ~Tracked(w)),
         ~StorageMayFail => \A w \in Windows : Tracked(w)' =>
           \/ Tracked(w) /\ ~(Head(queue).op = "close" /\ Head(queue).snap.win = w)
           \/ w \in DOMAIN registry \/ outcome[w] # "ok",
         \A c \in Clients : Head(queue).op = "open" /\ Head(queue).by = c /\ reply'[c] = "ok" /\ config'.enabled
           => Tracked(task[c].win)'
  PROVE  HostInv'
<1> USE DEF HostInv
<1>1. HostTypes' /\ Causes' /\ Locks'
  BY DEF Serves, HostTypes, Causes, Locks
<1>2. Quiescent'
  <2>1. phase = "running" /\ phase' = phase
    BY QueueIs DEF Serves
  <2> QED BY <2>1, RunningStays
<1>3. Commands'
  BY ServedCommands
<1>4. Onces'
  BY DEF Onces, Serves
<1>5. Tables'
  BY DEF Tables
<1>6. Tracks'
  <2>1. ASSUME NEW w \in DOMAIN registry, config'.enabled, outcome[w] = "ok"
        PROVE  Tracked(w)'
    BY <2>1 DEF Tracks
  <2> QED BY <2>1 DEF Tracks, Serves
<1>7. Ghosts'
  <2>1. ASSUME ~StorageMayFail, NEW w \in Windows, Tracked(w)', outcome[w] = "ok", w \notin DOMAIN registry
        PROVE  \E i \in DOMAIN queue' : queue'[i].op = "close" /\ queue'[i].snap.win = w
    <3>1. Tracked(w) /\ ~(Head(queue).op = "close" /\ Head(queue).snap.win = w)
      BY <2>1
    <3>2. PICK i \in DOMAIN queue : queue[i].op = "close" /\ queue[i].snap.win = w
      BY <2>1, <3>1 DEF Ghosts
    <3>3. i # 1
      BY <3>1, <3>2, QueueIs
    <3> QED BY <3>2, <3>3, QueueIs
  <2> QED BY <2>1 DEF Ghosts, Serves
<1>8. Threads'
  <2>1. ASSUME NEW c \in Clients
        PROVE  Holds(task[c], reply[c])'
    <3> DEFINE t == task[c]
    <3>1. /\ t \in TaskType /\ Holds(t, reply[c])
          /\ UNCHANGED <<registry, native, reasons, outcome, asked>> /\ task'[c] = t
      BY DEF HostTypes, Threads, Serves
    <3>2. /\ Unsent \subseteq Reading /\ Settled \subseteq Reading
          /\ \A at \in Settled : at \notin Waiting /\ at # "tracked"
          /\ \A at \in Unsent : at \notin Waiting /\ at # "tracked"
      BY DEF Unsent, Reading, Settled, Waiting
    <3>3. CASE c = Head(queue).by
      <4>1. /\ reply[c] = "waiting" /\ t.at \in Waiting /\ reply'[c] \in {"ok", "error"}
            /\ t.at = "tracked" => Head(queue).op = "open"
        BY <3>1, <3>3, QueueIs DEF Meant, Holds, Serves
      <4>2. t.at = "tracked" /\ reply'[c] = "ok" /\ config'.enabled => Tracked(t.win)'
        BY <3>3, <4>1
      <4>3. t.at \notin Unsent /\ t.at \notin Settled
        BY <3>2, <4>1
      <4> QED BY <3>1, <4>1, <4>2, <4>3 DEF Holds, Tracked
    <3>4. CASE c # Head(queue).by
      <4>1. reply'[c] = reply[c]
        BY <3>4 DEF Serves
      <4>2. t.at \in Unsent => Blank(t.win)'
        BY <3>1, <3>2, <3>4 DEF Spares, Holds, Reads
      <4>3. (t.at \in Settled \/ (t.at = "tracked" /\ reply[c] = "ok")) /\ t.win \in DOMAIN registry /\ config'.enabled
              => Tracked(t.win)'
        BY <3>1 DEF Holds
      <4> QED BY <3>1, <4>1, <4>2, <4>3 DEF Holds, Tracked, Blank
    <3> QED BY <3>3, <3>4
  <2> QED BY <2>1 DEF Threads
<1> QED BY <1>1, <1>2, <1>3, <1>4, <1>5, <1>6, <1>7, <1>8

\* The rows of a window stay as many, and an open one stays open, goes, or is
\* closed abruptly when the window is no longer registered.
Wanes(w) ==
  /\ DOMAIN rows'[w] = DOMAIN rows[w]
  /\ \A i \in DOMAIN rows[w] : rows[w][i].status = "open" =>
       rows'[w][i].status \in {"open", "deleted"} \/ (w \notin DOMAIN registry /\ rows'[w][i].reason = "abrupt")

LEMMA WaningRows ==
  ASSUME HostInv, WorkerInv', Final(rows, rows'), UNCHANGED <<registry, asked, byUser, final>>,
         NEW w \in Windows, Wanes(w)
  PROVE  Kept(w)'
<1>1. Kept(w) /\ rows[w] \in Seq(Row) /\ rows'[w] \in Seq(Row)
  BY DEF HostInv, Tables, WorkerInv, TypeOK
<1>2. ASSUME NEW i \in DOMAIN rows[w]
      PROVE  /\ rows[w][i] \in Row /\ rows'[w][i] \in Row /\ i \in DOMAIN rows'[w]
             /\ rows[w][i].status \in {"open", "closed", "deleted"}
             /\ rows[w][i].status = "closed" => rows'[w][i] \in {rows[w][i], Deleted}
             /\ rows[w][i].status = "deleted" => rows'[w][i] = rows[w][i]
             /\ rows[w][i].status = "open" =>
                  \/ rows'[w][i].status \in {"open", "deleted"}
                  \/ w \notin DOMAIN registry /\ rows'[w][i].reason = "abrupt"
  <2>1. DOMAIN rows'[w] = DOMAIN rows[w]
    BY DEF Wanes
  <2>2. rows[w][i] \in Row /\ rows'[w][i] \in Row
    BY <1>1, <2>1
  <2>3. rows[w][i].status \in {"open", "closed", "deleted"}
    BY <2>2 DEF Row
  <2> QED BY <2>1, <2>2, <2>3 DEF Final, Wanes
<1>3. Deleted.status = "deleted" /\ Deleted.reason = "none" /\ "abrupt" \notin CloseReasons /\ "none" \notin CloseReasons
  BY DEF Deleted, CloseReasons
<1>4. \A row \in Row : row.status # "closed" => row.reason = "none"
  BY DEF Row
<1>5. DOMAIN rows'[w] = DOMAIN rows[w]
  BY DEF Wanes
<1>6. ASSUME NEW i \in DOMAIN rows'[w]
      PROVE  /\ w \in DOMAIN registry => rows'[w][i].status # "closed"
             /\ rows'[w][i].status # "deleted" => rows[w][i].status # "deleted"
             /\ \/ rows'[w][i] = rows[w][i]
                \/ rows'[w][i].reason \in {"none", "abrupt"}
  <2>1. i \in DOMAIN rows[w]
    BY <1>5
  <2>2. w \in DOMAIN registry => rows[w][i].status # "closed"
    BY <1>1, <2>1 DEF Kept
  <2>3. CASE rows[w][i].status = "closed"
    BY <1>2, <1>3, <2>1, <2>2, <2>3
  <2>4. CASE rows[w][i].status = "deleted"
    BY <1>2, <1>3, <2>1, <2>2, <2>4
  <2>5. CASE rows[w][i].status = "open"
    BY <1>2, <1>3, <1>4, <2>1, <2>2, <2>5
  <2> QED BY <1>2, <2>1, <2>3, <2>4, <2>5
<1>7. w \in DOMAIN registry' => \A i \in DOMAIN rows'[w] : rows'[w][i].status # "closed"
  BY <1>6
<1>8. \A i, j \in DOMAIN rows'[w] : rows'[w][i].status # "deleted" /\ rows'[w][j].status # "deleted" => i = j
  BY <1>1, <1>5, <1>6 DEF Kept
<1>9. ASSUME NEW i \in DOMAIN rows'[w]
      PROVE  /\ rows'[w][i].reason = "explicit" => w \in asked'
             /\ rows'[w][i].reason = "destroyed" => w \in byUser'
             /\ rows'[w][i].status = "closed" /\ rows'[w][i].reason \in CloseReasons =>
                  w \in DOMAIN final' /\ rows'[w][i].url = final'[w].url
  <2>1. CASE rows'[w][i] = rows[w][i]
    BY <1>1, <1>5, <2>1 DEF Kept
  <2>2. CASE rows'[w][i].reason \in {"none", "abrupt"}
    BY <1>3, <2>2
  <2> QED BY <1>6, <2>1, <2>2
<1> QED BY <1>7, <1>8, <1>9 DEF Kept

\* A table whose rows are as many inserts for no one.
LEMMA SameRowsSpare ==
  ASSUME HostInv, WorkerInv', Final(rows, rows'), UNCHANGED task,
         \A w \in Windows : DOMAIN rows'[w] = DOMAIN rows[w]
  PROVE  /\ Spares
         /\ \A w \in Windows : rows[w] = <<>> => rows'[w] = <<>>
         /\ \A w \in Windows : native[w] = "unused" => rows'[w] = <<>>
<1>1. ASSUME NEW w \in Windows, Blank(w)
      PROVE  Blank(w)'
    BY <1>1 DEF Blank, Final
<1>2. \A c \in Clients : Reads(task[c]) => task[c].win \in Windows
  BY Known DEF Reads
<1>3. ASSUME NEW w \in Windows, rows[w] = <<>>
      PROVE  rows'[w] = <<>>
  <2>1. rows'[w] \in Seq(Row) /\ DOMAIN rows'[w] = {}
    BY <1>3 DEF WorkerInv, TypeOK
  <2>2. Len(rows'[w]) = 0
    <3>1. Len(rows'[w]) \in Nat /\ 1..Len(rows'[w]) = {}
      BY <2>1, LenProperties
    <3>2. \A n \in Nat : 1..n = {} => n = 0
      <4>1. \A n \in Nat : n # 0 => 1 \in 1..n
        OBVIOUS
      <4> QED BY <4>1
    <3> QED BY <3>1, <3>2
  <2> QED BY <2>1, <2>2, EmptySeq
<1>4. Spares
  BY <1>1, <1>2 DEF Spares, Blank
<1> QED BY <1>3, <1>4 DEF HostInv, Onces

\* What the operators on the table do to a row, in these terms.
LEMMA DropsWane ==
  ASSUME RowsDrop(rows, rows'), NEW w \in Windows
  PROVE  Wanes(w)
BY DEF RowsDrop, Wanes

LEMMA StaysOpen ==
  ASSUME RowsEnd(rows, rows'), NEW w \in Windows, OpenRows(rows', w) = OpenRows(rows, w)
  PROVE  Wanes(w)
<1>1. ASSUME NEW i \in DOMAIN rows[w], rows[w][i].status = "open"
      PROVE  rows'[w][i].status = "open"
  BY <1>1 DEF OpenRows
<1> QED BY <1>1 DEF RowsEnd, Wanes

LEMMA SameRowsWane ==
  ASSUME UNCHANGED rows
  PROVE  Final(rows, rows') /\ \A w \in Windows : Wanes(w)
BY FinalComposes DEF Wanes

\* A command that only updates or removes rows of windows, and keeps their sessions.
LEMMA WaningStep ==
  ASSUME HostInv, WorkerInv', Serves, Final(rows, rows'), \A w \in Windows : Wanes(w),
         Head(queue).op \notin {"open", "close"},
         config'.enabled => config.enabled /\ \A w \in Windows : Tracked(w)' <=> Tracked(w),
         \A w \in Windows : Tracked(w)' => Tracked(w)
  PROVE  HostInv'
<1>1. \A w \in Windows : Kept(w)'
  BY WaningRows DEF Serves
<1>2. Spares /\ \A w \in Windows : native[w] = "unused" => rows'[w] = <<>>
  BY SameRowsSpare DEF Serves, Wanes
<1>3. \A w \in DOMAIN registry : config'.enabled => Tracked(w)' \/ (config.enabled /\ ~Tracked(w))
  BY DEF HostInv, HostTypes
<1> QED BY <1>1, <1>2, <1>3, ServedStep

\* A command that finds nothing to do, or fails.
LEMMA NothingStep ==
  ASSUME HostInv, WorkerInv', Serves, UNCHANGED <<rows, sessions, config>>,
         Head(queue).op = "close" => StorageMayFail \/ ~Tracked(Head(queue).snap.win),
         Head(queue).op = "open" => reply'[Head(queue).by] = "error" \/ ~config.enabled
  PROVE  HostInv'
<1>1. Final(rows, rows') /\ \A w \in Windows : Wanes(w)
  BY SameRowsWane
<1>2. \A w \in Windows : Kept(w)'
  BY <1>1, WaningRows DEF Serves
<1>3. Spares /\ \A w \in Windows : native[w] = "unused" => rows'[w] = <<>>
  BY <1>1, SameRowsSpare DEF Serves, Wanes
<1>4. \A w : Tracked(w)' <=> Tracked(w)
  BY DEF Tracked
<1> QED BY <1>2, <1>3, <1>4, ServedStep

LEMMA TakesServes ==
  ASSUME HostInv, NEW op, Takes(op), UNCHANGED phase, NEW result \in {"ok", "error"}, Answer(Head(queue), result),
         UNCHANGED hostVars, UNCHANGED auxVars
  PROVE  Serves /\ Head(queue).op = op /\ (Head(queue).by \in Clients => reply'[Head(queue).by] = result)
BY DEF Takes, Serves, Answer, hostVars, auxVars

LEMMA IgnoredStep ==
  ASSUME HostInv, WorkerInv', NEW op, Takes(op), UNCHANGED <<phase, config, day>>,
         UNCHANGED hostVars, UNCHANGED auxVars,
         \/ Ignored(Head(queue)) /\ (op = "open" => ~config.enabled)
                                 /\ (op = "close" => ~Tracked(Head(queue).snap.win))
         \/ Failed(Head(queue)) /\ (op = "close" => StorageMayFail)
  PROVE  HostInv'
<1>1. PICK result \in {"ok", "error"} :
        /\ Answer(Head(queue), result)
        /\ op = "open" => result = "error" \/ ~config.enabled
        /\ op = "close" => StorageMayFail \/ ~Tracked(Head(queue).snap.win)
        /\ UNCHANGED <<rows, sessions>>
  BY DEF Ignored, Failed
<1>2. Serves /\ Head(queue).op = op /\ (Head(queue).by \in Clients => reply'[Head(queue).by] = result)
  BY <1>1, TakesServes
<1>3. op = "open" => Head(queue).by \in Clients
  BY <1>2, QueueIs DEF Meant
<1> QED BY <1>1, <1>2, <1>3, NothingStep

LEMMA UntrackedWhenDisabled == ASSUME HostInv, ~config.enabled, NEW w \in Windows PROVE ~Tracked(w)
<1>1. Tracked(w) => OpenRows(rows, w) = {sessions[w].id}
  BY DEF HostInv, WorkerInv, OpenMatch
<1>2. OpenRows(rows, w) = {}
  BY DEF HostInv, WorkerInv, OpenMatch
<1> QED BY <1>1, <1>2

LEMMA HostSync ==
  ASSUME HostInv, WorkerInv', Final(rows, rows'), WorkerSync, UNCHANGED hostVars, UNCHANGED auxVars
  PROVE  HostInv'
<1> DEFINE cmd == Head(queue)
           snap == cmd.snap
           session == Observe(sessions[snap.win], snap)
<1>1. Takes("sync") /\ UNCHANGED <<phase, config, day>> /\ WorkerInv /\ TypeOK
  BY DEF WorkerSync, HostInv, WorkerInv
<1>2. snap \in Snapshot /\ snap.win \in Windows
  BY <1>1, HeadCommand DEF Snapshot
<1>3. CASE Ignored(cmd)
  BY <1>1, <1>3, IgnoredStep
<1>4. CASE ~Ignored(cmd)
  <2>1. PICK outcome_ \in {"ok", "error"} :
          /\ Tracked(snap.win) /\ sessions' = [sessions EXCEPT ![snap.win] = session]
          /\ rows' = IF outcome_ = "ok" THEN UpdateRow(rows, session, snap) ELSE rows
          /\ Answer(cmd, outcome_)
    BY <1>4 DEF WorkerSync, Outcomes
  <2>2. session \in Session /\ session.id \in OpenRows(rows, snap.win)
    BY <1>1, <1>2, <2>1, Addressed
  <2>3. session.id # 0
    <3>1. sessions[snap.win] \in Session
      BY <1>1, <1>2 DEF TypeOK
    <3>2. session.id = sessions[snap.win].id
      BY <1>2, <3>1, ObserveType
    <3> QED BY <2>1, <3>2 DEF Tracked
  <2>4. \A w \in Windows : Tracked(w)' <=> Tracked(w)
    BY <1>1, <1>2, <2>1, <2>3 DEF Tracked, TypeOK
  <2>5. RowsDrop(rows, rows')
    <3>1. rows \in [Windows -> Seq(Row)]
      BY <1>1 DEF TypeOK
    <3> HIDE DEF session, snap
    <3> QED BY <1>2, <2>1, <2>2, <3>1, UpdateDrops, SameTable
  <2>6. Serves /\ Head(queue).op = "sync"
    BY <1>1, <2>1, TakesServes
  <2>7. \A w \in Windows : Wanes(w)
    BY <2>5, DropsWane
  <2> QED BY <1>1, <2>4, <2>6, <2>7, WaningStep
<1> QED BY <1>3, <1>4

LEMMA HostClear ==
  ASSUME HostInv, WorkerInv', Final(rows, rows'), WorkerClear, UNCHANGED hostVars, UNCHANGED auxVars
  PROVE  HostInv'
<1>1. Takes("clear") /\ UNCHANGED <<phase, config, day>> /\ rows \in [Windows -> Seq(Row)]
  BY DEF WorkerClear, HostInv, WorkerInv, TypeOK
<1>2. CASE Failed(Head(queue))
  BY <1>1, <1>2, IgnoredStep
<1>3. CASE ~Failed(Head(queue))
  <2>1. rows' = DeleteStatus(rows, "closed") /\ Answer(Head(queue), "ok") /\ UNCHANGED sessions
    BY <1>3 DEF WorkerClear
  <2>2. RowsEnd(rows, rows') /\ \A w \in Windows : OpenRows(rows', w) = OpenRows(rows, w)
    BY <1>1, <2>1, DeleteEnds, DeleteRows
  <2>3. \A w \in Windows : Wanes(w)
    BY <2>2, StaysOpen
  <2>4. Serves /\ Head(queue).op = "clear"
    BY <1>1, <2>1, TakesServes
  <2>5. \A w : Tracked(w)' <=> Tracked(w)
    BY <2>1 DEF Tracked
  <2> QED BY <1>1, <2>3, <2>4, <2>5, WaningStep
<1> QED BY <1>2, <1>3

LEMMA HostRetention ==
  ASSUME HostInv, WorkerInv', Final(rows, rows'), WorkerSetRetention, UNCHANGED hostVars, UNCHANGED auxVars
  PROVE  HostInv'
<1> DEFINE days == Head(queue).days
<1>1. /\ Takes("retention") /\ UNCHANGED <<phase, day>> /\ rows \in [Windows -> Seq(Row)]
      /\ TypeOK /\ day \in Nat
  BY DEF WorkerSetRetention, HostInv, WorkerInv, TypeOK
<1>2. days \in Nat
  BY <1>1, HeadCommand
<1>3. CASE UNCHANGED config /\ (Ignored(Head(queue)) \/ Failed(Head(queue)))
  BY <1>1, <1>3, IgnoredStep
<1>4. CASE ~(UNCHANGED config /\ (Ignored(Head(queue)) \/ Failed(Head(queue))))
  <2>1. /\ rows' = Prune(rows, days, day) /\ Answer(Head(queue), "ok") /\ UNCHANGED sessions
        /\ config' = [config EXCEPT !.retention = days]
    BY <1>4 DEF WorkerSetRetention
  <2>2. config'.enabled = config.enabled
    BY <1>1, <2>1 DEF TypeOK
  <2>3. RowsEnd(rows, rows') /\ \A w \in Windows : OpenRows(rows', w) = OpenRows(rows, w)
    <3> HIDE DEF days
    <3> QED BY <1>1, <1>2, <2>1, PruneEnds, PruneRows
  <2>4. \A w \in Windows : Wanes(w)
    BY <2>3, StaysOpen
  <2>5. Serves /\ Head(queue).op = "retention"
    BY <1>1, <2>1, TakesServes
  <2>6. \A w : Tracked(w)' <=> Tracked(w)
    BY <2>1 DEF Tracked
  <2> QED BY <2>2, <2>4, <2>5, <2>6, WaningStep
<1> QED BY <1>3, <1>4

\* What a successful close leaves of the row it closes, and of the others.
LEMMA ClosedRow ==
  ASSUME NEW rs \in [Windows -> Seq(Row)], NEW session \in Session, NEW snap \in Snapshot,
         session.id \in OpenRows(rs, snap.win),
         NEW reason \in CloseReasons, NEW now \in Nat, NEW retention \in Nat,
         NEW table, table = Prune(CloseRow(rs, session, snap, reason, now), retention, now)
  PROVE  /\ table[snap.win][session.id].status = "closed"
         /\ table[snap.win][session.id].url = snap.url
         /\ table[snap.win][session.id].reason = reason
<1> DEFINE win == snap.win
           id == session.id
           row == [rs[win][id] EXCEPT !.status = "closed", !.url = snap.url,
                                      !.urls = session.urls, !.trunc = session.trunc,
                                      !.closedAt = now, !.reason = reason]
           kept(r) == IF Expired(r, retention, now) THEN Deleted ELSE r
<1>1. /\ win \in Windows /\ rs[win] \in Seq(Row) /\ id \in DOMAIN rs[win]
      /\ rs[win][id] \in Row /\ rs[win][id].status = "open"
  BY DEF Snapshot, OpenRows
<1>2. /\ row \in Row /\ row.status = "closed" /\ row.closedAt = now /\ row.url = snap.url
      /\ row.reason = reason
  BY <1>1 DEF Row, Snapshot, Session, CloseReasons
<1>3. CloseRow(rs, session, snap, reason, now) = WithRow(rs, win, id, row)
  BY <1>1 DEF CloseRow, WithRow
<1>4. kept(row) = row
  BY <1>2 DEF Expired
<1> HIDE DEF row, win, id
<1> DEFINE mid == WithRow(rs, win, id, row)
<1>5. Prune(mid, retention, now) = [w \in Windows |-> [i \in DOMAIN mid[w] |-> kept(mid[w][i])]]
  BY DEF Prune, EachRow
<1>6. DOMAIN mid[win] = DOMAIN rs[win] /\ mid[win][id] = row
  BY <1>1, <1>2, OneRow
<1> HIDE DEF mid, kept
<1>7. Prune(mid, retention, now)[win][id] = row
  BY <1>1, <1>4, <1>5, <1>6
<1> QED BY <1>2, <1>3, <1>7 DEF mid, win, id

LEMMA HostClose ==
  ASSUME HostInv, WorkerInv', Final(rows, rows'), WorkerClose, UNCHANGED hostVars, UNCHANGED auxVars
  PROVE  HostInv'
<1> USE DEF HostInv
<1>1. /\ Takes("close") /\ UNCHANGED <<phase, config, day>> /\ WorkerInv /\ TypeOK
      /\ rows \in [Windows -> Seq(Row)] /\ day \in Nat /\ config.retention \in Nat
  BY DEF WorkerClose, WorkerInv, TypeOK
<1>2. Head(queue).snap \in Snapshot /\ Head(queue).reason \in CloseReasons
  BY <1>1, HeadCommand
<1>3. CASE Ignored(Head(queue)) /\ (~config.enabled \/ ~Tracked(Head(queue).snap.win))
  <2>1. ~Tracked(Head(queue).snap.win)
    BY <1>2, <1>3, UntrackedWhenDisabled DEF Snapshot
  <2> QED BY <1>1, <1>3, <2>1, IgnoredStep
<1>4. CASE Failed(Head(queue)) /\ StorageMayFail
  BY <1>1, <1>4, IgnoredStep
<1>5. CASE /\ Tracked(Head(queue).snap.win) /\ Answer(Head(queue), "ok")
           /\ rows' = Prune(CloseRow(rows, Observe(sessions[Head(queue).snap.win], Head(queue).snap),
                                     Head(queue).snap, Head(queue).reason, day), config.retention, day)
           /\ sessions' = [sessions EXCEPT ![Head(queue).snap.win] = NoSession]
  <2>1. PICK cmd : cmd = Head(queue)
    OBVIOUS
  <2>2. PICK w : w = cmd.snap.win
    OBVIOUS
  <2>3. PICK session : session = Observe(sessions[w], cmd.snap)
    OBVIOUS
  <2>4. /\ Tracked(w) /\ sessions' = [sessions EXCEPT ![w] = NoSession]
        /\ rows' = Prune(CloseRow(rows, session, cmd.snap, cmd.reason, day), config.retention, day)
    BY <1>5, <2>1, <2>2, <2>3
  <2>5. Serves /\ cmd.op = "close"
    BY <1>1, <1>5, <2>1, TakesServes
  <2>6. /\ w \in Windows /\ cmd.snap \in Snapshot /\ cmd.reason \in CloseReasons
        /\ session \in Session /\ session.id \in OpenRows(rows, w)
    BY <1>1, <1>2, <2>1, <2>2, <2>3, <2>4, Addressed DEF Snapshot
  <2>7. OpenRows(rows, w) = {session.id}
    BY <1>1, <2>4, <2>6 DEF WorkerInv, OpenMatch
  <2>8. /\ w \in DOMAIN final /\ cmd.snap = final[w] /\ w \notin DOMAIN registry
        /\ cmd.reason = "explicit" => w \in asked
        /\ cmd.reason = "destroyed" => w \in byUser
    <3>1. Meant(cmd)
      BY <2>1, <2>5, QueueIs
    <3> QED BY <2>2, <2>5, <3>1 DEF Meant, Onces
  <2>9. RowsEnd(rows, rows')
    BY <1>1, <2>2, <2>4, <2>6, CloseEnds
  <2>10. /\ rows'[w][session.id].status = "closed" /\ rows'[w][session.id].url = cmd.snap.url
         /\ rows'[w][session.id].reason = cmd.reason
    <3>1. PICK snap, reason, retention : snap = cmd.snap /\ reason = cmd.reason /\ retention = config.retention
      OBVIOUS
    <3>2. /\ session.id \in OpenRows(rows, snap.win) /\ snap \in Snapshot /\ reason \in CloseReasons
          /\ retention \in Nat /\ rows' = Prune(CloseRow(rows, session, snap, reason, day), retention, day)
      BY <1>1, <2>2, <2>4, <2>6, <3>1
    <3>3. /\ rows'[snap.win][session.id].status = "closed"
          /\ rows'[snap.win][session.id].url = snap.url
          /\ rows'[snap.win][session.id].reason = reason
      BY <1>1, <2>6, <3>2, ClosedRow
    <3> QED BY <2>2, <3>1, <3>3
  <2>11. ASSUME NEW v \in Windows, v # w
         PROVE  Kept(v)'
    <3>1. OpenRows(rows', v) = OpenRows(rows, v)
      <4>1. PICK snap, reason : snap = cmd.snap /\ reason = cmd.reason
        OBVIOUS
      <4>2. /\ session.id \in OpenRows(rows, snap.win) /\ v # snap.win /\ session \in Session
            /\ snap \in Snapshot /\ reason \in CloseReasons /\ day \in Nat
            /\ rows \in [Windows -> Seq(Row)]
        BY <1>1, <2>2, <2>6, <2>11, <4>1
      <4>3. /\ CloseRow(rows, session, snap, reason, day) \in [Windows -> Seq(Row)]
            /\ \A x \in Windows : OpenRows(CloseRow(rows, session, snap, reason, day), x) =
                  IF x = snap.win THEN OpenRows(rows, x) \ {session.id} ELSE OpenRows(rows, x)
        BY <4>2, CloseRows
      <4>4. PICK mid : mid = CloseRow(rows, session, snap, reason, day)
        OBVIOUS
      <4>5. mid \in [Windows -> Seq(Row)] /\ OpenRows(mid, v) = OpenRows(rows, v)
        BY <4>2, <4>3, <4>4
      <4> QED BY <1>1, <2>4, <4>1, <4>4, <4>5, PruneRows
    <3>2. Wanes(v)
      BY <2>9, <3>1, StaysOpen
    <3> QED BY <3>2, WaningRows DEF hostVars, auxVars
  <2>12. Kept(w)'
    <3>1. Kept(w) /\ DOMAIN rows'[w] = DOMAIN rows[w]
      BY <2>6, <2>9 DEF Tables, RowsEnd
    <3>2. UNCHANGED <<registry, final, asked, byUser>>
      BY DEF hostVars, auxVars
    <3>3. ASSUME NEW i \in DOMAIN rows[w], i # session.id
          PROVE  rows'[w][i] = rows[w][i] \/ rows'[w][i] = Deleted
      <4>1. rows[w][i].status # "open"
        BY <2>7, <3>3 DEF OpenRows
      <4> QED BY <2>6, <2>9, <4>1 DEF RowsEnd
    <3>4. session.id \in DOMAIN rows[w] /\ rows[w][session.id].status = "open"
      BY <2>6 DEF OpenRows
    <3>5. Deleted.status = "deleted" /\ Deleted.reason = "none" /\ "none" \notin CloseReasons
      BY DEF Deleted, CloseReasons
    <3>6. \A i, j \in DOMAIN rows'[w] : rows'[w][i].status # "deleted" /\ rows'[w][j].status # "deleted" => i = j
      <4>1. \A i \in DOMAIN rows'[w] : rows'[w][i].status # "deleted" => rows[w][i].status # "deleted"
        BY <3>1, <3>3, <3>4, <3>5
      <4> QED BY <3>1, <4>1 DEF Kept
    <3>7. ASSUME NEW i \in DOMAIN rows'[w]
          PROVE  /\ rows'[w][i].reason = "explicit" => w \in asked'
                 /\ rows'[w][i].reason = "destroyed" => w \in byUser'
                 /\ rows'[w][i].status = "closed" /\ rows'[w][i].reason \in CloseReasons =>
                      w \in DOMAIN final' /\ rows'[w][i].url = final'[w].url
      <4>1. CASE i = session.id
        BY <2>8, <2>10, <3>2, <4>1
      <4>2. CASE i # session.id /\ rows'[w][i] = rows[w][i]
        BY <3>1, <3>2, <4>2 DEF Kept
      <4>3. CASE i # session.id /\ rows'[w][i] = Deleted
        BY <3>5, <4>3
      <4> QED BY <3>1, <3>3, <4>1, <4>2, <4>3
    <3> QED BY <2>8, <3>2, <3>6, <3>7 DEF Kept
  <2>13. Spares /\ \A v \in Windows : native[v] = "unused" => rows'[v] = <<>>
    BY <2>9, SameRowsSpare DEF RowsEnd, hostVars
  <2>14. /\ \A v \in Windows : v # w => (Tracked(v)' <=> Tracked(v))
         /\ ~Tracked(w)'
    BY <1>1, <2>4, <2>6, TypesOfConstants DEF Tracked, TypeOK
  <2>15. \A v \in DOMAIN registry : v # w /\ v \in Windows
    BY <2>8 DEF HostTypes
  <2> QED BY <1>1, <2>1, <2>2, <2>5, <2>11, <2>12, <2>13, <2>14, <2>15, ServedStep
<1> QED BY <1>3, <1>4, <1>5 DEF WorkerClose, Outcomes

\* A row inserted for a window that left nothing in the table.
LEMMA InsertedRow ==
  ASSUME HostInv, UNCHANGED <<registry, asked, byUser, final>>, NEW w \in Windows, Blank(w),
         NEW row \in Row, row.status = "open", rows'[w] = Append(rows[w], row)
  PROVE  Kept(w)'
<1>1. rows[w] \in Seq(Row)
  BY DEF HostInv, WorkerInv, TypeOK
<1>2. PICK n : n = Len(rows[w])
  OBVIOUS
<1>3. /\ n \in Nat /\ DOMAIN rows[w] = 1..n /\ DOMAIN rows'[w] = 1..n + 1
      /\ rows'[w][n + 1] = row /\ \A i \in 1..n : rows'[w][i] = rows[w][i]
  BY <1>1, <1>2
<1>4. \A r \in Row : r.status # "closed" => r.reason = "none"
  BY DEF Row
<1>5. row.reason = "none" /\ "none" \notin CloseReasons
  BY <1>4 DEF CloseReasons
<1>6. ASSUME NEW i \in DOMAIN rows'[w], i # n + 1
      PROVE  rows'[w][i].status = "deleted" /\ rows'[w][i].reason = "none"
  <2>1. i \in DOMAIN rows[w] /\ rows'[w][i] = rows[w][i]
    BY <1>3, <1>6
  <2>2. rows[w][i].status = "deleted" /\ rows[w][i] \in Row
    BY <1>1, <2>1 DEF Blank
  <2> QED BY <1>4, <2>1, <2>2
<1>7. \A i \in DOMAIN rows'[w] : rows'[w][i].status # "closed" /\ rows'[w][i].reason = "none"
  BY <1>3, <1>5, <1>6
<1>8. \A i, j \in DOMAIN rows'[w] : rows'[w][i].status # "deleted" /\ rows'[w][j].status # "deleted" => i = j
  BY <1>6
<1> QED BY <1>5, <1>7, <1>8 DEF Kept

LEMMA HostOpen ==
  ASSUME HostInv, WorkerInv', Final(rows, rows'), WorkerOpen, UNCHANGED hostVars, UNCHANGED auxVars
  PROVE  HostInv'
<1> USE DEF HostInv
<1>1. /\ Takes("open") /\ UNCHANGED <<phase, config, day>> /\ TypeOK
      /\ rows \in [Windows -> Seq(Row)] /\ sessions \in [Windows -> Session]
  BY DEF WorkerOpen, WorkerInv, TypeOK
<1>2. CASE (Ignored(Head(queue)) /\ ~config.enabled) \/ Failed(Head(queue))
  BY <1>1, <1>2, IgnoredStep
<1>3. ASSUME config.enabled, NEW cmd, cmd = Head(queue), NEW w, w = cmd.snap.win,
             NEW session, session = NewSession(Len(rows[w]) + 1, cmd.snap, FALSE),
             rows' = [rows EXCEPT ![w] = Append(rows[w], NewRow(cmd.snap, session))],
             sessions' = [sessions EXCEPT ![w] = session], Answer(cmd, "ok")
      PROVE  HostInv'
  <2>1. /\ w \in Windows /\ cmd.snap \in Snapshot
    BY <1>1, <1>3, HeadCommand DEF Snapshot
  <2>2. session \in Session /\ session.id = Len(rows[w]) + 1 /\ Len(rows[w]) \in Nat
    <3>1. Len(rows[w]) \in Nat
      BY <1>1, <2>1
    <3>2. PICK n, snap : n = Len(rows[w]) + 1 /\ snap = cmd.snap
      OBVIOUS
    <3>3. session = NewSession(n, snap, FALSE) /\ snap \in Snapshot /\ n \in Nat
      BY <1>3, <2>1, <3>1, <3>2
    <3>4. session \in Session /\ session.id = n
      BY <3>3, NewSessionType
    <3> QED BY <3>1, <3>2, <3>4
  <2>3. PICK row \in Row : row = NewRow(cmd.snap, session) /\ row.status = "open"
    <3>1. PICK snap : snap = cmd.snap
      OBVIOUS
    <3>2. NewRow(snap, session) \in Row /\ NewRow(snap, session).status = "open"
      BY <2>1, <2>2, <3>1, NewRowType
    <3> QED BY <3>1, <3>2
  <2>4. Serves /\ cmd.op = "open"
    BY <1>1, <1>3, TakesServes
  <2>5. /\ Meant(cmd)
    BY <1>3, <2>4, QueueIs
  <2>6. PICK c : c = cmd.by
    OBVIOUS
  <2>7. /\ c \in Clients /\ Reads(task[c]) /\ task[c].win = w /\ Blank(w)
        /\ native[w] # "unused" /\ outcome[w] = "none"
    <3>1. /\ c \in Clients /\ task[c].at = "tracked" /\ task[c].win = w /\ Blank(w)
      BY <1>3, <2>4, <2>5, <2>6 DEF Meant
    <3>2. "tracked" \in Reading
      BY DEF Reading
    <3> QED BY <3>1, <3>2 DEF Threads, Holds, Reads
  <2>8. /\ \A v \in Windows : v # w => rows'[v] = rows[v] /\ (Tracked(v)' <=> Tracked(v))
        /\ rows'[w] = Append(rows[w], row) /\ Tracked(w)'
    <3>1. rows' = [rows EXCEPT ![w] = Append(rows[w], row)]
      BY <1>3, <2>3
    <3>2. sessions'[w] = session /\ session.id # 0 /\ \A v \in Windows : v # w => sessions'[v] = sessions[v]
      <4>1. session.id # 0
        BY <2>2
      <4>2. sessions \in [Windows -> Session] /\ sessions' = [sessions EXCEPT ![w] = session]
        BY <1>1, <1>3
      <4> QED BY <2>1, <4>1, <4>2
    <3> QED BY <1>1, <2>1, <3>1, <3>2 DEF Tracked
  <2>9. Spares
    <3>1. ASSUME NEW d \in Clients, Reads(task[d]), d # c
          PROVE  task[d].win # w /\ task[d].win \in Windows
      <4>1. Apart(task[c], task[d])
        BY <2>7, <3>1 DEF Locks
      <4> QED BY <2>7, <3>1, <4>1, Known DEF Apart, Reads
    <3>2. ASSUME NEW d \in Clients, Reads(task[d]), ~(Head(queue).op = "open" /\ Head(queue).by = d),
                 Blank(task[d].win)
          PROVE  Blank(task[d].win)'
      <4>1. d # c
        BY <1>3, <2>4, <2>6, <3>2
      <4>2. rows'[task[d].win] = rows[task[d].win] /\ task' = task
        BY <2>4, <2>8, <3>1, <3>2, <4>1 DEF Serves
      <4> QED BY <3>2, <4>2 DEF Blank
    <3> QED BY <3>2 DEF Spares
  <2>10. Kept(w)'
    BY <2>1, <2>3, <2>7, <2>8, InsertedRow DEF hostVars, auxVars
  <2>11. ASSUME NEW v \in Windows, v # w
         PROVE  Kept(v)'
    <3>1. Wanes(v)
      BY <2>8, <2>11 DEF Wanes
    <3> QED BY <3>1, WaningRows DEF hostVars, auxVars
  <2>12. \A v \in Windows : native[v] = "unused" => rows'[v] = <<>>
    BY <2>7, <2>8 DEF Onces
  <2>13. \A v \in DOMAIN registry : v \in Windows
    BY DEF HostTypes
  <2>14. /\ Head(queue).op = "open" /\ Head(queue).by = c
         /\ \A v \in Windows : Kept(v)'
    BY <1>3, <2>4, <2>6, <2>10, <2>11
  <2>15. \A v \in DOMAIN registry : config'.enabled => Tracked(v)' \/ (config.enabled /\ ~Tracked(v))
    BY <1>3, <2>8, <2>13
  <2>16. \A v \in Windows : Tracked(v)' =>
           \/ Tracked(v) /\ ~(Head(queue).op = "close" /\ Head(queue).snap.win = v)
           \/ v \in DOMAIN registry \/ outcome[v] # "ok"
    BY <2>7, <2>8, <2>14
  <2>17. \A d \in Clients : Head(queue).op = "open" /\ Head(queue).by = d /\ reply'[d] = "ok" /\ config'.enabled
           => Tracked(task[d].win)'
    <3>1. Tracked(task[c].win)'
      BY <2>4, <2>7, <2>8 DEF Tracked, Serves
    <3> QED BY <2>14, <3>1
  <2> QED BY <2>4, <2>9, <2>12, <2>14, <2>15, <2>16, <2>17, ServedStep
<1>4. ~((Ignored(Head(queue)) /\ ~config.enabled) \/ Failed(Head(queue))) => HostInv'
  <2> SUFFICES ASSUME ~((Ignored(Head(queue)) /\ ~config.enabled) \/ Failed(Head(queue)))
               PROVE  HostInv'
    OBVIOUS
  <2>1. PICK cmd : cmd = Head(queue)
    OBVIOUS
  <2>2. PICK w : w = cmd.snap.win
    OBVIOUS
  <2>3. PICK session : session = NewSession(Len(rows[w]) + 1, cmd.snap, FALSE)
    OBVIOUS
  <2>4. /\ config.enabled /\ Answer(cmd, "ok")
        /\ rows' = [rows EXCEPT ![w] = Append(rows[w], NewRow(cmd.snap, session))]
        /\ sessions' = [sessions EXCEPT ![w] = session]
    BY <2>1, <2>2, <2>3 DEF WorkerOpen
  <2> QED BY <1>3, <2>1, <2>2, <2>3, <2>4
<1> QED BY <1>2, <1>4

\* The list of active windows that waits at the head is the registry as it is.
LEMMA ListedIsRegistered ==
  ASSUME HostInv, NEW w \in Windows
  PROVE  /\ Enabled(ActiveWindows, w) # {} <=> w \in DOMAIN registry
         /\ \A snap \in Enabled(ActiveWindows, w) : snap \in Snapshot
<1>1. \A v \in DOMAIN registry : registry[v].win = v /\ registry[v] \in Records
  BY DEF HostInv, HostTypes
<1>2. Records \subseteq Snapshot
  BY HostAssumption, DbAssumption
<1>3. ASSUME w \in DOMAIN registry
      PROVE  registry[w] \in Enabled(ActiveWindows, w)
  BY <1>1, <1>3 DEF Enabled, ActiveWindows
<1> QED BY <1>1, <1>2, <1>3 DEF Enabled, ActiveWindows

\* What enabling does to a window, registered or not.
Listed(w) ==
  IF w \in DOMAIN registry
  THEN Tracked(w)' /\ \E row \in Row : row.status = "open" /\ rows'[w] = Append(rows[w], row)
  ELSE ~Tracked(w)' /\ rows'[w] = rows[w]

LEMMA HostEnables ==
  ASSUME HostInv, WorkerInv', Final(rows, rows'), Serves, Head(queue).op = "history", ~config.enabled,
         \A w \in Windows : Listed(w)
  PROVE  HostInv'
<1> USE DEF HostInv
<1>1. \A w \in DOMAIN registry : w \in Windows /\ Blank(w)
  <2>1. ASSUME NEW w \in DOMAIN registry
        PROVE  Blank(w)
    <3>1. w \in Windows /\ Kept(w) /\ OpenRows(rows, w) = {} /\ rows[w] \in Seq(Row)
      BY DEF HostTypes, Tables, WorkerInv, OpenMatch, TypeOK
    <3>2. \A i \in DOMAIN rows[w] : rows[w][i].status \in {"open", "closed", "deleted"}
      BY <3>1 DEF Row
    <3> QED BY <3>1, <3>2 DEF Blank, Kept, OpenRows
  <2> QED BY <2>1 DEF HostTypes
<1>2. \A c \in Clients : ~Reads(task[c])
  <2>1. PICK c \in Clients : task[c].at = "configuring" /\ task[c].next \in {"enable", "disable"}
    BY QueueIs DEF Meant
  <2>2. Writes(task[c]) /\ ~Reads(task[c])
    BY <2>1 DEF Writes, Reads, Reading
  <2> QED BY <2>2 DEF Locks, Apart
<1>3. Spares
  BY <1>2 DEF Spares
<1>4. UNCHANGED <<registry, asked, byUser, final>>
  BY DEF Serves
<1>5. ASSUME NEW w \in Windows
      PROVE  Kept(w)'
  <2>1. CASE w \in DOMAIN registry
    <3>1. PICK row \in Row : row.status = "open" /\ rows'[w] = Append(rows[w], row)
      BY <2>1 DEF Listed
    <3> QED BY <1>1, <1>4, <2>1, <3>1, InsertedRow
  <2>2. CASE w \notin DOMAIN registry
    <3>1. rows'[w] = rows[w]
      BY <2>2 DEF Listed
    <3>2. Wanes(w)
      BY <3>1 DEF Wanes
    <3> QED BY <1>4, <3>2, WaningRows
  <2> QED BY <2>1, <2>2
<1>6. \A w \in Windows : native[w] = "unused" => rows'[w] = <<>>
  BY DEF Onces, Listed
<1>7. \A w \in DOMAIN registry : Tracked(w)'
  BY <1>1 DEF Listed
<1>8. \A w \in Windows : Tracked(w)' => w \in DOMAIN registry
  BY DEF Listed
<1> QED BY <1>3, <1>5, <1>6, <1>7, <1>8, ServedStep

LEMMA HostHistory ==
  ASSUME HostInv, WorkerInv', Final(rows, rows'), WorkerSetHistory, UNCHANGED hostVars, UNCHANGED auxVars
  PROVE  HostInv'
<1> USE DEF HostInv
<1>1. /\ Takes("history") /\ UNCHANGED <<phase, day>> /\ TypeOK /\ rows \in [Windows -> Seq(Row)]
      /\ config \in [enabled: BOOLEAN, retention: Nat]
  BY DEF WorkerSetHistory, WorkerInv, TypeOK
<1>2. CASE UNCHANGED config /\ (Ignored(Head(queue)) \/ Failed(Head(queue)))
  BY <1>1, <1>2, IgnoredStep
<1>3. CASE ~(UNCHANGED config /\ (Ignored(Head(queue)) \/ Failed(Head(queue)))) /\ Head(queue).enabled
  <2> DEFINE active == Head(queue).active
             listed(w) == Enabled(active, w) # {}
             snapOf(w) == CHOOSE snap \in Enabled(active, w) : TRUE
             session(w) == NewSession(Len(rows[w]) + 1, snapOf(w), TRUE)
             row(w) == NewRow(snapOf(w), session(w))
  <2>1. /\ ~config.enabled /\ Answer(Head(queue), "ok")
        /\ rows' = [w \in Windows |-> IF listed(w) THEN Append(rows[w], row(w)) ELSE rows[w]]
        /\ sessions' = [w \in Windows |-> IF listed(w) THEN session(w) ELSE NoSession]
    BY <1>3 DEF WorkerSetHistory
  <2>2. Serves /\ Head(queue).op = "history"
    BY <1>1, <2>1, TakesServes
  <2>3. active = ActiveWindows
    BY <2>2, QueueIs DEF Meant
  <2>4. ASSUME NEW w \in Windows, listed(w)
        PROVE  session(w).id # 0 /\ row(w) \in Row /\ row(w).status = "open"
    <3>1. snapOf(w) \in Enabled(active, w)
      BY <2>4
    <3>2. snapOf(w) \in Snapshot /\ Len(rows[w]) + 1 \in Nat /\ Len(rows[w]) + 1 # 0
      BY <1>1, <2>3, <3>1, ListedIsRegistered
    <3> HIDE DEF snapOf
    <3>3. session(w) \in Session /\ session(w).id = Len(rows[w]) + 1
      BY <3>2, NewSessionType, Zenon
    <3> QED BY <3>2, <3>3, NewRowType
  <2> HIDE DEF listed, session, row
  <2>5. ASSUME NEW w \in Windows
        PROVE  Listed(w)
    <3>1. listed(w) <=> w \in DOMAIN registry
      BY <2>3, ListedIsRegistered DEF listed
    <3>2. CASE listed(w)
      <4>1. rows'[w] = Append(rows[w], row(w)) /\ sessions'[w] = session(w)
        BY <2>1, <3>2
      <4>2. Tracked(w)'
        BY <2>4, <3>2, <4>1 DEF Tracked
      <4>3. \E r \in Row : r.status = "open" /\ rows'[w] = Append(rows[w], r)
        BY <2>4, <3>2, <4>1
      <4> QED BY <3>1, <3>2, <4>2, <4>3 DEF Listed
    <3>3. CASE ~listed(w)
      <4>1. rows'[w] = rows[w] /\ sessions'[w] = NoSession
        BY <2>1, <3>3
      <4> QED BY <3>1, <3>3, <4>1, TypesOfConstants DEF Listed, Tracked
    <3> QED BY <3>2, <3>3
  <2> QED BY <2>1, <2>2, <2>5, HostEnables
<1>4. CASE ~(UNCHANGED config /\ (Ignored(Head(queue)) \/ Failed(Head(queue)))) /\ ~Head(queue).enabled
  <2>1. /\ rows' = DeleteStatus(rows, "open") /\ sessions' = [w \in Windows |-> NoSession]
        /\ config' = [config EXCEPT !.enabled = FALSE] /\ Answer(Head(queue), "ok")
    BY <1>4 DEF WorkerSetHistory
  <2>2. Serves /\ Head(queue).op = "history"
    BY <1>1, <2>1, TakesServes
  <2>3. \A w \in Windows : Wanes(w)
    <3>1. RowsDrop(rows, rows')
      BY <1>1, <2>1, DeleteEnds
    <3> QED BY <3>1, DropsWane
  <2>4. \A w \in Windows : ~Tracked(w)'
    BY <2>1, TypesOfConstants DEF Tracked
  <2>5. ~config'.enabled
    BY <1>1, <2>1
  <2> QED BY <2>2, <2>3, <2>4, <2>5, WaningStep
<1> QED BY <1>2, <1>3, <1>4

\* Day passes, or the worker starts: no command is taken and no thread moves.
LEMMA RestStep ==
  ASSUME HostInv, WorkerInv', Final(rows, rows'), UNCHANGED <<config, sessions, queue, reply>>,
         UNCHANGED hostVars, UNCHANGED auxVars, \A w \in Windows : Wanes(w),
         phase' = phase \/ (phase # "running" /\ phase' \in {"recovering", "running"})
  PROVE  HostInv'
<1> USE DEF HostInv
<1>1. UNCHANGED <<registry, native, reasons, gates, observed, task, outcome, asked, byUser, final>>
  BY DEF hostVars, auxVars
<1>2. \A w : Tracked(w)' <=> Tracked(w)
  BY DEF Tracked
<1>3. \A w \in Windows : Blank(w) => Blank(w)'
  BY DEF Blank, Wanes, Final
<1>4. HostTypes' /\ Causes' /\ Locks'
  BY <1>1 DEF HostTypes, Causes, Locks
<1>5. Quiescent'
  BY <1>1 DEF Quiescent
<1>6. Commands'
  <2>1. ActiveWindows' = ActiveWindows
    BY <1>1 DEF ActiveWindows
  <2>2. ASSUME NEW i \in DOMAIN queue'
        PROVE  Meant(queue[i])'
    <3>1. PICK cmd : cmd = queue[i]
      OBVIOUS
    <3>2. i \in DOMAIN queue /\ queue'[i] = cmd /\ Meant(cmd)
      BY <3>1 DEF Commands
    <3>3. cmd.op = "open" => Blank(cmd.snap.win)'
      <4>1. cmd.op = "open" => Blank(cmd.snap.win) /\ cmd.snap.win \in Windows
        <5>1. ASSUME cmd.op = "open"
              PROVE  Reads(task[cmd.by]) /\ cmd.by \in Clients /\ task[cmd.by].win = cmd.snap.win
          BY <3>2, <5>1 DEF Meant, Reads, Reading
        <5> QED BY <3>2, <5>1, Known DEF Meant, Reads
      <4> QED BY <1>3, <4>1 DEF Blank
    <3>4. Meant(cmd)'
      BY <1>1, <2>1, <3>2, <3>3 DEF Meant
    <3> QED BY <3>2, <3>4 DEF Meant, Blank
  <2> QED BY <2>2 DEF Commands
<1>7. Threads'
  <2>1. ASSUME NEW c \in Clients
        PROVE  Holds(task[c], reply[c])'
    <3>1. Holds(task[c], reply[c])
      BY DEF Threads
    <3>2. task[c].at \in Unsent => task[c].win \in Windows
      BY Known DEF Unsent, Reading
    <3>3. task[c].at \in Unsent => Blank(task[c].win)'
      BY <1>1, <1>3, <3>1, <3>2 DEF Holds, Blank
    <3> QED BY <1>1, <1>2, <3>1, <3>3 DEF Holds, Blank, Tracked
  <2> QED BY <2>1 DEF Threads
<1>8. Onces'
  <2>1. \A w \in Windows : native[w] = "unused" => rows'[w] = <<>>
    BY <1>1, SameRowsSpare DEF Wanes
  <2> QED BY <1>1, <2>1 DEF Onces
<1>9. Tables'
  BY <1>1, WaningRows DEF Tables
<1>10. Tracks' /\ Ghosts'
  BY <1>1, <1>2 DEF Tracks, Ghosts
<1> QED BY <1>4, <1>5, <1>6, <1>7, <1>8, <1>9, <1>10

\* Recovery closes the rows of windows that are gone, for a reason of its own.
LEMMA HostRecover ==
  ASSUME HostInv, WorkerInv', Final(rows, rows'), Recover, UNCHANGED hostVars, UNCHANGED auxVars
  PROVE  HostInv'
<1>1. /\ phase = "down" /\ phase' = "recovering" /\ rows' = CloseAbruptly(rows, day)
      /\ UNCHANGED <<config, sessions, queue, reply>> /\ rows \in [Windows -> Seq(Row)]
  BY DEF Recover, HostInv, WorkerInv, TypeOK
<1>2. DOMAIN registry = {}
  BY <1>1 DEF HostInv, Quiescent
<1>3. ASSUME NEW w \in Windows
      PROVE  Wanes(w)
  <2> DEFINE abrupt(r) == IF r.status = "open"
                          THEN [r EXCEPT !.status = "closed", !.closedAt = day, !.reason = "abrupt"]
                          ELSE r
  <2>1. rows' = [v \in Windows |-> [i \in DOMAIN rows[v] |-> abrupt(rows[v][i])]]
    BY <1>1 DEF CloseAbruptly, EachRow
  <2>2. \A r \in Row : r.status = "open" => abrupt(r).reason = "abrupt"
    BY DEF Row
  <2>3. \A i \in DOMAIN rows[w] : rows[w][i] \in Row
    BY <1>1
  <2> HIDE DEF abrupt
  <2> QED BY <1>2, <2>1, <2>2, <2>3 DEF Wanes
<1> QED BY <1>1, <1>3, RestStep

LEMMA HostRest ==
  ASSUME HostInv, WorkerInv', Final(rows, rows'), RecoverPrune \/ Tick, UNCHANGED hostVars, UNCHANGED auxVars
  PROVE  HostInv'
<1>1. CASE Tick
  <2>1. UNCHANGED <<phase, config, rows, sessions, queue, reply>>
    BY <1>1 DEF Tick
  <2> QED BY <2>1, SameRowsWane, RestStep
<1>2. CASE RecoverPrune
  <2>1. /\ phase = "recovering" /\ phase' = "running" /\ rows' = Prune(rows, config.retention, day)
        /\ UNCHANGED <<config, sessions, queue, reply>>
        /\ rows \in [Windows -> Seq(Row)] /\ config.retention \in Nat /\ day \in Nat
    BY <1>2 DEF RecoverPrune, HostInv, WorkerInv, TypeOK
  <2>2. RowsEnd(rows, rows') /\ \A w \in Windows : OpenRows(rows', w) = OpenRows(rows, w)
    BY <2>1, PruneEnds, PruneRows
  <2>3. \A w \in Windows : Wanes(w)
    BY <2>2, StaysOpen
  <2> QED BY <2>1, <2>3, RestStep
<1> QED BY <1>1, <1>2

\* No one aborts or shuts down: those commands never wait in the queue.
LEMMA HostWorker ==
  ASSUME HostInv, WorkerInv', Final(rows, rows'), Worker, UNCHANGED hostVars, UNCHANGED auxVars
  PROVE  HostInv'
<1>1. ~WorkerAbort /\ ~WorkerShutdown
  <2>1. ASSUME WorkerAbort \/ WorkerShutdown
        PROVE  FALSE
    <3>1. queue # <<>> /\ Head(queue).op \in {"abort", "shutdown"} /\ queue \in Seq(Command)
      BY <2>1 DEF WorkerAbort, WorkerShutdown, Takes, HostInv, WorkerInv, TypeOK
    <3>2. Head(queue) = queue[1] /\ 1 \in DOMAIN queue
      BY <3>1
    <3> QED BY <3>1, <3>2 DEF HostInv, Commands, Meant
  <2> QED BY <2>1
<1> QED BY <1>1, HostOpen, HostSync, HostClose, HostClear, HostHistory, HostRetention DEF Worker

-----------------------------------------------------------------------------
(* Every step, and what follows *)

LEMMA OpenKeeps == ASSUME HostInv, WorkerInv', NEW c \in Clients, Open(c) PROVE HostInv'
BY OpenCallStep, OpenAbandonedStep, OpenFailSteps, OpenShowStep, OpenStatusStep, OpenTrackStep,
   OpenActivateStep, OpenReplayStep, OpenReplayedStep, OpenReturnsStep DEF Open

LEMMA CloseKeeps == ASSUME HostInv, WorkerInv', NEW c \in Clients, Close(c) PROVE HostInv'
BY CloseCallStep, CloseTargetStep, CloseMarkStep, CloseDestroyStep, CloseRemoveStep DEF Close

LEMMA InspectKeeps == ASSUME HostInv, WorkerInv', NEW c \in Clients, Inspect(c) PROVE HostInv'
BY RefreshCallStep, StatusCallStep, RefreshOneStep, RefreshSyncStep, ListReturnsStep, StatusSnapshotStep,
   StatusSyncStep, ClearCallStep, ConfigSteps, AnsweredStep DEF Inspect

LEMMA HostNextStep == HostInv /\ [HostNext]_vars => HostInv'
<1> SUFFICES ASSUME HostInv, [HostNext]_vars PROVE HostInv'
  OBVIOUS
<1>1. WorkerInv' /\ Final(rows, rows')
  BY HostStepIsWorkerStep, NextStep DEF HostInv, StepOK
<1>2. CASE DbStep
  BY <1>1, <1>2, HostRecover, HostRest, HostWorker DEF DbStep
<1>3. CASE HostCrash
  BY <1>1, <1>3, HostCrashStep
<1>4. ASSUME NEW c \in Clients, Open(c) \/ Close(c) \/ Inspect(c)
      PROVE  HostInv'
  BY <1>1, <1>4, OpenKeeps, CloseKeeps, InspectKeeps
<1>5. ASSUME NEW w \in Windows, UserDestroys(w) \/ DestroyedEvent(w) \/ PageEvent(w)
      PROVE  HostInv'
  BY <1>1, <1>5, UserDestroysStep, DestroyedEventStep, PageEventStep
<1>6. CASE PageSync
  BY <1>1, <1>6, PageSyncStep
<1>7. CASE UNCHANGED vars
  <2>1. UNCHANGED <<phase, config, rows, sessions, queue, reply>> /\ UNCHANGED hostVars /\ UNCHANGED auxVars
    BY <1>7 DEF vars, dbVars
  <2> QED BY <1>1, <2>1, SameRowsWane, RestStep
<1> QED BY <1>2, <1>3, <1>4, <1>5, <1>6, <1>7 DEF HostNext

LEMMA HostStarts == HostInit => HostInv
<1> SUFFICES ASSUME HostInit PROVE HostInv
  OBVIOUS
<1>1. WorkerInv
  BY InitInv DEF HostInit
<1>2. /\ phase = "down" /\ queue = <<>> /\ DOMAIN registry = {} /\ DOMAIN final = {}
      /\ observed = {} /\ asked = {} /\ reasons = {}
      /\ native = [w \in Windows |-> "unused"] /\ task = [c \in Clients |-> Idle]
      /\ reply = [c \in Clients |-> "idle"] /\ rows = [w \in Windows |-> <<>>]
      /\ outcome = [w \in Windows |-> "none"] /\ sessions = [w \in Windows |-> NoSession]
  BY DEF HostInit, Init, NoRecords
<1>3. HostTypes
  BY <1>2, IdleIs DEF HostInit, HostTypes
<1>4. Quiescent /\ Commands /\ Causes /\ Onces /\ Tracks
  BY <1>2 DEF Quiescent, Commands, Causes, Onces, Tracks
<1>5. Threads
  <2>1. ASSUME NEW c \in Clients
        PROVE  Holds(task[c], reply[c])
    <3>1. task[c] = Idle /\ reply[c] = "idle"
      BY <1>2
    <3> QED BY <3>1, IdleIs DEF Holds, Reading, Unsent, Settled, Closing, Waiting
  <2> QED BY <2>1 DEF Threads
<1>6. Locks
  BY <1>2, IdleIs DEF Locks, Apart
<1>7. Tables
  BY <1>2 DEF Tables, Kept
<1>8. Ghosts
  BY <1>2, TypesOfConstants DEF Ghosts, Tracked
<1> QED BY <1>1, <1>3, <1>4, <1>5, <1>6, <1>7, <1>8 DEF HostInv

\* In every state the manager can reach, HostInv holds.
LEMMA HostInvariant == HostSpec => []HostInv
<1>1. HostInit => HostInv
  BY HostStarts
<1>2. HostInv /\ [HostNext]_vars => HostInv'
  BY HostNextStep
<1> QED BY <1>1, <1>2, PTL DEF HostSpec

\* To the database worker the window manager is one of the clients its own
\* specification allows: each step of the two together is a step of the worker, of one
\* client, or a command without a client.  So what is proved of the worker alone
\* holds of the two, and opens, closes and settings go only where a client may send.
THEOREM ManagerIsClient == HostSpec => WorkerSpec
<1>1. HostInit => Init
  BY DEF HostInit
<1>2. HostInv /\ [HostNext]_vars => [Next]_dbVars
  BY HostStepIsWorkerStep
<1> QED BY <1>1, <1>2, HostInvariant, PTL DEF HostSpec, WorkerSpec, Spec

\* The registry holds records of its own windows, one page event at most waits to be
\* synced, and no thread that has returned still waits for the worker.
THEOREM HostTypesHold == HostSpec => []HostTypeOK
<1>1. HostInv => HostTypeOK
  <2> SUFFICES ASSUME HostInv PROVE HostTypeOK
    OBVIOUS
  <2>1. Records \subseteq Snapshot
    BY HostAssumption, DbAssumption
  <2>2. observed \subseteq Snapshot /\ Cardinality(observed) <= 1
    <3>1. CASE observed = {}
      BY <3>1, FS_EmptySet
    <3>2. ASSUME NEW snap \in Records, observed = {snap}
          PROVE  observed \subseteq Snapshot /\ Cardinality(observed) <= 1
      BY <2>1, <3>2, FS_Singleton
    <3> QED BY <3>1, <3>2 DEF HostInv, HostTypes
  <2>3. \A c \in Clients : task[c] = Idle => reply[c] # "waiting"
    BY IdleIs DEF HostInv, Threads, Holds, Waiting
  <2> QED BY <2>1, <2>2, <2>3 DEF HostInv, HostTypes, HostTypeOK
<1> QED BY <1>1, HostInvariant, PTL

\* While history is enabled, every window whose open has returned and that is still
\* registered has an active session, whatever enables and disables ran beside the
\* open: the replay closes the gap the setting may have opened.
THEOREM OpenIsTracked == HostSpec => []TrackedWhileOpen
<1>1. HostInv => TrackedWhileOpen
  BY DEF HostInv, Tracks, TrackedWhileOpen
<1> QED BY <1>1, HostInvariant, PTL

\* When no statement fails, no window whose open succeeded keeps its session after the
\* registry has let go of it, unless its close is still in the queue.  (A close that
\* the storage refuses leaves the session to the next startup.)
THEOREM NoGhosts == HostSpec => [](~StorageMayFail => NoGhostSession)
<1>1. HostInv => (~StorageMayFail => NoGhostSession)
  BY DEF HostInv, Ghosts, NoGhostSession
<1> QED BY <1>1, HostInvariant, PTL

\* A row that an explicit or a user's close ended shows the page the registry held
\* when it let go of the window, whatever older syncs arrive around the close.
THEOREM FinalStatesAreRecorded == HostSpec => []FinalStateRecorded
<1>1. HostInv => FinalStateRecorded
  BY DEF HostInv, Tables, Kept, FinalStateRecorded
<1> QED BY <1>1, HostInvariant, PTL

\* The reason in a row is true: explicit only after a client asked for that window,
\* destroyed only when its user closed it, whoever wins the race to remove it.
THEOREM ReasonsAreTruthful == HostSpec => []ReasonTruthful
<1>1. HostInv => ReasonTruthful
  BY DEF HostInv, Tables, Kept, ReasonTruthful
<1> QED BY <1>1, HostInvariant, PTL

\* A window leaves one row at most, open or closed: the open, the replay and the
\* enabling of history never insert a second one.
THEOREM OneRowIsLeft == HostSpec => []OneRowPerWindow
<1>1. HostInv => OneRowPerWindow
  <2> SUFFICES ASSUME HostInv, NEW w \in Windows
               PROVE  Cardinality({i \in DOMAIN rows[w] : rows[w][i].status # "deleted"}) <= 1
    BY DEF OneRowPerWindow
  <2> DEFINE left == {i \in DOMAIN rows[w] : rows[w][i].status # "deleted"}
  <2>1. \A i, j \in left : i = j
    BY DEF HostInv, Tables, Kept
  <2> HIDE DEF left
  <2>2. CASE left = {}
    BY <2>2, FS_EmptySet DEF left
  <2>3. ASSUME NEW i \in left
        PROVE  Cardinality(left) <= 1
    <3>1. left = {i}
      BY <2>1, <2>3
    <3>2. Cardinality({i}) = 1
      BY FS_Singleton
    <3> QED BY <3>1, <3>2
  <2> QED BY <2>2, <2>3 DEF left
<1> QED BY <1>1, HostInvariant, PTL
=============================================================================
