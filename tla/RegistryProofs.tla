--------------------------- MODULE RegistryProofs ---------------------------
(***************************************************************************)
(* Proofs about Registry, for every set of windows, words, clients and     *)
(* mixes: once everything is handled the registry agrees with the display, *)
(* and a resolved target is the one that was meant.  RegistryInv says what *)
(* lies between: Ranks ties a window's order to its place in the history   *)
(* of focus; Moves says that the events still queued lead from the focus   *)
(* the registry has to the one the toolkit has; Shows, that at most one    *)
(* request is about to record a window's state, and it records what is     *)
(* shown; Stores and OpensHold, that a copy on its way to the worker is    *)
(* the record's.                                                           *)
(* For each part, lemmas say which steps keep it; one lemma per action     *)
(* joins them.                                                             *)
(***************************************************************************)
EXTENDS Registry, FiniteSetTheorems, SequenceTheorems, WellFoundedInduction, TLAPS

-----------------------------------------------------------------------------
(* Registry: the inductive invariant *)

Events == [w : Windows, kind : {"focus", "blur", "destroyed"}]
Copies == [w : Windows, desc : Descs]
Todos ==
  {<<>>, <<"set_focus", "record_focus">>, <<"record_focus">>, <<"tag">>,
   <<"maximize", "record_maximize">>, <<"record_maximize">>,
   <<"minimize", "record_minimize">>, <<"record_minimize">>, <<"destroy", "remove">>, <<"remove">>,
   <<"unmaximize", "record_unmaximized", "unminimize", "record_unminimized">>,
   <<"record_unmaximized", "unminimize", "record_unminimized">>,
   <<"unminimize", "record_unminimized">>, <<"record_unminimized">>}
TaskType ==
  [op : Ops, desc : Descs, left : Seq(Selectors), w : Windows \union {NoWindow}, todo : Todos]
Registries == UNION {[known -> WindowRecords] : known \in SUBSET Windows}

RegistryTypes ==
  /\ windows \in Registries /\ IsFiniteSet(Known) /\ counter \in Nat /\ recent \in Seq(Windows)
  /\ tasks \in [Clients -> TaskType]

OutsideTypes ==
  /\ native \in [Windows -> {"unborn", "alive", "gone"}] /\ front \in Windows \union {NoWindow}
  /\ shown \in [Windows -> States] /\ pending \in Seq(Events)
  /\ snapshot \in Seq(Copies) /\ Len(snapshot) <= 1 /\ saved \in [Windows -> Descs]
  /\ overtaken \in BOOLEAN /\ mixed \subseteq Windows /\ stale \subseteq Windows /\ offered \in Mixes

\* A request acts on a window that was opened.
TasksLive ==
  \A c \in Clients : tasks[c].todo # <<>> => tasks[c].w \in Windows /\ native[tasks[c].w] # "unborn"

\* Nothing is known of a window before it is opened.
RecordsLive ==
  /\ \A w \in Known : native[w] # "unborn"
  /\ \A w \in Windows : native[w] = "unborn" => shown[w] = "normal" /\ \A i \in DOMAIN recent : recent[i] # w
  /\ snapshot # <<>> => native[snapshot[1].w] # "unborn"

\* A window that has the focus is alive.
EventsLive == front # NoWindow => native[front] = "alive"

Lives == TasksLive /\ RecordsLive /\ EventsLive

\* A window's order says where its latest focus is in the history.
Ranked(w) ==
  LET r == windows[w]  first == counter + 1 - r.order IN
  /\ r.order <= counter /\ (r.focused => r.order = counter /\ counter > 0)
  /\ r.order = 0 => \A i \in DOMAIN recent : recent[i] # w
  /\ r.order > 0 => recent[first] = w /\ \A j \in 1..first - 1 : recent[j] # w
Ranks == Len(recent) = counter /\ \A w \in Known : Ranked(w)

Agrees(max, min, state) == (max <=> state = "maximized") /\ (min <=> state = "minimized")
MaxAfter(max, step) == step = "record_maximize" \/ (step = "record_unminimized" /\ max)
MinAfter(min, step) == step = "record_minimize" \/ (step = "record_unmaximized" /\ min)
Puts(c, w) == tasks[c].todo # <<>> /\ tasks[c].w = w /\ Head(tasks[c].todo) \in StateRecords

\* At most one request is about to record a state of a window, and it records what is shown.
Shows(w) ==
  /\ (\A c \in Clients : ~Puts(c, w)) => Agrees(windows[w].max, windows[w].min, shown[w])
  /\ \A c \in Clients : Puts(c, w) =>
       /\ LET step == Head(tasks[c].todo) IN
          Agrees(MaxAfter(windows[w].max, step), MinAfter(windows[w].min, step), shown[w])
       /\ \A d \in Clients \ {c} : ~Puts(d, w)
Shown == \A w \in Known \ mixed : Shows(w)

\* What is stored of a tracked window, or will be when the copy is, is what the registry has.
Stores(w) ==
  IF snapshot # <<>> /\ snapshot[1].w = w THEN snapshot[1].desc = windows[w].desc
  ELSE Tracked(w) => saved[w] = windows[w].desc
Stored == \A w \in Known \ stale : Stores(w)

\* An open begins with the window, and what it read of the record is still there.
OpenTypes == opening \in [Windows -> OpenSteps \union OpenEnds] /\ copied \in [Windows -> Descs]
OpensHold ==
  /\ OpenTypes
  /\ \A w \in Windows :
       /\ opening[w] = "unborn" <=> native[w] = "unborn"
       /\ opening[w] = "track" /\ w \in Known \ stale => copied[w] = windows[w].desc

\* The events still to be handled lead to the focus of the toolkit.
Clears(i, w) == pending[i].w = w /\ pending[i].kind \in {"blur", "destroyed"}
Focuses(i, w) == pending[i].w = w /\ pending[i].kind = "focus"
Away(w) ==
  /\ w \in Known /\ ~overtaken /\ windows[w].focused => \E i \in DOMAIN pending : Clears(i, w)
  /\ \A i \in DOMAIN pending : Focuses(i, w) => \E j \in DOMAIN pending : i < j /\ Clears(j, w)
Here(w) ==
  /\ overtaken \/ windows[w].focused \/ \E i \in DOMAIN pending : Focuses(i, w)
  /\ \A i \in DOMAIN pending : pending[i].kind = "blur" /\ pending[i].w = w
       => \E j \in DOMAIN pending : i < j /\ Focuses(j, w)
  /\ \A i \in DOMAIN pending : pending[i].kind = "focus" /\ pending[i].w # w
       => \E j \in DOMAIN pending : i < j /\ Focuses(j, w)
Moves ==
  /\ \A w \in Windows \ {front} : Away(w)
  /\ front \in Known => Here(front)

RegistryInv == RegistryTypes /\ OutsideTypes /\ Lives /\ Ranks /\ Shown /\ Stored /\ OpensHold /\ Moves

LEMMA AssumedRegistry ==
  /\ Text \in [Windows -> SUBSET Words] /\ NoWindow \notin Windows /\ Untagged \notin Words
  /\ Described \in [Windows -> SUBSET Descs]
  /\ Mixes \subseteq [Clients \union {User} -> SUBSET (Ops \union Ways)] /\ MaxFocus \in Nat
BY RegistryAssumption DEF Descs

(* What a request has still to do. *)

RecordOf(step) ==
  CASE step = "maximize" -> "record_maximize" [] step = "minimize" -> "record_minimize"
    [] step = "unmaximize" -> "record_unmaximized" [] step = "unminimize" -> "record_unminimized"

Steps == NativeCalls \union StateRecords \union {"record_focus", "tag", "remove"}

LEMMA StepsApart ==
  /\ StateCalls \intersect StateRecords = {} /\ StateCalls \subseteq NativeCalls
  /\ NativeCalls \intersect StateRecords = {} /\ NativeCalls \intersect {"record_focus", "tag", "remove"} = {}
  /\ StateRecords \intersect {"record_focus", "tag", "remove"} = {}
BY DEF StateCalls, NativeCalls, StateRecords

LEMMA ShortTails ==
  /\ \A a : <<a>> # <<>> /\ Head(<<a>>) = a /\ Tail(<<a>>) = <<>>
  /\ \A a, b : <<a, b>> # <<>> /\ Head(<<a, b>>) = a /\ Tail(<<a, b>>) = <<b>>
  /\ \A a, b, d : <<a, b, d>> # <<>> /\ Head(<<a, b, d>>) = a /\ Tail(<<a, b, d>>) = <<b, d>>
  /\ \A a, b, d, e : <<a, b, d, e>> # <<>> /\ Head(<<a, b, d, e>>) = a /\ Tail(<<a, b, d, e>>) = <<b, d, e>>
OBVIOUS

LEMMA TodoStep ==
  ASSUME NEW t \in Todos, t # <<>>
  PROVE
    \/ t = <<"set_focus", "record_focus">> /\ Head(t) = "set_focus" /\ Tail(t) = <<"record_focus">>
    \/ t = <<"record_focus">> /\ Head(t) = "record_focus" /\ Tail(t) = <<>>
    \/ t = <<"tag">> /\ Head(t) = "tag" /\ Tail(t) = <<>>
    \/ t = <<"maximize", "record_maximize">> /\ Head(t) = "maximize" /\ Tail(t) = <<"record_maximize">>
    \/ t = <<"record_maximize">> /\ Head(t) = "record_maximize" /\ Tail(t) = <<>>
    \/ t = <<"minimize", "record_minimize">> /\ Head(t) = "minimize" /\ Tail(t) = <<"record_minimize">>
    \/ t = <<"record_minimize">> /\ Head(t) = "record_minimize" /\ Tail(t) = <<>>
    \/ t = <<"destroy", "remove">> /\ Head(t) = "destroy" /\ Tail(t) = <<"remove">>
    \/ t = <<"remove">> /\ Head(t) = "remove" /\ Tail(t) = <<>>
    \/ t = <<"unmaximize", "record_unmaximized", "unminimize", "record_unminimized">> /\ Head(t) = "unmaximize" /\ Tail(t) = <<"record_unmaximized", "unminimize", "record_unminimized">>
    \/ t = <<"record_unmaximized", "unminimize", "record_unminimized">> /\ Head(t) = "record_unmaximized" /\ Tail(t) = <<"unminimize", "record_unminimized">>
    \/ t = <<"unminimize", "record_unminimized">> /\ Head(t) = "unminimize" /\ Tail(t) = <<"record_unminimized">>
    \/ t = <<"record_unminimized">> /\ Head(t) = "record_unminimized" /\ Tail(t) = <<>>
<1>1. CASE t = <<"set_focus", "record_focus">>
  BY <1>1, ShortTails
<1>2. CASE t = <<"record_focus">>
  BY <1>2, ShortTails
<1>3. CASE t = <<"tag">>
  BY <1>3, ShortTails
<1>4. CASE t = <<"maximize", "record_maximize">>
  BY <1>4, ShortTails
<1>5. CASE t = <<"record_maximize">>
  BY <1>5, ShortTails
<1>6. CASE t = <<"minimize", "record_minimize">>
  BY <1>6, ShortTails
<1>7. CASE t = <<"record_minimize">>
  BY <1>7, ShortTails
<1>8. CASE t = <<"destroy", "remove">>
  BY <1>8, ShortTails
<1>9. CASE t = <<"remove">>
  BY <1>9, ShortTails
<1>10. CASE t = <<"unmaximize", "record_unmaximized", "unminimize", "record_unminimized">>
  BY <1>10, ShortTails
<1>11. CASE t = <<"record_unmaximized", "unminimize", "record_unminimized">>
  BY <1>11, ShortTails
<1>12. CASE t = <<"unminimize", "record_unminimized">>
  BY <1>12, ShortTails
<1>13. CASE t = <<"record_unminimized">>
  BY <1>13, ShortTails
<1> QED BY <1>1, <1>2, <1>3, <1>4, <1>5, <1>6, <1>7, <1>8, <1>9, <1>10, <1>11, <1>12, <1>13 DEF Todos

LEMMA TodoFirst ==
  ASSUME NEW t \in Todos, t # <<>>
  PROVE  Head(t) \in Steps /\ Tail(t) \in Todos
<1>1. Head(t) \in Steps
  BY TodoStep DEF Steps, NativeCalls, StateCalls, StateRecords
<1>2. Tail(t) \in Todos
  BY TodoStep DEF Todos
<1> QED BY <1>1, <1>2

LEMMA TodoSecond ==
  ASSUME NEW t \in Todos, t # <<>>
  PROVE  /\ Head(t) = "set_focus" => Tail(t) # <<>> /\ Head(Tail(t)) = "record_focus"
         /\ Head(t) = "destroy" => Tail(t) # <<>> /\ Head(Tail(t)) = "remove"
         /\ Head(t) \in StateCalls => Tail(t) # <<>> /\ Head(Tail(t)) = RecordOf(Head(t))
         /\ Head(t) \in StateRecords /\ Tail(t) # <<>> => Head(Tail(t)) \in StateCalls
         /\ Head(t) \in {"record_focus", "tag", "remove"} => Tail(t) = <<>>
<1>1. ASSUME Head(t) = "set_focus" PROVE Tail(t) # <<>> /\ Head(Tail(t)) = "record_focus"
  <2>1. Tail(t) = <<"record_focus">>
    BY <1>1, TodoStep
  <2> QED BY <2>1, ShortTails
<1>2. ASSUME Head(t) = "destroy" PROVE Tail(t) # <<>> /\ Head(Tail(t)) = "remove"
  <2>1. Tail(t) = <<"remove">>
    BY <1>2, TodoStep
  <2> QED BY <2>1, ShortTails
<1>3. ASSUME Head(t) \in StateCalls PROVE Tail(t) # <<>> /\ Head(Tail(t)) = RecordOf(Head(t))
  <2>1. \/ Head(t) = "maximize" /\ Tail(t) = <<"record_maximize">>
        \/ Head(t) = "minimize" /\ Tail(t) = <<"record_minimize">>
        \/ Head(t) = "unmaximize" /\ Tail(t) = <<"record_unmaximized", "unminimize", "record_unminimized">>
        \/ Head(t) = "unminimize" /\ Tail(t) = <<"record_unminimized">>
    BY <1>3, TodoStep DEF StateCalls
  <2>2. CASE Head(t) = "maximize"
    BY <2>1, <2>2, ShortTails DEF RecordOf
  <2>3. CASE Head(t) = "minimize"
    BY <2>1, <2>3, ShortTails DEF RecordOf
  <2>4. CASE Head(t) = "unmaximize"
    <3>1. Tail(t) = <<"record_unmaximized", "unminimize", "record_unminimized">>
      BY <2>1, <2>4
    <3>2. \A s : s = <<"record_unmaximized", "unminimize", "record_unminimized">> =>
            Head(s) = "record_unmaximized" /\ s # <<>>
      BY ShortTails
    <3> QED BY <2>4, <3>1, <3>2 DEF RecordOf
  <2>5. CASE Head(t) = "unminimize"
    BY <2>1, <2>5, ShortTails DEF RecordOf
  <2> QED BY <2>1, <2>2, <2>3, <2>4, <2>5
<1>4. ASSUME Head(t) \in StateRecords, Tail(t) # <<>> PROVE Head(Tail(t)) \in StateCalls
  <2>1. Tail(t) = <<"unminimize", "record_unminimized">>
    BY <1>4, TodoStep DEF StateRecords
  <2>2. Head(Tail(t)) = "unminimize"
    <3>1. \A s : s = <<"unminimize", "record_unminimized">> => Head(s) = "unminimize"
      BY ShortTails
    <3> QED BY <2>1, <3>1
  <2> QED BY <2>2 DEF StateCalls
<1>5. ASSUME Head(t) \in {"record_focus", "tag", "remove"} PROVE Tail(t) = <<>>
  BY <1>5, TodoStep
<1> QED BY <1>1, <1>2, <1>3, <1>4, <1>5

LEMMA ScriptIs ==
  ASSUME NEW op \in Ops
  PROVE  /\ Script(op) \in Todos /\ Script(op) # <<>>
         /\ Head(Script(op)) \in NativeCalls \union {"tag"}
BY DEF Ops, Script, Todos, NativeCalls, StateCalls

LEMMA NoTodo == <<>> \in Todos /\ Todos \subseteq Seq(Steps)
<1>1. <<>> \in Todos
  BY DEF Todos
<1>2. ASSUME NEW t \in Todos PROVE t \in Seq(Steps)
  <2>1. StateRecords \union StateCalls \union {"set_focus", "destroy", "record_focus", "tag", "remove"} \subseteq Steps
    BY DEF Steps, NativeCalls
  <2>2. {"maximize", "minimize", "unmaximize", "unminimize", "record_maximize", "record_minimize",
         "record_unmaximized", "record_unminimized"} \subseteq Steps
    BY <2>1 DEF StateRecords, StateCalls
  <2>3. \A a \in Steps : <<a>> \in Seq(Steps)
    OBVIOUS
  <2>4. \A a, b \in Steps : <<a, b>> \in Seq(Steps)
    OBVIOUS
  <2>5. \A a, b, d \in Steps : <<a, b, d>> \in Seq(Steps)
    OBVIOUS
  <2>6. \A a, b, d, e \in Steps : <<a, b, d, e>> \in Seq(Steps)
    OBVIOUS
  <2>7. <<>> \in Seq(Steps)
    OBVIOUS
  <2>8. CASE t = <<>>
    BY <2>7, <2>8
  <2>9. CASE t # <<>>
    <3>1. "set_focus" \in Steps /\ "record_focus" \in Steps /\ "tag" \in Steps /\ "destroy" \in Steps /\ "remove" \in Steps
      BY <2>1
    <3>2. /\ "maximize" \in Steps /\ "record_maximize" \in Steps /\ "minimize" \in Steps /\ "record_minimize" \in Steps
          /\ "unmaximize" \in Steps /\ "record_unmaximized" \in Steps
          /\ "unminimize" \in Steps /\ "record_unminimized" \in Steps
      BY <2>2
    <3>3. /\ <<"record_focus">> \in Seq(Steps) /\ <<"tag">> \in Seq(Steps) /\ <<"remove">> \in Seq(Steps)
          /\ <<"record_maximize">> \in Seq(Steps) /\ <<"record_minimize">> \in Seq(Steps)
          /\ <<"record_unminimized">> \in Seq(Steps)
      BY <2>3, <3>1, <3>2
    <3>4. /\ <<"set_focus", "record_focus">> \in Seq(Steps) /\ <<"destroy", "remove">> \in Seq(Steps)
          /\ <<"maximize", "record_maximize">> \in Seq(Steps) /\ <<"minimize", "record_minimize">> \in Seq(Steps)
          /\ <<"unminimize", "record_unminimized">> \in Seq(Steps)
      BY <2>4, <3>1, <3>2
    <3>5. /\ <<"record_unmaximized", "unminimize", "record_unminimized">> \in Seq(Steps)
          /\ <<"unmaximize", "record_unmaximized", "unminimize", "record_unminimized">> \in Seq(Steps)
      BY <2>5, <2>6, <3>2
    <3> QED BY <1>2, <2>9, <3>3, <3>4, <3>5, TodoStep, Zenon
  <2> QED BY <2>8, <2>9
<1> QED BY <1>1, <1>2

LEMMA TaskFields ==
  ASSUME NEW t \in TaskType
  PROVE  /\ t.op \in Ops /\ t.desc \in Descs /\ t.left \in Seq(Selectors)
         /\ t.w \in Windows \union {NoWindow} /\ t.todo \in Todos
BY DEF TaskType

LEMMA IdleIs == Idle \in TaskType /\ Idle.todo = <<>> /\ Idle.w = NoWindow
<1>1. <<>> \in Seq(Selectors) /\ <<>> \in Todos
  BY NoTodo
<1> QED BY <1>1 DEF Idle, TaskType, Ops, Descs

LEMMA DoneIs ==
  ASSUME NEW t \in TaskType PROVE Done(t) \in TaskType /\ Done(t).todo = <<>>
<1>1. <<>> \in Todos
  BY NoTodo
<1>2. CASE t.left = <<>>
  BY <1>2, IdleIs DEF Done
<1>3. CASE t.left # <<>>
  BY <1>1, <1>3 DEF Done, TaskType
<1> QED BY <1>2, <1>3

LEMMA PopIs ==
  ASSUME NEW t \in TaskType, t.todo # <<>>
  PROVE  /\ Pop(t) \in TaskType /\ Pop(t).todo = Tail(t.todo)
         /\ Pop(t).todo # <<>> => Pop(t).w = t.w
<1>1. Tail(t.todo) \in Todos
  BY TaskFields, TodoFirst
<1>2. CASE Tail(t.todo) = <<>>
  BY <1>2, DoneIs DEF Pop
<1>3. CASE Tail(t.todo) # <<>>
  BY <1>1, <1>3 DEF Pop, TaskType
<1> QED BY <1>2, <1>3

(* The tasks after a client's step. *)
LEMMA Tasking ==
  ASSUME RegistryTypes, NEW c \in Clients, NEW t \in TaskType, tasks' = [tasks EXCEPT ![c] = t]
  PROVE  /\ tasks' \in [Clients -> TaskType] /\ tasks'[c] = t
         /\ \A d \in Clients \ {c} : tasks'[d] = tasks[d]
BY DEF RegistryTypes

LEMMA TaskIs == ASSUME RegistryTypes, NEW c \in Clients PROVE tasks[c] \in TaskType
BY DEF RegistryTypes

(* The registry after a writer's step. *)
LEMMA RegistryIs ==
  ASSUME RegistryTypes
  PROVE  /\ windows = [v \in Known |-> windows[v]] /\ Known \subseteq Windows
         /\ \A v \in Known : windows[v] \in WindowRecords
BY DEF RegistryTypes, Registries, Known

LEMMA InRegistries ==
  ASSUME NEW known \in SUBSET Windows, NEW s, s = [v \in known |-> s[v]],
         \A v \in known : s[v] \in WindowRecords
  PROVE  s \in Registries
BY DEF Registries

LEMMA RecordFields ==
  ASSUME NEW r \in WindowRecords
  PROVE  /\ r.desc \in Descs /\ r.focused \in BOOLEAN /\ r.order \in Nat
         /\ r.max \in BOOLEAN /\ r.min \in BOOLEAN
BY DEF WindowRecords

(* The registry after a writer's step. *)

LEMMA Removing ==
  ASSUME RegistryTypes, NEW w, Removed(w)
  PROVE  /\ windows' \in Registries /\ Known' = Known \ {w} /\ IsFiniteSet(Known')
         /\ \A v \in Known' : windows'[v] = windows[v]
<1>1. windows' = [v \in Known \ {w} |-> windows[v]] /\ IsFiniteSet(Known)
  BY DEF Removed, RegistryTypes
<1>2. Known' = Known \ {w} /\ \A v \in Known' : windows'[v] = windows[v]
  BY <1>1 DEF Known
<1>3. IsFiniteSet(Known')
  BY <1>1, <1>2, FS_RemoveElement
<1>4. /\ Known' \in SUBSET Windows /\ windows' = [v \in Known' |-> windows'[v]]
      /\ \A v \in Known' : windows'[v] \in WindowRecords
  BY <1>1, <1>2, RegistryIs
<1> QED BY <1>2, <1>3, <1>4, InRegistries

\* The fields that a focus leaves alone.
SameBut(r, s) == r.desc = s.desc /\ r.max = s.max /\ r.min = s.min

LEMMA FocusGained ==
  ASSUME NEW r \in WindowRecords, NEW n \in Nat
  PROVE  /\ [r EXCEPT !.focused = FALSE] \in WindowRecords
         /\ [r EXCEPT !.focused = FALSE].focused = FALSE
         /\ [r EXCEPT !.focused = FALSE].order = r.order
         /\ SameBut([r EXCEPT !.focused = FALSE], r)
         /\ [r EXCEPT !.focused = TRUE, !.order = n] \in WindowRecords
         /\ [r EXCEPT !.focused = TRUE, !.order = n].focused = TRUE
         /\ [r EXCEPT !.focused = TRUE, !.order = n].order = n
         /\ SameBut([r EXCEPT !.focused = TRUE, !.order = n], r)
BY DEF WindowRecords, SameBut

LEMMA Gaining ==
  ASSUME RegistryTypes, NEW w \in Known, RecordFocus(w, TRUE)
  PROVE  /\ windows' \in Registries /\ Known' = Known /\ counter' = counter + 1 /\ recent' = <<w>> \o recent
         /\ windows'[w].focused = TRUE /\ windows'[w].order = counter + 1
         /\ \A v \in Known \ {w} : windows'[v].focused = FALSE /\ windows'[v].order = windows[v].order
         /\ \A v \in Known : SameBut(windows'[v], windows[v])
<1>1. /\ counter' = counter + 1 /\ recent' = <<w>> \o recent
      /\ windows' = [Others(w) EXCEPT ![w].focused = TRUE, ![w].order = counter + 1]
  BY DEF RecordFocus
<1>2. /\ Others(w) = [v \in Known |-> [windows[v] EXCEPT !.focused = FALSE]]
      /\ counter + 1 \in Nat /\ \A v \in Known : windows[v] \in WindowRecords
  BY RegistryIs DEF Others, RegistryTypes
<1>3. Known' = Known /\ \A v \in Known \ {w} : windows'[v] = [windows[v] EXCEPT !.focused = FALSE]
  BY <1>1, <1>2 DEF Known
<1>4. windows'[w] = [[windows[w] EXCEPT !.focused = FALSE] EXCEPT !.focused = TRUE, !.order = counter + 1]
  BY <1>1, <1>2
<1>5. \A v \in Known \ {w} :
        /\ windows'[v] \in WindowRecords /\ windows'[v].focused = FALSE
        /\ windows'[v].order = windows[v].order /\ SameBut(windows'[v], windows[v])
  <2> SUFFICES ASSUME NEW v \in Known \ {w}
               PROVE  /\ windows'[v] \in WindowRecords /\ windows'[v].focused = FALSE
                      /\ windows'[v].order = windows[v].order /\ SameBut(windows'[v], windows[v])
    OBVIOUS
  <2>1. windows'[v] = [windows[v] EXCEPT !.focused = FALSE] /\ windows[v] \in WindowRecords
    BY <1>2, <1>3
  <2> QED BY <1>2, <2>1, FocusGained
<1>6. /\ windows'[w] \in WindowRecords /\ windows'[w].focused = TRUE
      /\ windows'[w].order = counter + 1 /\ SameBut(windows'[w], windows[w])
  <2> DEFINE r == [windows[w] EXCEPT !.focused = FALSE]
  <2>1. r \in WindowRecords /\ SameBut(r, windows[w])
    BY <1>2, FocusGained
  <2> HIDE DEF r
  <2>2. /\ [r EXCEPT !.focused = TRUE, !.order = counter + 1] \in WindowRecords
        /\ [r EXCEPT !.focused = TRUE, !.order = counter + 1].focused = TRUE
        /\ [r EXCEPT !.focused = TRUE, !.order = counter + 1].order = counter + 1
        /\ SameBut([r EXCEPT !.focused = TRUE, !.order = counter + 1], r)
    BY <1>2, <2>1, FocusGained
  <2>3. windows'[w] = [r EXCEPT !.focused = TRUE, !.order = counter + 1]
    BY <1>4 DEF r
  <2>4. SameBut(windows'[w], windows[w])
    BY <2>1, <2>2, <2>3 DEF SameBut
  <2> QED BY <2>2, <2>3, <2>4
<1>7. windows' = [v \in Known' |-> windows'[v]]
  BY <1>1, <1>2, <1>3
<1>8. windows' \in Registries
  BY <1>3, <1>5, <1>6, <1>7, RegistryIs, InRegistries
<1> QED BY <1>1, <1>3, <1>5, <1>6, <1>8

LEMMA Losing ==
  ASSUME RegistryTypes, NEW w \in Known, RecordFocus(w, FALSE)
  PROVE  /\ windows' \in Registries /\ Known' = Known /\ counter' = counter /\ recent' = recent
         /\ windows'[w].focused = FALSE /\ windows'[w].order = windows[w].order
         /\ SameBut(windows'[w], windows[w]) /\ \A v \in Known \ {w} : windows'[v] = windows[v]
<1>1. counter' = counter /\ recent' = recent /\ windows' = [windows EXCEPT ![w].focused = FALSE]
  BY DEF RecordFocus
<1>2. windows = [v \in Known |-> windows[v]] /\ \A v \in Known : windows[v] \in WindowRecords
  BY RegistryIs
<1>3. Known' = Known /\ \A v \in Known \ {w} : windows'[v] = windows[v]
  BY <1>1, <1>2 DEF Known
<1>4. windows'[w] = [windows[w] EXCEPT !.focused = FALSE]
  BY <1>1, <1>2
<1>5. /\ windows'[w] \in WindowRecords /\ windows'[w].focused = FALSE
      /\ windows'[w].order = windows[w].order /\ SameBut(windows'[w], windows[w])
  <2>1. windows[w] \in WindowRecords /\ 0 \in Nat
    BY <1>2
  <2> QED BY <1>4, <2>1, FocusGained
<1>6. windows' = [v \in Known' |-> windows'[v]]
  BY <1>1, <1>2, <1>3
<1>7. windows' \in Registries
  BY <1>2, <1>3, <1>5, <1>6, RegistryIs, InRegistries
<1> QED BY <1>1, <1>3, <1>5, <1>7

LEMMA Unrecorded ==
  ASSUME NEW w, NEW f, w \notin Known, RecordFocus(w, f)
  PROVE  windows' = windows /\ counter' = counter /\ recent' = recent
BY DEF RecordFocus, registryVars

\* A window's record becomes another.
Turns(w, r) == windows' = [windows EXCEPT ![w] = r]

LEMMA Turning ==
  ASSUME RegistryTypes, NEW w \in Known, NEW r \in WindowRecords, Turns(w, r)
  PROVE  /\ windows' \in Registries /\ Known' = Known /\ windows'[w] = r
         /\ \A v \in Known \ {w} : windows'[v] = windows[v]
<1>1. windows = [v \in Known |-> windows[v]] /\ \A v \in Known : windows[v] \in WindowRecords
  BY RegistryIs
<1>2. Known' = Known /\ windows'[w] = r /\ \A v \in Known \ {w} : windows'[v] = windows[v]
  BY <1>1 DEF Turns, Known
<1>3. windows' = [v \in Known' |-> windows'[v]]
  BY <1>1, <1>2 DEF Turns
<1> QED BY <1>1, <1>2, <1>3, RegistryIs, InRegistries

LEMMA StateTurns ==
  ASSUME NEW r \in WindowRecords, NEW step \in StateRecords
  PROVE  /\ WithState(r, step) \in WindowRecords /\ WithState(r, step).desc = r.desc
         /\ WithState(r, step).focused = r.focused /\ WithState(r, step).order = r.order
BY DEF WithState, StateRecords, WindowRecords

LEMMA DescTurns ==
  ASSUME NEW r \in WindowRecords, NEW desc \in Descs
  PROVE  /\ [r EXCEPT !.desc = desc] \in WindowRecords /\ [r EXCEPT !.desc = desc].desc = desc
         /\ [r EXCEPT !.desc = desc].focused = r.focused /\ [r EXCEPT !.desc = desc].order = r.order
         /\ [r EXCEPT !.desc = desc].max = r.max /\ [r EXCEPT !.desc = desc].min = r.min
BY DEF WindowRecords

NewRecord(desc) == [desc |-> desc, focused |-> FALSE, order |-> 0, max |-> FALSE, min |-> FALSE]

LEMMA Opening ==
  ASSUME RegistryTypes, NEW w \in Windows, NEW desc \in Descs, OpenWindow(w, desc)
  PROVE  /\ windows' \in Registries /\ Known' = Known \union {w} /\ IsFiniteSet(Known')
         /\ windows'[w] = NewRecord(desc) /\ \A v \in Known \ {w} : windows'[v] = windows[v]
<1>1. /\ windows' = [v \in Known \union {w} |-> IF v = w THEN NewRecord(desc) ELSE windows[v]]
      /\ IsFiniteSet(Known)
  BY DEF OpenWindow, NewRecord, RegistryTypes
<1>2. /\ Known' = Known \union {w} /\ windows'[w] = NewRecord(desc)
      /\ \A v \in Known \ {w} : windows'[v] = windows[v]
  BY <1>1 DEF Known
<1>3. NewRecord(desc) \in WindowRecords
  BY DEF NewRecord, WindowRecords
<1>4. windows' = [v \in Known' |-> windows'[v]]
  BY <1>1, <1>2
<1>5. windows' \in Registries
  BY <1>2, <1>3, <1>4, RegistryIs, InRegistries
<1>6. IsFiniteSet(Known')
  BY <1>1, <1>2, FS_AddElement
<1> QED BY <1>2, <1>5, <1>6

(* The types are kept. *)

LEMMA Prepending ==
  ASSUME NEW S, NEW s \in Seq(S), NEW e \in S
  PROVE  /\ <<e>> \o s \in Seq(S) /\ Len(<<e>> \o s) = Len(s) + 1 /\ (<<e>> \o s)[1] = e
         /\ \A i \in DOMAIN s : (<<e>> \o s)[i + 1] = s[i]
         /\ DOMAIN s = 1..Len(s) /\ Len(s) \in Nat
         /\ \A i \in DOMAIN (<<e>> \o s) : i = 1 \/ (i - 1 \in DOMAIN s /\ (<<e>> \o s)[i] = s[i - 1])
<1>1. <<e>> \in Seq(S) /\ Len(<<e>>) = 1 /\ <<e>>[1] = e
  OBVIOUS
<1>2. DOMAIN s = 1..Len(s) /\ Len(s) \in Nat
  OBVIOUS
<1>3. /\ <<e>> \o s \in Seq(S) /\ Len(<<e>> \o s) = Len(s) + 1
      /\ \A i \in 1..(Len(s) + 1) : (<<e>> \o s)[i] = IF i <= 1 THEN <<e>>[i] ELSE s[i - 1]
  BY <1>1, <1>2, ConcatProperties
<1>4. DOMAIN (<<e>> \o s) = 1..(Len(s) + 1)
  BY <1>3
<1> HIDE <1>1
<1> QED BY <1>1, <1>2, <1>3, <1>4

\* The events of a focus that moves from one window to another.
LEMMA MovesAre ==
  ASSUME NEW w
  PROVE  /\ front = NoWindow /\ w = NoWindow => FocusEvents(w) = <<>>
         /\ front = NoWindow /\ w # NoWindow => FocusEvents(w) = <<[w |-> w, kind |-> "focus"]>>
         /\ front # NoWindow /\ w = NoWindow => FocusEvents(w) = <<[w |-> front, kind |-> "blur"]>>
         /\ front # NoWindow /\ w # NoWindow
              => FocusEvents(w) = <<[w |-> front, kind |-> "blur"], [w |-> w, kind |-> "focus"]>>
<1> DEFINE lost == IF front = NoWindow THEN <<>> ELSE <<[w |-> front, kind |-> "blur"]>>
<1> DEFINE got == IF w = NoWindow THEN <<>> ELSE <<[w |-> w, kind |-> "focus"]>>
<1>1. FocusEvents(w) = lost \o got
  BY DEF FocusEvents
<1>2. <<>> \o <<>> = <<>>
  OBVIOUS
<1>3. \A a : <<a>> \o <<>> = <<a>> /\ <<>> \o <<a>> = <<a>>
  OBVIOUS
<1>4. ASSUME NEW a, NEW b PROVE <<a>> \o <<b>> = <<a, b>>
  <2> DEFINE S == {a, b}
  <2>1. a \in S /\ b \in S
    OBVIOUS
  <2> HIDE DEF S
  <2>2. <<a>> \in Seq(S) /\ <<a, b>> \in Seq(S) /\ Len(<<a>>) = 1 /\ Len(<<a, b>>) = 2
    BY <2>1
  <2>3. <<b>> \in Seq(S) /\ Len(<<b>>) = 1
    BY <2>1
  <2>4. /\ <<a>> \o <<b>> \in Seq(S) /\ Len(<<a>> \o <<b>>) = 2
        /\ (<<a>> \o <<b>>)[1] = a /\ (<<a>> \o <<b>>)[2] = b
    BY <2>2, <2>3, ConcatProperties
  <2>5. \A i \in 1..2 : (<<a>> \o <<b>>)[i] = <<a, b>>[i]
    BY <2>4
  <2> QED BY <2>2, <2>4, <2>5, SeqEqual
<1> QED BY <1>1, <1>2, <1>3, <1>4

LEMMA EventsAre ==
  ASSUME OutsideTypes, NEW w \in Windows \union {NoWindow}
  PROVE  FocusEvents(w) \in Seq(Events)
<1>1. \A v \in Windows : [w |-> v, kind |-> "blur"] \in Events /\ [w |-> v, kind |-> "focus"] \in Events
  BY DEF Events
<1>2. \A a, b \in Events : <<>> \in Seq(Events) /\ <<a>> \in Seq(Events) /\ <<a, b>> \in Seq(Events)
  OBVIOUS
<1>3. <<>> \in Seq(Events)
  OBVIOUS
<1>4. front \in Windows \union {NoWindow}
  BY DEF OutsideTypes
<1> QED BY <1>1, <1>2, <1>3, <1>4, MovesAre

LEMMA EventFields ==
  ASSUME NEW e \in Events PROVE e.w \in Windows /\ e.kind \in {"focus", "blur", "destroyed"}
BY DEF Events

LEMMA Taking ==
  ASSUME OutsideTypes, pending # <<>>
  PROVE  /\ Head(pending) \in Events /\ Head(pending) = pending[1] /\ 1 \in DOMAIN pending
         /\ Tail(pending) \in Seq(Events) /\ Len(Tail(pending)) = Len(pending) - 1
         /\ DOMAIN pending = 1..Len(pending) /\ Len(pending) \in Nat /\ Len(pending) > 0
         /\ DOMAIN Tail(pending) = 1..(Len(pending) - 1)
         /\ \A i \in DOMAIN Tail(pending) : i + 1 \in DOMAIN pending /\ Tail(pending)[i] = pending[i + 1]
         /\ \A i \in DOMAIN pending : i > 1 => i - 1 \in DOMAIN Tail(pending) /\ Tail(pending)[i - 1] = pending[i]
<1>1. pending \in Seq(Events)
  BY DEF OutsideTypes
<1>2. DOMAIN pending = 1..Len(pending) /\ Len(pending) \in Nat /\ Len(pending) > 0 /\ Head(pending) = pending[1]
  BY <1>1, EmptySeq
<1>3. /\ Head(pending) \in Events /\ Tail(pending) \in Seq(Events) /\ Len(Tail(pending)) = Len(pending) - 1
      /\ \A i \in 1..Len(Tail(pending)) : Tail(pending)[i] = pending[i + 1]
  BY <1>1, HeadTailProperties
<1>4. DOMAIN Tail(pending) = 1..(Len(pending) - 1)
  BY <1>3
<1>5. \A i \in DOMAIN Tail(pending) : i + 1 \in DOMAIN pending /\ Tail(pending)[i] = pending[i + 1]
  BY <1>2, <1>3, <1>4
<1>6. \A i \in DOMAIN pending : i > 1 => i - 1 \in DOMAIN Tail(pending) /\ Tail(pending)[i - 1] = pending[i]
  <2> SUFFICES ASSUME NEW i \in DOMAIN pending, i > 1
               PROVE i - 1 \in DOMAIN Tail(pending) /\ Tail(pending)[i - 1] = pending[i]
    OBVIOUS
  <2>1. i - 1 \in DOMAIN Tail(pending) /\ (i - 1) + 1 = i
    BY <1>2, <1>4
  <2> QED BY <1>5, <2>1
<1> QED BY <1>2, <1>3, <1>4, <1>5, <1>6

LEMMA KnownSelectors ==
  ASSUME RegistryTypes PROVE SetToSeq(Known) \in Seq(Selectors)
<1>1. IsFiniteSet(Known) /\ Known \subseteq Selectors
  BY RegistryIs DEF RegistryTypes, Selectors
<1>2. ExistsBijection(1..Cardinality(Known), Known) /\ Cardinality(Known) \in Nat
  BY <1>1, FS_CardinalityType
<1>3. \E g \in [1..Cardinality(Known) -> Known] : IsInjective(g)
  BY <1>2 DEF ExistsBijection, Bijection, Injection
<1>4. SetToSeq(Known) \in [1..Cardinality(Known) -> Known]
  BY <1>3 DEF SetToSeq
<1> QED BY <1>1, <1>2, <1>4

(* What a request's step does to its task. *)

OnlyOne(c) == tasks' \in [Clients -> TaskType] /\ \A d \in Clients \ {c} : tasks'[d] = tasks[d]
Idles(c) == OnlyOne(c) /\ tasks'[c].todo = <<>>
Begins(c, w) ==
  /\ OnlyOne(c) /\ tasks'[c].todo # <<>> /\ tasks'[c].w = w
  /\ Head(tasks'[c].todo) \in NativeCalls \union {"tag"}
Goes(c) ==
  /\ OnlyOne(c) /\ tasks[c].todo # <<>> /\ tasks'[c].todo = Tail(tasks[c].todo)
  /\ tasks'[c].todo # <<>> => tasks'[c].w = tasks[c].w

LEMMA Advancing ==
  ASSUME RegistryTypes, NEW c \in Clients, tasks[c].todo # <<>>, Advance(c) PROVE Goes(c)
<1>1. tasks[c] \in TaskType
  BY TaskIs
<1>2. Pop(tasks[c]) \in TaskType /\ Pop(tasks[c]).todo = Tail(tasks[c].todo)
      /\ (Pop(tasks[c]).todo # <<>> => Pop(tasks[c]).w = tasks[c].w)
  BY <1>1, PopIs
<1>3. tasks' = [tasks EXCEPT ![c] = Pop(tasks[c])]
  BY DEF Advance
<1> QED BY <1>2, <1>3, Tasking DEF Goes, OnlyOne

LEMMA Failing == ASSUME RegistryTypes, NEW c \in Clients, Fail(c) PROVE Idles(c)
<1>1. Done(tasks[c]) \in TaskType /\ Done(tasks[c]).todo = <<>>
  BY TaskIs, DoneIs
<1>2. tasks' = [tasks EXCEPT ![c] = Done(tasks[c])]
  BY DEF Fail
<1> QED BY <1>1, <1>2, Tasking DEF Idles, OnlyOne

LEMMA Calling ==
  ASSUME RegistryTypes, OutsideTypes, NEW c \in Clients, Call(c) \/ CallAll(c) PROVE Idles(c)
<1>1. Idle \in TaskType /\ Idle.todo = <<>>
  BY IdleIs
<1>2. \E op \in Ops, desc \in Descs, left \in Seq(Selectors) :
        tasks' = [tasks EXCEPT ![c] = [Idle EXCEPT !.op = op, !.desc = desc, !.left = left]]
  <2>1. offered[c] \ Ways \subseteq Ops
    BY AssumedRegistry DEF OutsideTypes
  <2>2. CASE Call(c)
    <3>1. PICK op \in offered[c] \ Ways, target \in Selectors, desc \in Descs :
            tasks' = [tasks EXCEPT ![c] = [Idle EXCEPT !.op = op, !.desc = desc, !.left = <<target>>]]
      BY <2>2 DEF Call
    <3> DEFINE left == <<target>>
    <3>2. left \in Seq(Selectors) /\ op \in Ops
      BY <2>1
    <3>3. tasks' = [tasks EXCEPT ![c] = [Idle EXCEPT !.op = op, !.desc = desc, !.left = left]]
      BY <3>1
    <3> HIDE DEF left
    <3> QED BY <3>2, <3>3, Zenon
  <2>3. CASE CallAll(c)
    <3>1. PICK op \in offered[c] \ Ways, desc \in Descs :
            tasks' = [tasks EXCEPT ![c] = [Idle EXCEPT !.op = op, !.desc = desc, !.left = SetToSeq(Known)]]
      BY <2>3 DEF CallAll
    <3> DEFINE left == SetToSeq(Known)
    <3>2. left \in Seq(Selectors) /\ op \in Ops
      BY <2>1, KnownSelectors
    <3>3. tasks' = [tasks EXCEPT ![c] = [Idle EXCEPT !.op = op, !.desc = desc, !.left = left]]
      BY <3>1
    <3> HIDE DEF left
    <3> QED BY <3>2, <3>3, Zenon
  <2> QED BY <2>2, <2>3
<1>3. PICK op \in Ops, desc \in Descs, left \in Seq(Selectors) :
        tasks' = [tasks EXCEPT ![c] = [Idle EXCEPT !.op = op, !.desc = desc, !.left = left]]
  BY <1>2
<1> DEFINE t == [Idle EXCEPT !.op = op, !.desc = desc, !.left = left]
<1>4. t \in TaskType /\ t.todo = <<>>
  BY <1>1 DEF TaskType
<1>5. tasks' = [tasks EXCEPT ![c] = t]
  BY <1>3
<1> HIDE DEF t
<1> QED BY <1>4, <1>5, Tasking DEF Idles, OnlyOne

LEMMA ResolvedIsKnown == ASSUME NEW target, NEW w \in Resolved(target) PROVE w \in Known
BY DEF Resolved, Newest, Matches

LEMMA Resolving ==
  ASSUME RegistryTypes, NEW c \in Clients, Resolve(c)
  PROVE  /\ tasks[c].todo = <<>> /\ tasks[c].left # <<>>
         /\ \/ \E w \in Resolved(Head(tasks[c].left)) : Begins(c, w)
            \/ Resolved(Head(tasks[c].left)) = {} /\ Idles(c)
<1> DEFINE target == Head(tasks[c].left)
<1> DEFINE rest == [tasks[c] EXCEPT !.left = Tail(tasks[c].left)]
<1>1. /\ tasks[c].todo = <<>> /\ tasks[c].left # <<>>
      /\ \/ \E w \in Resolved(target) :
              tasks' = [tasks EXCEPT ![c] = [rest EXCEPT !.w = w, !.todo = Script(tasks[c].op)]]
         \/ Resolved(target) = {} /\ tasks' = [tasks EXCEPT ![c] = Done(rest)]
  BY DEF Resolve
<1>2. tasks[c] \in TaskType /\ tasks[c].left \in Seq(Selectors) /\ tasks[c].op \in Ops
  BY TaskIs, TaskFields
<1>3. Tail(tasks[c].left) \in Seq(Selectors)
  BY <1>1, <1>2, HeadTailProperties
<1>4. rest \in TaskType
  BY <1>2, <1>3 DEF TaskType
<1> HIDE DEF rest, target
<1>5. CASE Resolved(target) = {} /\ tasks' = [tasks EXCEPT ![c] = Done(rest)]
  <2>1. Idles(c)
    BY <1>4, <1>5, DoneIs, Tasking DEF Idles, OnlyOne
  <2> QED BY <1>1, <1>5, <2>1 DEF target
<1>6. ASSUME NEW w \in Resolved(target),
             tasks' = [tasks EXCEPT ![c] = [rest EXCEPT !.w = w, !.todo = Script(tasks[c].op)]]
      PROVE  Begins(c, w)
  <2> DEFINE todo == Script(tasks[c].op)
  <2> DEFINE t == [rest EXCEPT !.w = w, !.todo = todo]
  <2>1. todo \in Todos /\ todo # <<>> /\ Head(todo) \in NativeCalls \union {"tag"}
    BY <1>2, ScriptIs
  <2>2. w \in Windows
    BY <1>6, ResolvedIsKnown, RegistryIs
  <2>3. tasks' = [tasks EXCEPT ![c] = t]
    BY <1>6
  <2> HIDE DEF todo
  <2>4. t \in TaskType /\ t.todo = todo /\ t.w = w
    BY <1>4, <2>1, <2>2 DEF TaskType
  <2> HIDE DEF t
  <2> QED BY <2>1, <2>3, <2>4, Tasking DEF Begins, OnlyOne
<1> QED BY <1>1, <1>5, <1>6 DEF target

Types == RegistryTypes /\ OutsideTypes

LEMMA TypesRest ==
  ASSUME Types, windows' \in Registries, IsFiniteSet(Known'), counter' \in Nat, recent' \in Seq(Windows),
         tasks' \in [Clients -> TaskType]
  PROVE  RegistryTypes'
BY DEF RegistryTypes

LEMMA SameRegistry ==
  ASSUME Types, windows' = windows PROVE windows' \in Registries /\ IsFiniteSet(Known') /\ Known' = Known
BY DEF Types, RegistryTypes, Known

LEMMA RecordingTypes ==
  ASSUME Types, NEW w \in Windows, NEW f \in BOOLEAN, RecordFocus(w, f)
  PROVE  windows' \in Registries /\ IsFiniteSet(Known') /\ counter' \in Nat /\ recent' \in Seq(Windows)
<1>1. IsFiniteSet(Known) /\ counter \in Nat /\ recent \in Seq(Windows) /\ windows \in Registries
  BY DEF Types, RegistryTypes
<1>2. CASE w \notin Known
  BY <1>1, <1>2, Unrecorded, SameRegistry
<1>3. CASE w \in Known /\ f = TRUE
  <2>1. windows' \in Registries /\ Known' = Known /\ counter' = counter + 1 /\ recent' = <<w>> \o recent
    BY <1>3, Gaining DEF Types
  <2> QED BY <1>1, <2>1, Prepending
<1>4. CASE w \in Known /\ f = FALSE
  BY <1>1, <1>4, Losing DEF Types
<1> QED BY <1>2, <1>3, <1>4

LEMMA OpenKeepsTypes ==
  ASSUME Types, NEW w \in Windows, NEW desc \in Descs, OpenWindow(w, desc), offered' = offered PROVE Types'
<1>1. windows' \in Registries /\ IsFiniteSet(Known')
  BY Opening DEF Types
<1>2. RegistryTypes'
  BY <1>1, TypesRest DEF OpenWindow, Types, RegistryTypes
<1>3. OutsideTypes'
  BY DEF OpenWindow, savedVars, Types, OutsideTypes
<1> QED BY <1>2, <1>3 DEF Types

LEMMA FocusCallTypes ==
  ASSUME Types, NEW w \in Windows, front' = w, pending' = (IF front = w THEN pending ELSE pending \o FocusEvents(w))
  PROVE  front' \in Windows \union {NoWindow} /\ pending' \in Seq(Events)
<1>1. FocusEvents(w) \in Seq(Events) /\ pending \in Seq(Events)
  BY EventsAre DEF Types, OutsideTypes
<1>2. pending \o FocusEvents(w) \in Seq(Events)
  BY <1>1, ConcatProperties
<1> QED BY <1>1, <1>2

LEMMA DestroyedTypes ==
  ASSUME Types, NEW w \in Windows, Destroyed(w)
  PROVE  /\ native' \in [Windows -> {"unborn", "alive", "gone"}] /\ front' \in Windows \union {NoWindow}
         /\ pending' \in Seq(Events)
<1>1. [w |-> w, kind |-> "destroyed"] \in Events
  BY DEF Events
<1>2. pending \in Seq(Events)
  BY DEF Types, OutsideTypes
<1>3. Append(pending, [w |-> w, kind |-> "destroyed"]) \in Seq(Events)
  BY <1>1, <1>2, AppendProperties
<1> QED BY <1>3 DEF Destroyed, Types, OutsideTypes

LEMMA UserTypes ==
  ASSUME Types, NEW w \in Windows \union {NoWindow}, UserFocus(w) \/ (w \in Windows /\ UserClose(w)),
         offered' = offered
  PROVE  Types'
<1>1. RegistryTypes'
  BY SameRegistry, TypesRest DEF UserFocus, UserClose, registryVars, Types, RegistryTypes
<1>2. CASE UserFocus(w)
  <2>1. FocusEvents(w) \in Seq(Events) /\ pending \in Seq(Events)
    BY EventsAre DEF Types, OutsideTypes
  <2>2. pending \o FocusEvents(w) \in Seq(Events)
    BY <2>1, ConcatProperties
  <2>3. OutsideTypes'
    BY <1>2, <2>2 DEF UserFocus, savedVars, Types, OutsideTypes
  <2> QED BY <1>1, <2>3 DEF Types
<1>3. CASE w \in Windows /\ UserClose(w)
  <2>1. /\ native' \in [Windows -> {"unborn", "alive", "gone"}] /\ front' \in Windows \union {NoWindow}
        /\ pending' \in Seq(Events)
    BY <1>3, DestroyedTypes DEF UserClose
  <2>2. OutsideTypes'
    BY <1>3, <2>1 DEF UserClose, savedVars, Types, OutsideTypes
  <2> QED BY <1>1, <2>2 DEF Types
<1> QED BY <1>2, <1>3

LEMMA GuiTypes == ASSUME Types, GuiEvent, offered' = offered PROVE Types'
<1> DEFINE e == Head(pending)
<1>1. /\ pending # <<>> /\ pending' = Tail(pending) /\ overtaken' \in BOOLEAN /\ tasks' = tasks
      /\ native' = native /\ front' = front /\ shown' = shown /\ mixed' = mixed
      /\ snapshot' = snapshot /\ saved' = saved /\ stale' = stale
      /\ \/ Removed(e.w) /\ counter' = counter /\ recent' = recent
         \/ RecordFocus(e.w, e.kind = "focus")
  BY DEF GuiEvent, savedVars, Types, OutsideTypes
<1>2. e \in Events /\ Tail(pending) \in Seq(Events)
  BY <1>1, Taking DEF Types
<1> HIDE DEF e
<1>3. OutsideTypes'
  BY <1>1, <1>2 DEF Types, OutsideTypes
<1>4. windows' \in Registries /\ IsFiniteSet(Known') /\ counter' \in Nat /\ recent' \in Seq(Windows)
  <2>1. CASE Removed(e.w) /\ counter' = counter /\ recent' = recent
    BY <2>1, Removing DEF Types, RegistryTypes
  <2>2. CASE RecordFocus(e.w, e.kind = "focus")
    BY <1>2, <2>2, EventFields, RecordingTypes
  <2> QED BY <1>1, <2>1, <2>2
<1>5. RegistryTypes'
  BY <1>1, <1>4, TypesRest DEF Types, RegistryTypes
<1> QED BY <1>3, <1>5 DEF Types

LEMMA Syncing ==
  ASSUME OutsideTypes, NEW w \in Windows, NEW desc \in Descs
  PROVE  /\ Synced(w, desc) \in [Windows -> Descs]
         /\ Tracked(w) => Synced(w, desc)[w] = desc
         /\ \A v \in Windows \ {w} : Synced(w, desc)[v] = saved[v]
BY DEF Synced, OutsideTypes

LEMMA CopyTypes ==
  ASSUME Types, (\E w \in Windows : Observe(w)) \/ SyncAsync, offered' = offered PROVE Types'
<1>1. RegistryTypes'
  BY SameRegistry, TypesRest DEF Observe, SyncAsync, registryVars, Types, RegistryTypes
<1>2. ASSUME NEW w \in Windows, Observe(w) PROVE OutsideTypes'
  <2>1. windows[w].desc \in Descs
    BY <1>2, RegistryIs, RecordFields DEF Observe, Types
  <2>2. [w |-> w, desc |-> windows[w].desc] \in Copies
    BY <2>1 DEF Copies
  <2>3. snapshot' \in Seq(Copies) /\ Len(snapshot') = 1
    BY <1>2, <2>2 DEF Observe
  <2> QED BY <1>2, <2>3 DEF Observe, toolkitVars, Types, OutsideTypes
<1>3. ASSUME SyncAsync PROVE OutsideTypes'
  <2>1. snapshot \in Seq(Copies) /\ snapshot # <<>>
    BY <1>3 DEF SyncAsync, Types, OutsideTypes
  <2>2. snapshot[1] \in Copies
    BY <2>1, EmptySeq, ElementOfSeq
  <2>3. snapshot[1].w \in Windows /\ snapshot[1].desc \in Descs
    BY <2>2 DEF Copies
  <2>4. snapshot' \in Seq(Copies) /\ Len(snapshot') = 0 /\ saved' \in [Windows -> Descs]
    BY <1>3, <2>3, Syncing DEF SyncAsync, Types
  <2> QED BY <1>3, <2>4 DEF SyncAsync, toolkitVars, Types, OutsideTypes
<1> QED BY <1>1, <1>2, <1>3 DEF Types

LEMMA AtIs ==
  ASSUME NEW c \in Clients, NEW steps, At(c, steps)
  PROVE  tasks[c].todo # <<>> /\ Head(tasks[c].todo) \in steps
BY DEF At

LEMMA ShownTypes ==
  ASSUME NEW step \in StateCalls, NEW state \in States PROVE NativeState(step, state) \in States
BY DEF NativeState, StateCalls, States

\* A call into the toolkit, by what it does.
FocusCall(c, w) ==
  /\ front' = w /\ pending' = (IF front = w THEN pending ELSE pending \o FocusEvents(w))
  /\ native' = native /\ shown' = shown /\ mixed' = mixed
DestroyCall(w) == Destroyed(w) /\ shown' = shown /\ mixed' = mixed
StateCall(c, w) ==
  /\ Head(tasks[c].todo) \in StateCalls
  /\ shown' = [shown EXCEPT ![w] = NativeState(Head(tasks[c].todo), shown[w])]
  /\ mixed' = (IF Recording(c, w) THEN mixed \union {w} ELSE mixed)
  /\ native' = native /\ front' = front /\ pending' = pending

LEMMA NativeIs ==
  ASSUME Types, NEW c \in Clients, Native(c)
  PROVE  /\ tasks[c].todo # <<>> /\ Goes(c) /\ native[tasks[c].w] = "alive"
         /\ \/ Head(tasks[c].todo) = "set_focus" /\ FocusCall(c, tasks[c].w)
            \/ Head(tasks[c].todo) = "destroy" /\ DestroyCall(tasks[c].w)
            \/ StateCall(c, tasks[c].w)
         /\ windows' = windows /\ counter' = counter /\ recent' = recent /\ overtaken' = overtaken
         /\ snapshot' = snapshot /\ saved' = saved /\ stale' = stale
<1> DEFINE w == tasks[c].w
<1> DEFINE step == Head(tasks[c].todo)
<1>1. /\ At(c, NativeCalls) /\ native[w] = "alive" /\ Advance(c)
      /\ windows' = windows /\ counter' = counter /\ recent' = recent /\ overtaken' = overtaken
      /\ snapshot' = snapshot /\ saved' = saved /\ stale' = stale
  BY DEF Native, registryVars, savedVars
<1>2. \/ step = "set_focus" /\ FocusCall(c, w)
      \/ step = "destroy" /\ DestroyCall(w)
      \/ StateCall(c, w)
  BY DEF Native, FocusCall, DestroyCall, StateCall
<1>3. tasks[c].todo # <<>>
  BY <1>1, AtIs
<1>4. Goes(c)
  BY <1>1, <1>3, Advancing DEF Types
<1> QED BY <1>1, <1>2, <1>3, <1>4

LEMMA NativeTypes ==
  ASSUME Types, NEW c \in Clients, tasks[c].w \in Windows, Native(c), offered' = offered PROVE Types'
<1>1. /\ tasks' \in [Clients -> TaskType]
      /\ windows' = windows /\ counter' = counter /\ recent' = recent /\ overtaken' = overtaken
      /\ snapshot' = snapshot /\ saved' = saved /\ stale' = stale
  BY NativeIs DEF Goes, OnlyOne
<1>2. RegistryTypes'
  BY <1>1, SameRegistry, TypesRest DEF Types, RegistryTypes
<1> DEFINE w == tasks[c].w
<1>3. CASE FocusCall(c, w)
  <2>1. front' \in Windows \union {NoWindow} /\ pending' \in Seq(Events)
    BY <1>3, FocusCallTypes DEF FocusCall
  <2>2. OutsideTypes'
    BY <1>1, <1>3, <2>1 DEF FocusCall, Types, OutsideTypes
  <2> QED BY <1>2, <2>2 DEF Types
<1>4. CASE DestroyCall(w)
  <2>1. OutsideTypes'
    BY <1>1, <1>4, DestroyedTypes DEF DestroyCall, Types, OutsideTypes
  <2> QED BY <1>2, <2>1 DEF Types
<1>5. CASE StateCall(c, w)
  <2>1. shown[w] \in States /\ shown \in [Windows -> States]
    BY DEF Types, OutsideTypes
  <2>2. NativeState(Head(tasks[c].todo), shown[w]) \in States
    BY <1>5, <2>1, ShownTypes DEF StateCall
  <2>3. shown' \in [Windows -> States] /\ mixed' \subseteq Windows
    BY <1>5, <2>1, <2>2 DEF StateCall, Types, OutsideTypes
  <2>4. OutsideTypes'
    BY <1>1, <1>5, <2>3 DEF StateCall, Types, OutsideTypes
  <2> QED BY <1>2, <2>4 DEF Types
<1> QED BY <1>3, <1>4, <1>5, NativeIs

LEMMA QuietTypes ==
  ASSUME Types, NEW c \in Clients, offered' = offered,
         Call(c) \/ CallAll(c) \/ Resolve(c) \/ NativeFails(c)
  PROVE  /\ Types' /\ UNCHANGED <<registryVars, toolkitVars, savedVars, recent, overtaken, mixed>>
         /\ Idles(c) \/ (tasks[c].todo = <<>> /\ \E w \in Known : Begins(c, w))
<1>1. UNCHANGED <<registryVars, toolkitVars, savedVars, recent, overtaken, mixed>>
  BY DEF Call, CallAll, Resolve, NativeFails
<1>2. Idles(c) \/ (tasks[c].todo = <<>> /\ \E w \in Known : Begins(c, w))
  <2>1. CASE Call(c) \/ CallAll(c)
    BY <2>1, Calling DEF Types
  <2>2. CASE Resolve(c)
    BY <2>2, Resolving, ResolvedIsKnown DEF Types
  <2>3. CASE NativeFails(c)
    BY <2>3, Failing DEF Types, NativeFails
  <2> QED BY <2>1, <2>2, <2>3
<1>3. tasks' \in [Clients -> TaskType]
  BY <1>2 DEF Idles, Begins, OnlyOne
<1>4. RegistryTypes'
  BY <1>1, <1>3, SameRegistry, TypesRest DEF registryVars, Types, RegistryTypes
<1>5. OutsideTypes'
  BY <1>1 DEF toolkitVars, savedVars, Types, OutsideTypes
<1> QED BY <1>1, <1>2, <1>4, <1>5 DEF Types

LEMMA FocusDoneIs ==
  ASSUME Types, NEW c \in Clients, FocusDone(c)
  PROVE  /\ tasks[c].todo # <<>> /\ Goes(c) /\ Head(tasks[c].todo) = "record_focus"
         /\ RecordFocus(tasks[c].w, TRUE)
         /\ overtaken' = (overtaken \/ (tasks[c].w \in Known /\ front # tasks[c].w))
         /\ UNCHANGED <<toolkitVars, savedVars, mixed>>
<1>1. /\ At(c, {"record_focus"}) /\ Advance(c) /\ RecordFocus(tasks[c].w, TRUE)
      /\ overtaken' = (overtaken \/ (tasks[c].w \in Known /\ front # tasks[c].w))
      /\ UNCHANGED <<toolkitVars, savedVars, mixed>>
  BY DEF FocusDone, FocusRecorded
<1>2. tasks[c].todo # <<>> /\ Head(tasks[c].todo) = "record_focus"
  BY <1>1, AtIs
<1> QED BY <1>1, <1>2, Advancing DEF Types

LEMMA FocusDoneTypes ==
  ASSUME Types, NEW c \in Clients, tasks[c].w \in Windows, FocusDone(c), offered' = offered PROVE Types'
<1>1. RegistryTypes'
  BY FocusDoneIs, RecordingTypes, TypesRest DEF Goes, OnlyOne
<1>2. OutsideTypes'
  BY FocusDoneIs DEF toolkitVars, savedVars, Types, OutsideTypes
<1> QED BY <1>1, <1>2 DEF Types

LEMMA CloseDoneIs ==
  ASSUME Types, NEW c \in Clients, CloseDone(c)
  PROVE  /\ tasks[c].todo # <<>> /\ Goes(c) /\ Head(tasks[c].todo) = "remove"
         /\ Removed(tasks[c].w)
         /\ UNCHANGED <<counter, toolkitVars, savedVars, recent, overtaken, mixed>>
<1>1. /\ At(c, {"remove"}) /\ Advance(c) /\ Removed(tasks[c].w)
      /\ UNCHANGED <<counter, toolkitVars, savedVars, recent, overtaken, mixed>>
  BY DEF CloseDone
<1>2. tasks[c].todo # <<>> /\ Head(tasks[c].todo) = "remove"
  BY <1>1, AtIs
<1> QED BY <1>1, <1>2, Advancing DEF Types

LEMMA CloseDoneTypes ==
  ASSUME Types, NEW c \in Clients, CloseDone(c), offered' = offered PROVE Types'
<1>1. RegistryTypes'
  BY CloseDoneIs, Removing, TypesRest DEF Goes, OnlyOne, Types, RegistryTypes
<1>2. OutsideTypes'
  BY CloseDoneIs DEF toolkitVars, savedVars, Types, OutsideTypes
<1> QED BY <1>1, <1>2 DEF Types

LEMMA StateDoneIs ==
  ASSUME Types, NEW c \in Clients, StateDone(c)
  PROVE  /\ tasks[c].todo # <<>> /\ Head(tasks[c].todo) \in StateRecords
         /\ \/ /\ tasks[c].w \in Known /\ Goes(c)
               /\ Turns(tasks[c].w, WithState(windows[tasks[c].w], Head(tasks[c].todo)))
               /\ WithState(windows[tasks[c].w], Head(tasks[c].todo)) \in WindowRecords
            \/ tasks[c].w \notin Known /\ Idles(c) /\ windows' = windows
         /\ UNCHANGED <<counter, toolkitVars, savedVars, recent, overtaken, mixed>>
<1> DEFINE w == tasks[c].w
<1> DEFINE step == Head(tasks[c].todo)
<1>1. /\ At(c, StateRecords) /\ UNCHANGED <<counter, toolkitVars, savedVars, recent, overtaken, mixed>>
      /\ \/ w \in Known /\ windows' = [windows EXCEPT ![w] = WithState(@, step)] /\ Advance(c)
         \/ w \notin Known /\ Fail(c) /\ windows' = windows
  BY DEF StateDone
<1>2. tasks[c].todo # <<>> /\ step \in StateRecords
  BY <1>1, AtIs
<1>3. ASSUME w \in Known, windows' = [windows EXCEPT ![w] = WithState(@, step)], Advance(c)
      PROVE  Goes(c) /\ Turns(w, WithState(windows[w], step)) /\ WithState(windows[w], step) \in WindowRecords
  <2>1. Goes(c)
    BY <1>2, <1>3, Advancing DEF Types
  <2>2. windows[w] \in WindowRecords
    BY <1>3, RegistryIs DEF Types
  <2>3. WithState(windows[w], step) \in WindowRecords
    BY <1>2, <2>2, StateTurns
  <2>4. Turns(w, WithState(windows[w], step))
    BY <1>3 DEF Turns
  <2> QED BY <2>1, <2>3, <2>4
<1>4. ASSUME Fail(c) PROVE Idles(c)
  BY <1>4, Failing DEF Types
<1> QED BY <1>1, <1>2, <1>3, <1>4

LEMMA StateDoneTypes ==
  ASSUME Types, NEW c \in Clients, StateDone(c), offered' = offered PROVE Types'
<1>1. IsFiniteSet(Known)
  BY DEF Types, RegistryTypes
<1>2. windows' \in Registries /\ IsFiniteSet(Known') /\ tasks' \in [Clients -> TaskType]
  <2>1. CASE tasks[c].w \in Known
    <3> DEFINE r == WithState(windows[tasks[c].w], Head(tasks[c].todo))
    <3>1. Turns(tasks[c].w, r) /\ r \in WindowRecords /\ Goes(c)
      BY <2>1, StateDoneIs
    <3> HIDE DEF r
    <3> QED BY <1>1, <2>1, <3>1, Turning DEF Goes, OnlyOne, Types
  <2>2. CASE tasks[c].w \notin Known
    BY <2>2, StateDoneIs, SameRegistry DEF Idles, OnlyOne
  <2> QED BY <2>1, <2>2
<1>3. RegistryTypes'
  BY <1>2, StateDoneIs, TypesRest DEF Types, RegistryTypes
<1>4. OutsideTypes'
  BY StateDoneIs DEF toolkitVars, savedVars, Types, OutsideTypes
<1> QED BY <1>3, <1>4 DEF Types

LEMMA TagIs ==
  ASSUME Types, NEW c \in Clients, Tag(c)
  PROVE  /\ tasks[c].todo # <<>> /\ Goes(c) /\ Head(tasks[c].todo) = "tag" /\ tasks[c].desc \in Descs
         /\ \/ /\ tasks[c].w \in Known
               /\ Turns(tasks[c].w, [windows[tasks[c].w] EXCEPT !.desc = tasks[c].desc])
               /\ saved' = Synced(tasks[c].w, tasks[c].desc)
               /\ stale' = IF Copied(tasks[c].w) THEN stale \union {tasks[c].w} ELSE stale
            \/ windows' = windows /\ saved' = saved /\ stale' = stale
         /\ UNCHANGED <<counter, toolkitVars, snapshot, recent, overtaken, mixed>>
<1>1. /\ At(c, {"tag"}) /\ Advance(c)
      /\ UNCHANGED <<counter, toolkitVars, snapshot, recent, overtaken, mixed>>
  BY DEF Tag
<1>2. tasks[c].todo # <<>> /\ Head(tasks[c].todo) = "tag"
  BY <1>1, AtIs
<1>3. Goes(c) /\ tasks[c].desc \in Descs
  BY <1>1, <1>2, Advancing, TaskIs, TaskFields DEF Types
<1>4. \/ /\ tasks[c].w \in Known
         /\ Turns(tasks[c].w, [windows[tasks[c].w] EXCEPT !.desc = tasks[c].desc])
         /\ saved' = Synced(tasks[c].w, tasks[c].desc)
         /\ stale' = IF Copied(tasks[c].w) THEN stale \union {tasks[c].w} ELSE stale
      \/ windows' = windows /\ saved' = saved /\ stale' = stale
  BY DEF Tag, Tagged, TagRefused, Turns
<1> QED BY <1>1, <1>2, <1>3, <1>4

LEMMA TagTypes ==
  ASSUME Types, NEW c \in Clients, tasks[c].w \in Windows, Tag(c), offered' = offered PROVE Types'
<1> DEFINE w == tasks[c].w
<1> DEFINE r == [windows[w] EXCEPT !.desc = tasks[c].desc]
<1>1. /\ tasks[c].desc \in Descs /\ tasks' \in [Clients -> TaskType]
      /\ UNCHANGED <<counter, toolkitVars, snapshot, recent, overtaken, mixed>>
      /\ \/ w \in Known /\ Turns(w, r) /\ saved' = Synced(w, tasks[c].desc)
         \/ windows' = windows /\ saved' = saved
      /\ stale' = stale \/ stale' = stale \union {w}
  BY TagIs DEF Goes, OnlyOne
<1>2. w \in Known => r \in WindowRecords
  BY <1>1, RegistryIs, DescTurns DEF Types
<1> HIDE DEF r
<1>3. windows' \in Registries /\ IsFiniteSet(Known') /\ saved' \in [Windows -> Descs]
  <2>1. IsFiniteSet(Known) /\ saved \in [Windows -> Descs]
    BY DEF Types, RegistryTypes, OutsideTypes
  <2>2. CASE w \in Known /\ Turns(w, r) /\ saved' = Synced(w, tasks[c].desc)
    BY <1>1, <1>2, <2>1, <2>2, Turning, Syncing DEF Types
  <2>3. CASE windows' = windows /\ saved' = saved
    BY <2>1, <2>3, SameRegistry
  <2> QED BY <1>1, <2>2, <2>3
<1>4. RegistryTypes'
  BY <1>1, <1>3, TypesRest DEF Types, RegistryTypes
<1>5. OutsideTypes'
  BY <1>1, <1>3 DEF toolkitVars, Types, OutsideTypes
<1> QED BY <1>4, <1>5 DEF Types

(* What lives, and for how long. *)

\* Windows only grow older.
Ages ==
  \A w \in Windows : /\ native[w] # "unborn" => native'[w] # "unborn"
                     /\ native[w] = "gone" => native'[w] = "gone"

LEMMA TasksStay ==
  ASSUME TasksLive, Ages, tasks' = tasks PROVE TasksLive'
BY DEF TasksLive, Ages

LEMMA TasksChange ==
  ASSUME Types, TasksLive, Ages, NEW c \in Clients,
         Idles(c) \/ (\E w \in Windows : Begins(c, w) /\ native[w] # "unborn") \/ Goes(c)
  PROVE  TasksLive'
<1>1. ASSUME NEW d \in Clients \ {c}, tasks'[d].todo # <<>>
      PROVE  tasks'[d].w \in Windows /\ native'[tasks'[d].w] # "unborn"
  <2>1. tasks'[d] = tasks[d]
    BY DEF Idles, Begins, Goes, OnlyOne
  <2> QED BY <1>1, <2>1 DEF TasksLive, Ages
<1>2. ASSUME tasks'[c].todo # <<>>
      PROVE  tasks'[c].w \in Windows /\ native'[tasks'[c].w] # "unborn"
  <2>1. ~Idles(c)
    BY <1>2 DEF Idles
  <2>2. ASSUME NEW w \in Windows, Begins(c, w), native[w] # "unborn" PROVE tasks'[c].w = w
    BY <2>2 DEF Begins
  <2>3. ASSUME Goes(c) PROVE tasks[c].w \in Windows /\ native[tasks[c].w] # "unborn" /\ tasks'[c].w = tasks[c].w
    BY <1>2, <2>3 DEF TasksLive, Goes
  <2> QED BY <2>1, <2>2, <2>3 DEF Ages
<1> QED BY <1>1, <1>2 DEF TasksLive

LEMMA RecordsStay ==
  ASSUME Types, RecordsLive, Ages, Known' \subseteq Known,
         \A w \in Windows : native'[w] = "unborn" => native[w] = "unborn" /\ shown'[w] = shown[w],
         recent' = recent, snapshot' = snapshot
  PROVE  RecordsLive'
<1>1. \A w \in Known' : native'[w] # "unborn"
  BY RegistryIs DEF RecordsLive, Ages, Types
<1>2. snapshot # <<>> => snapshot[1].w \in Windows
  <2> SUFFICES ASSUME snapshot # <<>> PROVE snapshot[1].w \in Windows
    OBVIOUS
  <2>1. snapshot \in Seq(Copies)
    BY DEF Types, OutsideTypes
  <2>2. snapshot[1] \in Copies
    BY <2>1, EmptySeq, ElementOfSeq
  <2> QED BY <2>2 DEF Copies
<1> QED BY <1>1, <1>2 DEF RecordsLive, Ages

LEMMA SameNative == ASSUME native' = native PROVE Ages
BY DEF Ages

LEMMA OpenLives ==
  ASSUME Types, Lives, OpensHold, NEW w \in Windows, NEW desc \in Descs, OpenWindow(w, desc) PROVE Lives'
<1>1. /\ native[w] = "unborn" /\ native' = [native EXCEPT ![w] = "alive"] /\ front' = front /\ shown' = shown
      /\ pending' = pending /\ tasks' = tasks /\ snapshot' = snapshot /\ recent' = recent
  BY DEF OpenWindow, OpensHold, savedVars
<1>2. native \in [Windows -> {"unborn", "alive", "gone"}]
  BY DEF Types, OutsideTypes
<1>3. native'[w] = "alive" /\ \A v \in Windows \ {w} : native'[v] = native[v]
  BY <1>1, <1>2
<1>4. Ages
  BY <1>1, <1>3 DEF Ages
<1>5. TasksLive'
  BY <1>1, <1>4, TasksStay DEF Lives
<1>6. Known' = Known \union {w} /\ Known \subseteq Windows
  BY Opening, RegistryIs DEF Types
<1>7. snapshot # <<>> => snapshot[1].w \in Windows
  <2> SUFFICES ASSUME snapshot # <<>> PROVE snapshot[1].w \in Windows
    OBVIOUS
  <2>1. snapshot \in Seq(Copies)
    BY DEF Types, OutsideTypes
  <2>2. snapshot[1] \in Copies
    BY <2>1, EmptySeq, ElementOfSeq
  <2> QED BY <2>2 DEF Copies
<1>8. RecordsLive'
  BY <1>1, <1>3, <1>6, <1>7 DEF Lives, RecordsLive
<1>9. EventsLive'
  BY <1>1, <1>3 DEF Types, OutsideTypes, Lives, EventsLive
<1> QED BY <1>5, <1>8, <1>9 DEF Lives

(* The focus moves to a window, or to none. *)
LEMMA Longer ==
  ASSUME NEW w \in Windows \union {NoWindow}, Types, pending' = pending \o FocusEvents(w)
  PROVE  /\ DOMAIN pending = 1..Len(pending) /\ Len(pending) \in Nat /\ DOMAIN pending \subseteq DOMAIN pending'
         /\ \A i \in DOMAIN pending : pending'[i] = pending[i]
         /\ \A i \in DOMAIN pending' : i \in DOMAIN pending \/
              \/ i = Len(pending) + 1 /\ front # NoWindow /\ pending'[i] = [w |-> front, kind |-> "blur"]
              \/ w # NoWindow /\ pending'[i] = [w |-> w, kind |-> "focus"] /\ i > Len(pending)
                 /\ (front # NoWindow => i = Len(pending) + 2) 
         /\ w # NoWindow => \E i \in DOMAIN pending' :
                 /\ pending'[i] = [w |-> w, kind |-> "focus"]
                 /\ \A j \in DOMAIN pending' : j # i => j < i
         /\ front # NoWindow => Len(pending) + 1 \in DOMAIN pending'
                                /\ pending'[Len(pending) + 1] = [w |-> front, kind |-> "blur"]
<1>1. pending \in Seq(Events) /\ FocusEvents(w) \in Seq(Events)
  BY EventsAre DEF Types, OutsideTypes
<1> DEFINE n == Len(pending)
<1> DEFINE more == FocusEvents(w)
<1>2. DOMAIN pending = 1..n /\ n \in Nat /\ Len(more) \in Nat
  BY <1>1
<1> HIDE DEF more
<1>3. /\ pending' \in Seq(Events) /\ Len(pending') = n + Len(more)
      /\ \A i \in 1..(n + Len(more)) : pending'[i] = IF i <= n THEN pending[i] ELSE more[i - n]
  BY <1>1, <1>2, ConcatProperties DEF more
<1>4. DOMAIN pending' = 1..(n + Len(more))
  BY <1>3
<1> HIDE DEF n
<1>5. /\ \A i \in DOMAIN pending : i \in DOMAIN pending' /\ pending'[i] = pending[i]
      /\ \A k \in 1..Len(more) : n + k \in DOMAIN pending' /\ pending'[n + k] = more[k]
      /\ \A i \in DOMAIN pending' : i \in DOMAIN pending \/ (i - n \in 1..Len(more) /\ i = n + (i - n))
  <2>1. ASSUME NEW k \in 1..Len(more) PROVE n + k \in DOMAIN pending' /\ pending'[n + k] = more[k]
    <3>1. n + k \in 1..(n + Len(more)) /\ ~(n + k <= n) /\ (n + k) - n = k
      BY <1>2
    <3> QED BY <1>3, <1>4, <3>1
  <2>2. \A i \in DOMAIN pending : i \in DOMAIN pending' /\ pending'[i] = pending[i]
    BY <1>2, <1>3, <1>4
  <2>3. \A i \in DOMAIN pending' : i \in DOMAIN pending \/ (i - n \in 1..Len(more) /\ i = n + (i - n))
    BY <1>2, <1>4
  <2> QED BY <2>1, <2>2, <2>3
<1>6. CASE front = NoWindow /\ w = NoWindow
  <2>1. more = <<>> /\ Len(more) = 0
    BY <1>6, MovesAre DEF more
  <2> QED BY <1>2, <1>5, <1>6, <2>1 DEF n
<1>7. CASE front = NoWindow /\ w # NoWindow
  <2>1. Len(more) = 1 /\ more[1] = [w |-> w, kind |-> "focus"]
    BY <1>7, MovesAre DEF more
  <2>2. n + 1 \in DOMAIN pending' /\ pending'[n + 1] = [w |-> w, kind |-> "focus"]
    BY <1>5, <2>1
  <2>3. \A i \in DOMAIN pending' : i \in DOMAIN pending \/ i = n + 1
    BY <1>2, <1>5, <2>1
  <2> QED BY <1>2, <1>5, <1>7, <2>2, <2>3 DEF n
<1>8. CASE front # NoWindow /\ w = NoWindow
  <2>1. Len(more) = 1 /\ more[1] = [w |-> front, kind |-> "blur"]
    BY <1>8, MovesAre DEF more
  <2>2. n + 1 \in DOMAIN pending' /\ pending'[n + 1] = [w |-> front, kind |-> "blur"]
    BY <1>5, <2>1
  <2>3. \A i \in DOMAIN pending' : i \in DOMAIN pending \/ i = n + 1
    <3>1. \A k \in 1..Len(more) : k = 1
      BY <2>1
    <3> QED BY <1>5, <3>1
  <2> QED BY <1>2, <1>5, <1>8, <2>2, <2>3 DEF n
<1>9. CASE front # NoWindow /\ w # NoWindow
  <2>1. Len(more) = 2 /\ more[1] = [w |-> front, kind |-> "blur"] /\ more[2] = [w |-> w, kind |-> "focus"]
    BY <1>9, MovesAre DEF more
  <2>2. /\ n + 1 \in DOMAIN pending' /\ pending'[n + 1] = [w |-> front, kind |-> "blur"]
        /\ n + 2 \in DOMAIN pending' /\ pending'[n + 2] = [w |-> w, kind |-> "focus"]
    BY <1>5, <2>1
  <2>3. \A i \in DOMAIN pending' : i \in DOMAIN pending \/ i = n + 1 \/ i = n + 2
    <3>1. \A k \in 1..Len(more) : k = 1 \/ k = 2
      BY <2>1
    <3> QED BY <1>5, <3>1
  <2>4. \A j \in DOMAIN pending' : j # n + 2 => j < n + 2
    BY <1>2, <2>3
  <2>5. n + 2 > n
    BY <1>2
  <2> HIDE <1>2
  <2> QED BY <1>2, <1>5, <1>9, <2>2, <2>3, <2>4, <2>5 DEF n
<1> QED BY <1>6, <1>7, <1>8, <1>9

LEMMA UserFocusLives ==
  ASSUME Types, Lives, NEW w \in Windows \union {NoWindow}, UserFocus(w) PROVE Lives'
<1>1. /\ w # NoWindow => native[w] = "alive"
      /\ native' = native /\ front' = w /\ pending' = pending \o FocusEvents(w)
      /\ windows' = windows /\ shown' = shown /\ tasks' = tasks /\ snapshot' = snapshot /\ recent' = recent
  BY DEF UserFocus, registryVars, savedVars
<1>2. EventsLive'
  BY <1>1 DEF EventsLive
<1>3. TasksLive'
  BY <1>1, SameNative, TasksStay DEF Lives
<1>4. RecordsLive'
  BY <1>1, SameNative, SameRegistry, RecordsStay DEF Lives
<1> QED BY <1>2, <1>3, <1>4 DEF Lives

LEMMA OneEventMore ==
  ASSUME Types, NEW e \in Events, pending' = Append(pending, e)
  PROVE  /\ DOMAIN pending = 1..Len(pending) /\ Len(pending) \in Nat
         /\ DOMAIN pending' = DOMAIN pending \union {Len(pending) + 1}
         /\ pending'[Len(pending) + 1] = e /\ \A i \in DOMAIN pending : pending'[i] = pending[i]
<1>1. pending \in Seq(Events)
  BY DEF Types, OutsideTypes
<1>2. DOMAIN pending = 1..Len(pending) /\ Len(pending) \in Nat
  BY <1>1
<1>3. Append(pending, e) \in Seq(Events) /\ Len(Append(pending, e)) = Len(pending) + 1
  BY <1>1
<1>4. DOMAIN Append(pending, e) = DOMAIN pending \union {Len(pending) + 1}
  BY <1>2, <1>3
<1>5. Append(pending, e)[Len(pending) + 1] = e /\ \A i \in DOMAIN pending : Append(pending, e)[i] = pending[i]
  BY <1>1
<1> QED BY <1>2, <1>4, <1>5

LEMMA DestroyedLives ==
  ASSUME Types, Lives, NEW w \in Windows, native[w] = "alive", Destroyed(w),
         windows' = windows, shown' = shown, snapshot' = snapshot, recent' = recent
  PROVE  RecordsLive' /\ EventsLive' /\ Ages /\ native'[w] = "gone"
<1>1. /\ native' = [native EXCEPT ![w] = "gone"] /\ front' = (IF front = w THEN NoWindow ELSE front)
      /\ pending' = Append(pending, [w |-> w, kind |-> "destroyed"])
  BY DEF Destroyed
<1>2. native \in [Windows -> {"unborn", "alive", "gone"}] /\ front \in Windows \union {NoWindow}
  BY DEF Types, OutsideTypes
<1>3. native'[w] = "gone" /\ \A v \in Windows \ {w} : native'[v] = native[v]
  BY <1>1, <1>2
<1>4. Ages
  BY <1>3 DEF Ages
<1>5. RecordsLive'
  <2>1. Known' = Known
    BY SameRegistry
  <2>2. \A v \in Windows : native'[v] = "unborn" => native[v] = "unborn" /\ shown'[v] = shown[v]
    BY <1>3
  <2> QED BY <1>4, <2>1, <2>2, RecordsStay DEF Lives
<1>6. EventsLive'
  BY <1>1, <1>2, <1>3 DEF Lives, EventsLive
<1> QED BY <1>3, <1>4, <1>5, <1>6

LEMMA UserCloseLives ==
  ASSUME Types, Lives, NEW w \in Windows, UserClose(w) PROVE Lives'
<1>1. /\ native[w] = "alive" /\ Destroyed(w) /\ windows' = windows /\ shown' = shown
      /\ snapshot' = snapshot /\ recent' = recent /\ tasks' = tasks
  BY DEF UserClose, registryVars, savedVars
<1>2. RecordsLive' /\ EventsLive' /\ Ages
  BY <1>1, DestroyedLives
<1>3. TasksLive'
  BY <1>1, <1>2, TasksStay DEF Lives
<1> QED BY <1>2, <1>3 DEF Lives

(* A focus is recorded only of a registered window. *)
LEMMA RecordingLives ==
  ASSUME Types, RecordsLive, NEW w \in Windows, NEW f \in BOOLEAN, RecordFocus(w, f),
         native' = native, shown' = shown, snapshot' = snapshot
  PROVE  RecordsLive' /\ Known' = Known
<1>1. CASE w \notin Known \/ f = FALSE
  <2>1. Known' = Known /\ recent' = recent
    <3>1. CASE w \notin Known
      BY <3>1, Unrecorded, SameRegistry
    <3>2. CASE w \in Known
      BY <1>1, <3>2, Losing DEF Types
    <3> QED BY <3>1, <3>2
  <2> QED BY <2>1, SameNative, RecordsStay
<1>2. CASE w \in Known /\ f = TRUE
  <2>1. Known' = Known /\ recent' = <<w>> \o recent /\ recent \in Seq(Windows)
    BY <1>2, Gaining DEF Types, RegistryTypes
  <2>2. \A i \in DOMAIN recent' : recent'[i] = w \/ \E j \in DOMAIN recent : recent'[i] = recent[j]
    <3>1. ASSUME NEW i \in DOMAIN (<<w>> \o recent)
          PROVE  (<<w>> \o recent)[i] = w \/ \E j \in DOMAIN recent : (<<w>> \o recent)[i] = recent[j]
      BY <2>1, Prepending
    <3> QED BY <2>1, <3>1
  <2>3. native[w] # "unborn"
    BY <1>2 DEF RecordsLive
  <2>4. ASSUME NEW v \in Windows, native[v] = "unborn", NEW i \in DOMAIN recent' PROVE recent'[i] # v
    BY <2>2, <2>3, <2>4 DEF RecordsLive
  <2>5. \A v \in Known' : native'[v] # "unborn"
    BY <2>1 DEF RecordsLive
  <2> QED BY <2>1, <2>4, <2>5 DEF RecordsLive
<1> QED BY <1>1, <1>2

LEMMA RemovingLives ==
  ASSUME Types, RecordsLive, NEW w, Removed(w),
         native' = native, shown' = shown, snapshot' = snapshot, recent' = recent
  PROVE  RecordsLive'
BY Removing, SameNative, RecordsStay DEF Types

LEMMA GuiLives == ASSUME Types, Lives, GuiEvent PROVE Lives'
<1> DEFINE e == Head(pending)
<1>1. /\ pending # <<>> /\ pending' = Tail(pending) /\ tasks' = tasks /\ native' = native /\ front' = front
      /\ shown' = shown /\ snapshot' = snapshot
      /\ \/ e.kind = "destroyed" /\ Removed(e.w) /\ recent' = recent
         \/ RecordFocus(e.w, e.kind = "focus")
  BY DEF GuiEvent, savedVars
<1>2. e \in Events /\ e = pending[1] /\ 1 \in DOMAIN pending
  BY <1>1, Taking DEF Types
<1>3. e.w \in Windows
  BY <1>2, EventFields
<1> HIDE DEF e
<1>4. RecordsLive'
  BY <1>1, <1>3, RemovingLives, RecordingLives DEF Lives
<1>5. TasksLive'
  BY <1>1, SameNative, TasksStay DEF Lives
<1>6. EventsLive'
  BY <1>1 DEF Lives, EventsLive
<1> QED BY <1>4, <1>5, <1>6 DEF Lives

LEMMA CopyLives ==
  ASSUME Types, Lives, (\E w \in Windows : Observe(w)) \/ SyncAsync PROVE Lives'
<1>1. /\ windows' = windows /\ native' = native /\ front' = front /\ shown' = shown /\ pending' = pending
      /\ tasks' = tasks /\ recent' = recent
  BY DEF Observe, SyncAsync, registryVars, toolkitVars
<1>2. TasksLive' /\ EventsLive'
  BY <1>1, SameNative, TasksStay DEF Lives, EventsLive
<1>3. snapshot' # <<>> => native[snapshot'[1].w] # "unborn"
  BY DEF Observe, SyncAsync, Lives, RecordsLive
<1>4. RecordsLive'
  BY <1>1, <1>3, SameRegistry DEF Lives, RecordsLive
<1> QED BY <1>2, <1>4 DEF Lives

(* The steps of requests. *)

LEMMA ActsOn ==
  ASSUME TasksLive, NEW c \in Clients, tasks[c].todo # <<>>
  PROVE  tasks[c].w \in Windows /\ native[tasks[c].w] # "unborn"
BY DEF TasksLive

LEMMA GoesLive ==
  ASSUME Types, TasksLive, NEW c \in Clients, Goes(c), native' = native PROVE TasksLive'
BY SameNative, TasksChange

LEMMA SameEvents ==
  ASSUME EventsLive, native' = native, front' = front PROVE EventsLive'
BY DEF EventsLive

LEMMA QuietLives ==
  ASSUME Types, Lives, NEW c \in Clients, UNCHANGED <<registryVars, toolkitVars, savedVars, recent>>,
         Idles(c) \/ \E w \in Known : Begins(c, w)
  PROVE  Lives'
<1>1. /\ windows' = windows /\ native' = native /\ front' = front /\ shown' = shown /\ pending' = pending
      /\ recent' = recent /\ snapshot' = snapshot
  BY DEF registryVars, toolkitVars, savedVars
<1>2. Idles(c) \/ \E w \in Windows : Begins(c, w) /\ native[w] # "unborn"
  BY RegistryIs DEF Types, Lives, RecordsLive
<1>3. TasksLive'
  BY <1>1, <1>2, SameNative, TasksChange DEF Lives
<1>4. RecordsLive'
  BY <1>1, SameNative, SameRegistry, RecordsStay DEF Lives
<1> QED BY <1>1, <1>3, <1>4, SameEvents DEF Lives

LEMMA NativeLives == ASSUME Types, Lives, NEW c \in Clients, Native(c) PROVE Lives'
<1> DEFINE w == tasks[c].w
<1>1. /\ tasks[c].todo # <<>> /\ Goes(c) /\ native[w] = "alive"
      /\ \/ Head(tasks[c].todo) = "set_focus" /\ FocusCall(c, w)
         \/ Head(tasks[c].todo) = "destroy" /\ DestroyCall(w)
         \/ StateCall(c, w)
      /\ windows' = windows /\ snapshot' = snapshot /\ recent' = recent
  BY NativeIs
<1>2. w \in Windows /\ TasksLive
  BY <1>1, ActsOn DEF Lives
<1> HIDE DEF w
<1>3. CASE Head(tasks[c].todo) = "set_focus" /\ FocusCall(c, w)
  <2>1. native' = native /\ shown' = shown
    BY <1>3 DEF FocusCall
  <2>2. TasksLive'
    BY <1>1, <1>2, <1>3, <2>1, GoesLive
  <2>3. RecordsLive'
    BY <1>1, <2>1, SameNative, SameRegistry, RecordsStay DEF Lives
  <2>4. EventsLive'
    BY <1>1, <1>3 DEF FocusCall, EventsLive
  <2> QED BY <2>2, <2>3, <2>4 DEF Lives
<1>4. CASE Head(tasks[c].todo) = "destroy" /\ DestroyCall(w)
  <2>1. RecordsLive' /\ EventsLive' /\ Ages /\ native'[w] = "gone"
    BY <1>1, <1>2, <1>4, DestroyedLives DEF DestroyCall
  <2>2. TasksLive'
    BY <1>1, <1>2, <2>1, TasksChange DEF w
  <2> QED BY <2>1, <2>2 DEF Lives
<1>5. CASE StateCall(c, w)
  <2>1. native' = native /\ front' = front /\ pending' = pending /\ Head(tasks[c].todo) \in StateCalls
    BY <1>5 DEF StateCall
  <2>2. TasksLive'
    BY <1>1, <1>2, <2>1, GoesLive DEF StateCalls
  <2>3. \A v \in Windows : native'[v] = "unborn" => native[v] = "unborn" /\ shown'[v] = shown[v]
    <3>1. shown \in [Windows -> States] /\ shown' = [shown EXCEPT ![w] = NativeState(Head(tasks[c].todo), shown[w])]
      BY <1>5 DEF StateCall, Types, OutsideTypes
    <3> QED BY <1>1, <2>1, <3>1
  <2>4. RecordsLive'
    BY <1>1, <2>1, <2>3, SameNative, SameRegistry, RecordsStay DEF Lives
  <2> QED BY <2>1, <2>2, <2>4, SameEvents DEF Lives
<1> QED BY <1>1, <1>3, <1>4, <1>5

LEMMA FocusDoneLives == ASSUME Types, Lives, NEW c \in Clients, FocusDone(c) PROVE Lives'
<1> DEFINE w == tasks[c].w
<1>1. /\ tasks[c].todo # <<>> /\ Goes(c) /\ Head(tasks[c].todo) = "record_focus" /\ RecordFocus(w, TRUE)
      /\ native' = native /\ front' = front /\ shown' = shown /\ pending' = pending /\ snapshot' = snapshot
  BY FocusDoneIs DEF toolkitVars, savedVars
<1>2. w \in Windows
  BY <1>1, ActsOn DEF Lives
<1>3. TasksLive'
  BY <1>1, GoesLive DEF Lives
<1>4. RecordsLive'
  BY <1>1, <1>2, RecordingLives DEF Lives
<1> QED BY <1>1, <1>3, <1>4, SameEvents DEF Lives

LEMMA CloseDoneLives == ASSUME Types, Lives, NEW c \in Clients, CloseDone(c) PROVE Lives'
<1>1. /\ Goes(c) /\ Removed(tasks[c].w) /\ native' = native /\ front' = front /\ shown' = shown
      /\ snapshot' = snapshot /\ recent' = recent
  BY CloseDoneIs DEF toolkitVars, savedVars
<1> QED BY <1>1, GoesLive, RemovingLives, SameEvents DEF Lives

(* A step that changes a record keeps what lives. *)
LEMMA RecordLives ==
  ASSUME Types, Lives, NEW c \in Clients, Known' = Known, UNCHANGED <<toolkitVars, snapshot, recent>>,
         Idles(c) \/ Goes(c)
  PROVE  Lives'
<1>1. /\ native' = native /\ front' = front /\ shown' = shown /\ pending' = pending
      /\ recent' = recent /\ snapshot' = snapshot
  BY DEF toolkitVars
<1>2. TasksLive'
  BY <1>1, SameNative, TasksChange DEF Lives
<1>3. RecordsLive'
  BY <1>1, SameNative, RecordsStay DEF Lives
<1> QED BY <1>1, <1>2, <1>3, SameEvents DEF Lives

LEMMA StateDoneLives == ASSUME Types, Lives, NEW c \in Clients, StateDone(c) PROVE Lives'
<1>1. CASE tasks[c].w \in Known
  <2> DEFINE r == WithState(windows[tasks[c].w], Head(tasks[c].todo))
  <2>1. Turns(tasks[c].w, r) /\ r \in WindowRecords /\ Goes(c) /\ UNCHANGED <<toolkitVars, snapshot, recent>>
    BY <1>1, StateDoneIs DEF savedVars
  <2> HIDE DEF r
  <2>2. Known' = Known
    BY <1>1, <2>1, Turning DEF Types
  <2> QED BY <2>1, <2>2, RecordLives
<1>2. CASE tasks[c].w \notin Known
  BY <1>2, StateDoneIs, SameRegistry, RecordLives DEF savedVars
<1> QED BY <1>1, <1>2

LEMMA TagLives == ASSUME Types, Lives, NEW c \in Clients, Tag(c) PROVE Lives'
<1> DEFINE w == tasks[c].w
<1> DEFINE r == [windows[w] EXCEPT !.desc = tasks[c].desc]
<1>1. /\ Goes(c) /\ UNCHANGED <<toolkitVars, snapshot, recent>>
      /\ tasks[c].desc \in Descs
      /\ (w \in Known /\ Turns(w, r)) \/ windows' = windows
  BY TagIs
<1>2. w \in Known => r \in WindowRecords
  BY <1>1, RegistryIs, DescTurns DEF Types
<1> HIDE DEF r, w
<1>3. Known' = Known
  BY <1>1, <1>2, Turning, SameRegistry DEF Types
<1> QED BY <1>1, <1>3, RecordLives

(* The order of the windows and the history of the focus. *)

LEMMA RanksStay ==
  ASSUME Types, Ranks, counter' = counter, recent' = recent, Known' \subseteq Known,
         \A v \in Known' : windows'[v].order = windows[v].order /\ (windows'[v].focused => windows[v].focused)
  PROVE  Ranks'
<1> SUFFICES ASSUME NEW v \in Known' PROVE Ranked(v)'
  BY DEF Ranks
<1>1. Ranked(v) /\ windows'[v].order = windows[v].order /\ (windows'[v].focused => windows[v].focused)
  BY DEF Ranks
<1> QED BY <1>1 DEF Ranked

LEMMA RanksOpen ==
  ASSUME Types, RecordsLive, OpensHold, Ranks, NEW w \in Windows, NEW desc \in Descs, OpenWindow(w, desc) PROVE Ranks'
<1>1. native[w] = "unborn" /\ counter' = counter /\ recent' = recent /\ counter \in Nat
  BY DEF OpenWindow, OpensHold, Types, RegistryTypes
<1>2. Known' = Known \union {w} /\ windows'[w] = NewRecord(desc) /\ \A v \in Known \ {w} : windows'[v] = windows[v]
  BY Opening DEF Types
<1>3. windows'[w].order = 0 /\ windows'[w].focused = FALSE
  BY <1>2 DEF NewRecord
<1>4. \A i \in DOMAIN recent : recent[i] # w
  BY <1>1 DEF RecordsLive
<1>5. Ranked(w)'
  BY <1>1, <1>3, <1>4 DEF Ranked
<1>6. ASSUME NEW v \in Known \ {w} PROVE Ranked(v)'
  <2>1. Ranked(v) /\ windows'[v] = windows[v]
    BY <1>2 DEF Ranks
  <2> QED BY <1>1, <2>1 DEF Ranked
<1> QED BY <1>1, <1>2, <1>5, <1>6 DEF Ranks

LEMMA RanksGain ==
  ASSUME Types, Ranks, NEW w \in Known, RecordFocus(w, TRUE) PROVE Ranks'
<1>1. /\ Known' = Known /\ counter' = counter + 1 /\ recent' = <<w>> \o recent
      /\ windows'[w].focused = TRUE /\ windows'[w].order = counter + 1
      /\ \A v \in Known \ {w} : windows'[v].focused = FALSE /\ windows'[v].order = windows[v].order
  BY Gaining DEF Types
<1>2. /\ counter \in Nat /\ recent \in Seq(Windows) /\ w \in Windows /\ Len(recent) = counter
      /\ \A v \in Known : windows[v].order \in Nat
  BY RegistryIs, RecordFields DEF Types, RegistryTypes, Ranks
<1> DEFINE more == <<w>> \o recent
<1>3. /\ Len(more) = Len(recent) + 1 /\ more[1] = w /\ \A i \in DOMAIN recent : more[i + 1] = recent[i]
      /\ DOMAIN recent = 1..Len(recent)
      /\ \A i \in DOMAIN more : i = 1 \/ (i - 1 \in DOMAIN recent /\ more[i] = recent[i - 1])
      /\ DOMAIN more = 1..Len(more)
  <2>1. more \in Seq(Windows)
    BY <1>2, Prepending
  <2>2. DOMAIN more = 1..Len(more)
    BY <2>1
  <2> QED BY <1>2, <2>2, Prepending
<1>4. recent' = more
  BY <1>1
<1> HIDE DEF more
<1>5. Len(recent') = counter'
  BY <1>1, <1>2, <1>3, <1>4
<1>6. Ranked(w)'
  <2>1. counter' + 1 - windows'[w].order = 1 /\ windows'[w].order > 0 /\ windows'[w].order <= counter'
        /\ counter' > 0 /\ windows'[w].order = counter' /\ 1..(1 - 1) = {}
    BY <1>1, <1>2
  <2> QED BY <1>3, <1>4, <2>1 DEF Ranked
<1>7. ASSUME NEW v \in Known \ {w} PROVE Ranked(v)'
  <2> DEFINE o == windows[v].order
  <2> DEFINE first == counter + 1 - o
  <2>1. /\ o \in Nat /\ o <= counter
        /\ o = 0 => \A i \in DOMAIN recent : recent[i] # v
        /\ o > 0 => recent[first] = v /\ \A j \in 1..first - 1 : recent[j] # v
    BY <1>2 DEF Ranks, Ranked
  <2>2. windows'[v].order = o /\ windows'[v].focused = FALSE
    BY <1>1
  <2>3. counter' + 1 - o = first + 1 /\ first \in Nat
    BY <1>1, <1>2, <2>1
  <2>4. ASSUME o = 0, NEW i \in DOMAIN more PROVE more[i] # v
    BY <1>3, <2>1, <2>4
  <2>5. ASSUME o > 0 PROVE more[first + 1] = v /\ \A j \in 1..(first + 1) - 1 : more[j] # v
    <3>1. first \in 1..Len(recent)
      BY <1>2, <2>1, <2>3, <2>5
    <3>2. more[first + 1] = v
      BY <1>3, <2>1, <2>5, <3>1
    <3>3. ASSUME NEW j \in 1..(first + 1) - 1 PROVE more[j] # v
      <4>1. j \in DOMAIN more /\ j \in Nat /\ (j # 1 => j - 1 \in 1..first - 1)
        BY <1>3, <2>3, <3>1
      <4> QED BY <1>3, <2>1, <2>5, <4>1
    <3> QED BY <3>2, <3>3
  <2>6. o <= counter'
    BY <1>1, <1>2, <2>1
  <2> HIDE DEF o, first
  <2>7. \A j \in 1..((first + 1) - 1) : o > 0 => recent'[j] # v
    BY <1>4, <2>5
  <2> QED BY <1>4, <2>2, <2>3, <2>4, <2>5, <2>6, <2>7 DEF Ranked
<1> QED BY <1>1, <1>5, <1>6, <1>7 DEF Ranks

LEMMA RanksRecord ==
  ASSUME Types, Ranks, NEW w \in Windows, NEW f \in BOOLEAN, RecordFocus(w, f) PROVE Ranks'
<1>1. CASE w \notin Known
  BY <1>1, Unrecorded, SameRegistry, RanksStay
<1>2. CASE w \in Known /\ f = TRUE
  BY <1>2, RanksGain
<1>3. CASE w \in Known /\ f = FALSE
  <2>1. /\ Known' = Known /\ counter' = counter /\ recent' = recent
        /\ windows'[w].focused = FALSE /\ windows'[w].order = windows[w].order
        /\ \A v \in Known \ {w} : windows'[v] = windows[v]
    BY <1>3, Losing DEF Types
  <2> QED BY <2>1, RanksStay
<1> QED BY <1>1, <1>2, <1>3

LEMMA RanksRemove ==
  ASSUME Types, Ranks, NEW w, Removed(w), counter' = counter, recent' = recent PROVE Ranks'
BY Removing, RanksStay DEF Types

LEMMA RanksSame ==
  ASSUME Types, Ranks, windows' = windows, counter' = counter, recent' = recent PROVE Ranks'
BY SameRegistry, RanksStay

LEMMA GuiRanks == ASSUME Types, Ranks, GuiEvent PROVE Ranks'
<1> DEFINE e == Head(pending)
<1>1. /\ pending # <<>>
      /\ \/ Removed(e.w) /\ counter' = counter /\ recent' = recent
         \/ RecordFocus(e.w, e.kind = "focus")
  BY DEF GuiEvent
<1>2. e \in Events
  BY <1>1, Taking DEF Types
<1>3. e.w \in Windows
  BY <1>2, EventFields
<1> HIDE DEF e
<1> QED BY <1>1, <1>3, RanksRemove, RanksRecord

LEMMA StateDoneRanks == ASSUME Types, Ranks, NEW c \in Clients, StateDone(c) PROVE Ranks'
<1>1. CASE tasks[c].w \in Known
  <2> DEFINE r == WithState(windows[tasks[c].w], Head(tasks[c].todo))
  <2>1. Turns(tasks[c].w, r) /\ r \in WindowRecords /\ counter' = counter /\ recent' = recent
    BY <1>1, StateDoneIs
  <2>2. windows[tasks[c].w] \in WindowRecords /\ Head(tasks[c].todo) \in StateRecords
    BY <1>1, StateDoneIs, RegistryIs DEF Types
  <2>3. r.focused = windows[tasks[c].w].focused /\ r.order = windows[tasks[c].w].order
    BY <2>2, StateTurns
  <2> HIDE DEF r
  <2> QED BY <1>1, <2>1, <2>3, Turning, RanksStay DEF Types
<1>2. CASE tasks[c].w \notin Known
  BY <1>2, StateDoneIs, RanksSame
<1> QED BY <1>1, <1>2

LEMMA TagRanks == ASSUME Types, Ranks, NEW c \in Clients, Tag(c) PROVE Ranks'
<1> DEFINE w == tasks[c].w
<1> DEFINE r == [windows[w] EXCEPT !.desc = tasks[c].desc]
<1>1. /\ counter' = counter /\ recent' = recent /\ tasks[c].desc \in Descs
      /\ (w \in Known /\ Turns(w, r)) \/ windows' = windows
  BY TagIs
<1>2. CASE w \in Known /\ Turns(w, r)
  <2>1. windows[w] \in WindowRecords
    BY <1>2, RegistryIs DEF Types
  <2>2. r \in WindowRecords /\ r.focused = windows[w].focused /\ r.order = windows[w].order
    BY <1>1, <2>1, DescTurns
  <2> HIDE DEF r, w
  <2> QED BY <1>1, <1>2, <2>2, Turning, RanksStay DEF Types
<1>3. CASE windows' = windows
  BY <1>1, <1>3, RanksSame
<1> QED BY <1>1, <1>2, <1>3

(* What the toolkit shows and the registry has. *)

LEMMA StateAfter ==
  ASSUME NEW r \in WindowRecords, NEW step \in StateRecords
  PROVE  /\ WithState(r, step).max = MaxAfter(r.max, step) /\ WithState(r, step).min = MinAfter(r.min, step)
         /\ WithState(r, step) \in WindowRecords
BY DEF WithState, StateRecords, WindowRecords, MaxAfter, MinAfter

LEMMA CallAgrees ==
  ASSUME NEW step \in StateCalls, NEW max \in BOOLEAN, NEW min \in BOOLEAN, NEW state \in States, Agrees(max, min, state)
  PROVE  Agrees(MaxAfter(max, RecordOf(step)), MinAfter(min, RecordOf(step)), NativeState(step, state))
BY DEF StateCalls, States, Agrees, MaxAfter, MinAfter, RecordOf, NativeState

\* A step that leaves alone what the invariant says of a window.
ShownAlone(w) ==
  /\ windows'[w].max = windows[w].max /\ windows'[w].min = windows[w].min /\ shown'[w] = shown[w]
  /\ \A c \in Clients : /\ Puts(c, w)' <=> Puts(c, w)
                        /\ Puts(c, w) => tasks'[c].todo = tasks[c].todo

LEMMA ShowsStay == ASSUME NEW w, Shows(w), ShownAlone(w) PROVE Shows(w)'
<1>1. ASSUME \A c \in Clients : ~Puts(c, w)' PROVE Agrees(windows'[w].max, windows'[w].min, shown'[w])
  BY <1>1 DEF Shows, ShownAlone
<1>2. ASSUME NEW c \in Clients, Puts(c, w)'
      PROVE  /\ Agrees(MaxAfter(windows'[w].max, Head(tasks'[c].todo)),
                       MinAfter(windows'[w].min, Head(tasks'[c].todo)), shown'[w])
             /\ \A d \in Clients \ {c} : ~Puts(d, w)'
  BY <1>2 DEF Shows, ShownAlone
<1> QED BY <1>1, <1>2 DEF Shows

LEMMA ShownStays ==
  ASSUME Shown, Known' \subseteq Known, mixed \subseteq mixed', \A w \in Known' : ShownAlone(w) PROVE Shown'
BY ShowsStay DEF Shown

LEMMA PutsStay == ASSUME NEW c, NEW w, tasks'[c] = tasks[c] PROVE Puts(c, w)' <=> Puts(c, w)
BY DEF Puts

LEMMA SameTasks ==
  ASSUME tasks' = tasks, NEW w, windows'[w].max = windows[w].max, windows'[w].min = windows[w].min,
         shown'[w] = shown[w]
  PROVE  ShownAlone(w)
BY DEF ShownAlone, Puts

LEMMA OtherTasks ==
  ASSUME NEW c \in Clients, OnlyOne(c), NEW w, windows'[w].max = windows[w].max,
         windows'[w].min = windows[w].min, shown'[w] = shown[w], ~Puts(c, w), ~Puts(c, w)'
  PROVE  ShownAlone(w)
<1>1. \A d \in Clients \ {c} : (Puts(d, w)' <=> Puts(d, w)) /\ tasks'[d] = tasks[d]
  BY PutsStay DEF OnlyOne
<1> QED BY <1>1 DEF ShownAlone

LEMMA NoPuts ==
  ASSUME NEW c, NEW w, tasks[c].todo = <<>> \/ Head(tasks[c].todo) \notin StateRecords PROVE ~Puts(c, w)
BY DEF Puts

LEMMA NoPutsNext ==
  ASSUME Types, NEW c \in Clients, NEW w,
         Idles(c) \/ (\E v : Begins(c, v))
           \/ (Goes(c) /\ (tasks[c].w # w \/ Head(tasks[c].todo) \notin StateCalls))
  PROVE  ~Puts(c, w)'
<1>1. CASE Idles(c)
  BY <1>1 DEF Idles, Puts
<1>2. CASE \E v : Begins(c, v)
  BY <1>2, StepsApart DEF Begins, Puts
<1>3. CASE Goes(c) /\ (tasks[c].w # w \/ Head(tasks[c].todo) \notin StateCalls)
  <2> SUFFICES ASSUME tasks'[c].todo # <<>>, tasks'[c].w = w, Head(tasks'[c].todo) \in StateRecords PROVE FALSE
    BY DEF Puts
  <2>1. /\ tasks[c].todo \in Todos /\ tasks[c].todo # <<>> /\ tasks'[c].todo = Tail(tasks[c].todo)
        /\ Head(tasks[c].todo) \notin StateCalls
    BY <1>3, TaskIs, TaskFields DEF Goes, Types
  <2>2. Head(tasks[c].todo) \in {"set_focus", "destroy", "record_focus", "tag", "remove"} \union StateRecords
    BY <2>1, TodoFirst DEF Steps, NativeCalls
  <2>3. /\ "record_focus" \notin StateRecords /\ "remove" \notin StateRecords
        /\ \A s \in StateCalls : s \notin StateRecords
    BY StepsApart
  <2> QED BY <2>1, <2>2, <2>3, TodoSecond
<1> QED BY <1>1, <1>2, <1>3

LEMMA QuietShown ==
  ASSUME Types, Shown, NEW c \in Clients, Call(c) \/ CallAll(c) \/ Resolve(c) \/ NativeFails(c),
         UNCHANGED <<registryVars, toolkitVars, savedVars, recent, overtaken, mixed>>,
         Idles(c) \/ \E v \in Known : Begins(c, v)
  PROVE  Shown'
<1>1. tasks[c].todo = <<>> \/ Head(tasks[c].todo) \notin StateRecords
  <2>1. CASE Call(c) \/ CallAll(c)
    BY <2>1, IdleIs DEF Call, CallAll
  <2>2. CASE Resolve(c)
    BY <2>2 DEF Resolve
  <2>3. CASE NativeFails(c)
    BY <2>3, AtIs, StepsApart DEF NativeFails
  <2> QED BY <2>1, <2>2, <2>3
<1>2. windows' = windows /\ shown' = shown /\ mixed' = mixed /\ Known' = Known
  BY SameRegistry DEF registryVars, toolkitVars
<1>3. OnlyOne(c)
  BY DEF Idles, Begins
<1>4. \A w : ~Puts(c, w) /\ ~Puts(c, w)'
  BY <1>1, NoPuts, NoPutsNext
<1>5. \A w \in Known' : ShownAlone(w)
  BY <1>2, <1>3, <1>4, OtherTasks
<1> QED BY <1>2, <1>5, ShownStays

LEMMA OpenShown ==
  ASSUME Types, Lives, OpensHold, Shown, NEW w \in Windows, NEW desc \in Descs, OpenWindow(w, desc) PROVE Shown'
<1>1. native[w] = "unborn" /\ shown' = shown /\ tasks' = tasks /\ mixed' = mixed
  BY DEF OpenWindow, OpensHold
<1>2. Known' = Known \union {w} /\ windows'[w] = NewRecord(desc) /\ \A v \in Known \ {w} : windows'[v] = windows[v]
  BY Opening DEF Types
<1>3. shown[w] = "normal" /\ \A c \in Clients : ~Puts(c, w)'
  BY <1>1 DEF Lives, RecordsLive, TasksLive, Puts
<1>4. windows'[w].max = FALSE /\ windows'[w].min = FALSE
  BY <1>2 DEF NewRecord
<1>5. Shows(w)'
  <2>1. Agrees(windows'[w].max, windows'[w].min, shown'[w])
    BY <1>1, <1>3, <1>4 DEF Agrees
  <2> QED BY <1>3, <2>1 DEF Shows
<1>6. ASSUME NEW v \in Known \ mixed, v # w PROVE Shows(v)'
  <2>1. ShownAlone(v)
    BY <1>1, <1>2, <1>6, SameTasks
  <2> QED BY <1>6, <2>1, ShowsStay DEF Shown
<1> QED BY <1>1, <1>2, <1>5, <1>6 DEF Shown

LEMMA SameShown ==
  ASSUME Types, Shown, tasks' = tasks, shown' = shown, mixed' = mixed, Known' \subseteq Known,
         \A v \in Known' : windows'[v].max = windows[v].max /\ windows'[v].min = windows[v].min
  PROVE  Shown'
BY SameTasks, ShownStays

LEMMA RecordingShown ==
  ASSUME Types, NEW w \in Windows, NEW f \in BOOLEAN, RecordFocus(w, f)
  PROVE  /\ Known' = Known
         /\ \A v \in Known' : windows'[v].desc = windows[v].desc /\ windows'[v].max = windows[v].max
                              /\ windows'[v].min = windows[v].min
<1>1. CASE w \notin Known
  BY <1>1, Unrecorded, SameRegistry
<1>2. CASE w \in Known /\ f = TRUE
  BY <1>2, Gaining DEF Types, SameBut
<1>3. CASE w \in Known /\ f = FALSE
  <2>1. /\ Known' = Known /\ SameBut(windows'[w], windows[w]) /\ \A v \in Known \ {w} : windows'[v] = windows[v]
    BY <1>3, Losing DEF Types
  <2> QED BY <2>1 DEF SameBut
<1> QED BY <1>1, <1>2, <1>3

LEMMA GuiShown == ASSUME Types, Shown, GuiEvent PROVE Shown'
<1> DEFINE e == Head(pending)
<1>1. /\ pending # <<>> /\ tasks' = tasks /\ shown' = shown /\ mixed' = mixed
      /\ Removed(e.w) \/ RecordFocus(e.w, e.kind = "focus")
  BY DEF GuiEvent
<1>2. e \in Events
  BY <1>1, Taking DEF Types
<1>3. e.w \in Windows
  BY <1>2, EventFields
<1> HIDE DEF e
<1>4. CASE Removed(e.w)
  BY <1>1, <1>4, Removing, SameShown DEF Types
<1>5. CASE RecordFocus(e.w, e.kind = "focus")
  BY <1>1, <1>3, <1>5, RecordingShown, SameShown
<1> QED BY <1>1, <1>4, <1>5

\* A step of a request that is about to record no state.
LEMMA OtherShown ==
  ASSUME Types, Shown, NEW c \in Clients, Goes(c), Head(tasks[c].todo) \notin StateRecords \union StateCalls,
         shown' = shown, mixed' = mixed, Known' \subseteq Known,
         \A v \in Known' : windows'[v].max = windows[v].max /\ windows'[v].min = windows[v].min
  PROVE  Shown'
<1>1. \A w : ~Puts(c, w) /\ ~Puts(c, w)'
  BY NoPuts, NoPutsNext
<1>2. OnlyOne(c)
  BY DEF Goes
<1>3. \A w \in Known' : ShownAlone(w)
  BY <1>1, <1>2, OtherTasks
<1> QED BY <1>3, ShownStays

LEMMA FocusDoneShown ==
  ASSUME Types, Lives, Shown, NEW c \in Clients, FocusDone(c) PROVE Shown'
<1>1. /\ tasks[c].todo # <<>> /\ Goes(c) /\ Head(tasks[c].todo) = "record_focus" /\ RecordFocus(tasks[c].w, TRUE)
      /\ shown' = shown /\ mixed' = mixed
  BY FocusDoneIs DEF toolkitVars
<1>2. tasks[c].w \in Windows
  BY <1>1, ActsOn DEF Lives
<1>3. /\ Known' = Known
      /\ \A v \in Known' : windows'[v].max = windows[v].max /\ windows'[v].min = windows[v].min
  BY <1>1, <1>2, RecordingShown
<1>4. "record_focus" \notin StateRecords \union StateCalls
  BY DEF StateRecords, StateCalls
<1> QED BY <1>1, <1>3, <1>4, OtherShown

LEMMA CloseDoneShown == ASSUME Types, Shown, NEW c \in Clients, CloseDone(c) PROVE Shown'
<1>1. /\ Goes(c) /\ Head(tasks[c].todo) = "remove" /\ Removed(tasks[c].w) /\ shown' = shown /\ mixed' = mixed
  BY CloseDoneIs DEF toolkitVars
<1>2. "remove" \notin StateRecords \union StateCalls
  BY DEF StateRecords, StateCalls
<1>3. Known' \subseteq Known /\ \A v \in Known' : windows'[v].max = windows[v].max /\ windows'[v].min = windows[v].min
  BY <1>1, Removing DEF Types
<1> QED BY <1>1, <1>2, <1>3, OtherShown

LEMMA TagTurns ==
  ASSUME Types, NEW c \in Clients, Tag(c)
  PROVE  /\ Known' = Known
         /\ \A v \in Known' : windows'[v].max = windows[v].max /\ windows'[v].min = windows[v].min
                              /\ windows'[v].focused = windows[v].focused
<1> DEFINE w == tasks[c].w
<1> DEFINE r == [windows[w] EXCEPT !.desc = tasks[c].desc]
<1>1. tasks[c].desc \in Descs /\ ((w \in Known /\ Turns(w, r)) \/ windows' = windows)
  BY TagIs
<1>2. CASE w \in Known /\ Turns(w, r)
  <2>1. windows[w] \in WindowRecords
    BY <1>2, RegistryIs DEF Types
  <2>2. /\ r \in WindowRecords /\ r.max = windows[w].max /\ r.min = windows[w].min
        /\ r.focused = windows[w].focused
    BY <1>1, <2>1, DescTurns
  <2> HIDE DEF r, w
  <2>3. Known' = Known /\ windows'[w] = r /\ \A v \in Known \ {w} : windows'[v] = windows[v]
    BY <1>2, <2>2, Turning DEF Types
  <2> QED BY <2>2, <2>3
<1>3. CASE windows' = windows
  BY <1>3, SameRegistry
<1> QED BY <1>1, <1>2, <1>3

LEMMA TagShown == ASSUME Types, Shown, NEW c \in Clients, Tag(c) PROVE Shown'
<1>1. Goes(c) /\ Head(tasks[c].todo) = "tag" /\ shown' = shown /\ mixed' = mixed
  BY TagIs DEF toolkitVars
<1>2. "tag" \notin StateRecords \union StateCalls
  BY DEF StateRecords, StateCalls
<1> QED BY <1>1, <1>2, TagTurns, OtherShown

LEMMA NativeShown == ASSUME Types, Shown, NEW c \in Clients, Native(c) PROVE Shown'
<1>0. PICK w, step : w = tasks[c].w /\ step = Head(tasks[c].todo)
  OBVIOUS
<1>1. /\ tasks[c].todo # <<>> /\ Goes(c) /\ windows' = windows /\ Known' = Known
      /\ \/ step = "set_focus" /\ FocusCall(c, w)
         \/ step = "destroy" /\ DestroyCall(w)
         \/ StateCall(c, w)
  BY <1>0, NativeIs, SameRegistry
<1>2. CASE (step = "set_focus" /\ FocusCall(c, w)) \/ (step = "destroy" /\ DestroyCall(w))
  <2>1. shown' = shown /\ mixed' = mixed
    BY <1>2 DEF FocusCall, DestroyCall
  <2>2. step \notin StateRecords \union StateCalls
    BY <1>2 DEF StateRecords, StateCalls
  <2> QED BY <1>0, <1>1, <2>1, <2>2, OtherShown
<1>3. CASE StateCall(c, w)
  <2>1. /\ step \in StateCalls /\ shown' = [shown EXCEPT ![w] = NativeState(step, shown[w])]
        /\ mixed' = (IF Recording(c, w) THEN mixed \union {w} ELSE mixed)
        /\ shown \in [Windows -> States] /\ OnlyOne(c)
    BY <1>0, <1>1, <1>3 DEF StateCall, Types, OutsideTypes, Goes
  <2>2. \A v : ~Puts(c, v)
    BY <1>0, <2>1, StepsApart, NoPuts
  <2>3. ASSUME NEW v \in Known \ mixed, v # w PROVE Shows(v)'
    <3>1. ~Puts(c, v)'
      BY <1>0, <1>1, <2>3, NoPutsNext
    <3>2. shown'[v] = shown[v]
      BY <2>1, <2>3
    <3>3. ShownAlone(v)
      BY <1>1, <2>1, <2>2, <3>1, <3>2, OtherTasks
    <3> QED BY <2>3, <3>3, ShowsStay DEF Shown
  <2>4. ASSUME w \in Known, w \notin mixed, ~Recording(c, w) PROVE Shows(w)'
    <3>1. \A d \in Clients \ {c} : ~Puts(d, w) /\ ~Puts(d, w)'
      BY <2>1, <2>4, PutsStay DEF Recording, Puts, At, OnlyOne
    <3>2. windows[w].max \in BOOLEAN /\ windows[w].min \in BOOLEAN /\ w \in Windows
      BY <2>4, RegistryIs, RecordFields DEF Types
    <3>3. Agrees(windows[w].max, windows[w].min, shown[w])
      BY <2>2, <2>4, <3>1 DEF Shown, Shows
    <3>4. /\ tasks'[c].todo = Tail(tasks[c].todo) /\ Tail(tasks[c].todo) # <<>>
          /\ Head(tasks'[c].todo) = RecordOf(step)
      <4>1. tasks[c].todo \in Todos
        BY TaskIs, TaskFields DEF Types
      <4> QED BY <1>0, <1>1, <2>1, <4>1, TodoSecond DEF Goes
    <3>5. shown'[w] = NativeState(step, shown[w]) /\ shown[w] \in States
      BY <2>1, <3>2
    <3>6. Agrees(MaxAfter(windows[w].max, RecordOf(step)), MinAfter(windows[w].min, RecordOf(step)), shown'[w])
      BY <2>1, <3>2, <3>3, <3>5, CallAgrees
    <3>7. Puts(c, w)'
      <4>1. RecordOf(step) \in StateRecords
        BY <2>1 DEF RecordOf, StateCalls, StateRecords
      <4> QED BY <1>0, <1>1, <3>4, <4>1 DEF Puts, Goes
    <3> QED BY <1>1, <3>1, <3>4, <3>6, <3>7 DEF Shows
  <2> QED BY <1>1, <2>1, <2>3, <2>4 DEF Shown
<1> QED BY <1>1, <1>2, <1>3

LEMMA StateDoneShown == ASSUME Types, Shown, NEW c \in Clients, StateDone(c) PROVE Shown'
<1>0. PICK w, step : w = tasks[c].w /\ step = Head(tasks[c].todo)
  OBVIOUS
<1>1. tasks[c].todo # <<>> /\ step \in StateRecords /\ shown' = shown /\ mixed' = mixed
  BY <1>0, StateDoneIs DEF toolkitVars
<1>2. \A v : v # w => ~Puts(c, v)
  BY <1>0 DEF Puts
<1>3. CASE w \in Known
  <2> DEFINE r == WithState(windows[w], step)
  <2>1. Turns(w, r) /\ Goes(c)
    BY <1>0, <1>3, StateDoneIs
  <2>2. windows[w] \in WindowRecords
    BY <1>3, RegistryIs DEF Types
  <2>3. r \in WindowRecords /\ r.max = MaxAfter(windows[w].max, step) /\ r.min = MinAfter(windows[w].min, step)
    BY <1>1, <2>2, StateAfter
  <2> HIDE DEF r
  <2>4. Known' = Known /\ windows'[w] = r /\ \A v \in Known \ {w} : windows'[v] = windows[v]
    BY <1>3, <2>1, <2>3, Turning DEF Types
  <2>5. OnlyOne(c) /\ step \notin StateCalls
    BY <1>1, <2>1, StepsApart DEF Goes
  <2>6. \A v : ~Puts(c, v)'
    BY <1>0, <2>1, <2>5, NoPutsNext
  <2>7. ASSUME NEW v \in Known \ mixed, v # w PROVE Shows(v)'
    <3>1. ShownAlone(v)
      BY <1>1, <1>2, <2>4, <2>5, <2>6, <2>7, OtherTasks
    <3> QED BY <2>7, <3>1, ShowsStay DEF Shown
  <2>8. ASSUME w \notin mixed PROVE Shows(w)'
    <3>1. Puts(c, w)
      BY <1>0, <1>1 DEF Puts
    <3>2. /\ Agrees(MaxAfter(windows[w].max, step), MinAfter(windows[w].min, step), shown[w])
          /\ \A d \in Clients \ {c} : ~Puts(d, w)
      BY <1>0, <1>3, <2>8, <3>1 DEF Shown, Shows
    <3>3. \A d \in Clients : ~Puts(d, w)'
      BY <2>5, <2>6, <3>2, PutsStay DEF OnlyOne
    <3>4. Agrees(windows'[w].max, windows'[w].min, shown'[w])
      BY <1>1, <2>3, <2>4, <3>2
    <3> QED BY <3>3, <3>4 DEF Shows
  <2> QED BY <1>1, <2>4, <2>7, <2>8 DEF Shown
<1>4. CASE w \notin Known
  <2>1. Idles(c) /\ windows' = windows /\ Known' = Known
    BY <1>0, <1>4, StateDoneIs, SameRegistry
  <2>2. \A v : ~Puts(c, v)'
    BY <2>1, NoPutsNext
  <2>3. \A v \in Known' : ShownAlone(v)
    BY <1>1, <1>2, <1>4, <2>1, <2>2, OtherTasks DEF Idles
  <2> QED BY <1>1, <2>1, <2>3, ShownStays
<1> QED BY <1>3, <1>4

(* What the worker has stored. *)

\* No window's tracking begins.
TracksNothing == \A v \in Windows : opening'[v] = "tracked" => opening[v] = "tracked"

LEMMA SameOpens == ASSUME openVars' = openVars PROVE opening' = opening /\ copied' = copied /\ TracksNothing
BY DEF openVars, TracksNothing

LEMMA StoredStays ==
  ASSUME Types, Stored, TracksNothing, Known' \subseteq Known, UNCHANGED <<snapshot, saved, stale>>,
         \A v \in Known' : windows'[v].desc = windows[v].desc
  PROVE  Stored'
<1>1. Known \subseteq Windows
  BY RegistryIs DEF Types
<1> QED BY <1>1 DEF TracksNothing, Stored, Stores, Tracked

LEMMA RemovedDescs ==
  ASSUME Types, NEW w, Removed(w)
  PROVE  Known' \subseteq Known /\ \A v \in Known' : windows'[v].desc = windows[v].desc
BY Removing DEF Types

LEMMA GuiStored == ASSUME Types, Stored, TracksNothing, GuiEvent PROVE Stored'
<1> DEFINE e == Head(pending)
<1>1. /\ pending # <<>> /\ UNCHANGED <<snapshot, saved, stale>>
      /\ Removed(e.w) \/ RecordFocus(e.w, e.kind = "focus")
  BY DEF GuiEvent, savedVars
<1>2. e \in Events
  BY <1>1, Taking DEF Types
<1>3. e.w \in Windows
  BY <1>2, EventFields
<1> HIDE DEF e
<1> QED BY <1>1, <1>3, RemovedDescs, RecordingShown, StoredStays

LEMMA FocusDoneStored ==
  ASSUME Types, Lives, Stored, TracksNothing, NEW c \in Clients, FocusDone(c) PROVE Stored'
<1>1. tasks[c].todo # <<>> /\ RecordFocus(tasks[c].w, TRUE) /\ UNCHANGED <<snapshot, saved, stale>>
  BY FocusDoneIs DEF savedVars
<1>2. tasks[c].w \in Windows
  BY <1>1, ActsOn DEF Lives
<1> QED BY <1>1, <1>2, RecordingShown, StoredStays

LEMMA CloseDoneStored == ASSUME Types, Stored, TracksNothing, NEW c \in Clients, CloseDone(c) PROVE Stored'
BY CloseDoneIs, RemovedDescs, StoredStays DEF savedVars

LEMMA SameStored ==
  ASSUME Types, Stored, TracksNothing, windows' = windows, savedVars' = savedVars PROVE Stored'
BY SameRegistry, StoredStays DEF savedVars

LEMMA StateDoneTurns ==
  ASSUME Types, NEW c \in Clients, StateDone(c)
  PROVE  /\ Known' = Known
         /\ \A v \in Known' : windows'[v].desc = windows[v].desc /\ windows'[v].focused = windows[v].focused
<1> DEFINE w == tasks[c].w
<1>1. CASE w \in Known
  <2> DEFINE r == WithState(windows[w], Head(tasks[c].todo))
  <2>1. Turns(w, r) /\ windows[w] \in WindowRecords /\ Head(tasks[c].todo) \in StateRecords
    BY <1>1, StateDoneIs, RegistryIs DEF Types
  <2>2. r \in WindowRecords /\ r.desc = windows[w].desc /\ r.focused = windows[w].focused
    BY <2>1, StateTurns
  <2> HIDE DEF r, w
  <2>3. Known' = Known /\ windows'[w] = r /\ \A v \in Known \ {w} : windows'[v] = windows[v]
    BY <1>1, <2>1, <2>2, Turning DEF Types
  <2> QED BY <2>2, <2>3
<1>2. CASE w \notin Known
  BY <1>2, StateDoneIs, SameRegistry
<1> QED BY <1>1, <1>2

LEMMA StateDoneStored == ASSUME Types, Stored, TracksNothing, NEW c \in Clients, StateDone(c) PROVE Stored'
BY StateDoneIs, StateDoneTurns, StoredStays DEF savedVars

LEMMA OpenStored ==
  ASSUME Types, Lives, Stored, OpensHold, NEW w \in Windows, NEW desc \in Descs, OpenWindow(w, desc)
  PROVE  Stored'
<1>1. native[w] = "unborn" /\ UNCHANGED <<snapshot, saved, stale>>
  BY DEF OpenWindow, OpensHold, savedVars
<1>2. opening'[w] = "set_focus" /\ \A v \in Windows \ {w} : opening'[v] = opening[v]
  BY DEF OpenWindow, ThenOpen, OpensHold, OpenTypes
<1>3. /\ Known' = Known \union {w} /\ \A v \in Known \ {w} : windows'[v] = windows[v]
      /\ Known \subseteq Windows
  BY Opening, RegistryIs DEF Types
<1>4. Stores(w)'
  <2>1. ~(snapshot # <<>> /\ snapshot[1].w = w)
    BY <1>1 DEF Lives, RecordsLive
  <2> QED BY <1>1, <1>2, <2>1 DEF Stores, Tracked
<1>5. ASSUME NEW v \in Known \ stale, v # w PROVE Stores(v)'
  <2>1. Stores(v) /\ opening'[v] = opening[v] /\ windows'[v] = windows[v]
    BY <1>2, <1>3, <1>5 DEF Stored
  <2> QED BY <1>1, <2>1 DEF Stores, Tracked
<1> QED BY <1>1, <1>3, <1>4, <1>5 DEF Stored

\* What the open has copied is still the record's, and is stored.
LEMMA TrackStored ==
  ASSUME Types, Stored, OpensHold, NEW w \in Windows, OpenTracks(w)
  PROVE  Stored' /\ saved' \in [Windows -> Descs]
<1>1. /\ opening[w] = "track" /\ saved' = [saved EXCEPT ![w] = copied[w]]
      /\ UNCHANGED <<windows, snapshot, stale>>
  BY DEF OpenTracks, registryVars
<1>2. copied[w] \in Descs /\ saved \in [Windows -> Descs]
  BY DEF OpensHold, OpenTypes, Types, OutsideTypes
<1>3. saved' \in [Windows -> Descs] /\ saved'[w] = copied[w] /\ \A v \in Windows \ {w} : saved'[v] = saved[v]
  BY <1>1, <1>2
<1>4. \A v \in Windows \ {w} : opening'[v] = opening[v]
  BY DEF OpenTracks, ThenOpen, OpensHold, OpenTypes
<1>5. Known' = Known /\ Known \subseteq Windows
  BY <1>1, SameRegistry, RegistryIs DEF Types
<1>6. ASSUME w \in Known \ stale PROVE Stores(w)'
  <2>1. Stores(w) /\ copied[w] = windows[w].desc
    BY <1>1, <1>6 DEF Stored, OpensHold
  <2> QED BY <1>1, <1>3, <2>1 DEF Stores
<1>7. ASSUME NEW v \in Known \ stale, v # w PROVE Stores(v)'
  <2>1. Stores(v) /\ saved'[v] = saved[v] /\ opening'[v] = opening[v]
    BY <1>3, <1>4, <1>5, <1>7 DEF Stored
  <2> QED BY <1>1, <2>1 DEF Stores, Tracked
<1> QED BY <1>1, <1>3, <1>5, <1>6, <1>7 DEF Stored

LEMMA ObserveStored ==
  ASSUME Types, Stored, opening' = opening, NEW w \in Windows, Observe(w) PROVE Stored'
<1>1. /\ snapshot = <<>> /\ snapshot' = <<[w |-> w, desc |-> windows[w].desc]>>
      /\ stale' = (IF Tracked(w) THEN stale \ {w} ELSE stale)
      /\ windows' = windows /\ saved' = saved
  BY DEF Observe, registryVars
<1>2. Known' = Known
  BY <1>1, SameRegistry
<1>3. snapshot' # <<>> /\ snapshot'[1].w = w /\ snapshot'[1].desc = windows[w].desc
  BY <1>1
<1>4. Stores(w)'
  BY <1>1, <1>3 DEF Stores
<1>5. ASSUME NEW v \in Known \ stale, v # w PROVE Stores(v)'
  <2>1. Tracked(v) => saved[v] = windows[v].desc
    BY <1>1, <1>5 DEF Stored, Stores
  <2> QED BY <1>1, <1>3, <1>5, <2>1 DEF Stores, Tracked
<1> QED BY <1>1, <1>2, <1>4, <1>5 DEF Stored

LEMMA SyncStored == ASSUME Types, Stored, opening' = opening, SyncAsync PROVE Stored'
<1>0. PICK w, desc : w = snapshot[1].w /\ desc = snapshot[1].desc
  OBVIOUS
<1>1. /\ snapshot # <<>> /\ snapshot' = <<>> /\ saved' = Synced(w, desc)
      /\ windows' = windows /\ stale' = stale
  BY <1>0 DEF SyncAsync, registryVars
<1>2. Known' = Known /\ Known \subseteq Windows
  BY <1>1, SameRegistry, RegistryIs DEF Types
<1>3. w \in Windows /\ desc \in Descs
  <2>1. snapshot \in Seq(Copies)
    BY DEF Types, OutsideTypes
  <2>2. snapshot[1] \in Copies
    BY <1>1, <2>1, EmptySeq, ElementOfSeq
  <2> QED BY <1>0, <2>2 DEF Copies
<1>4. /\ Tracked(w) => Synced(w, desc)[w] = desc
      /\ \A v \in Windows \ {w} : Synced(w, desc)[v] = saved[v]
  BY <1>3, Syncing DEF Types
<1>5. ASSUME NEW v \in Known \ stale, Tracked(v) PROVE saved'[v] = windows[v].desc
  <2>1. Stores(v) /\ v \in Windows
    BY <1>2, <1>5 DEF Stored
  <2> QED BY <1>0, <1>1, <1>4, <1>5, <2>1 DEF Stores
<1> QED BY <1>1, <1>2, <1>5 DEF Stored, Stores, Tracked

LEMMA TagStored == ASSUME Types, Stored, opening' = opening, NEW c \in Clients, Tag(c) PROVE Stored'
<1>0. PICK w, desc : w = tasks[c].w /\ desc = tasks[c].desc
  OBVIOUS
<1> DEFINE r == [windows[w] EXCEPT !.desc = desc]
<1>1. /\ snapshot' = snapshot /\ desc \in Descs
      /\ \/ /\ w \in Known /\ Turns(w, r) /\ saved' = Synced(w, desc)
            /\ stale' = IF Copied(w) THEN stale \union {w} ELSE stale
         \/ windows' = windows /\ saved' = saved /\ stale' = stale
  BY <1>0, TagIs
<1>2. CASE windows' = windows /\ saved' = saved /\ stale' = stale
  BY <1>1, <1>2, SameStored DEF savedVars, TracksNothing
<1>3. CASE /\ w \in Known /\ Turns(w, r) /\ saved' = Synced(w, desc)
           /\ stale' = IF Copied(w) THEN stale \union {w} ELSE stale
  <2>1. windows[w] \in WindowRecords /\ Known \subseteq Windows
    BY <1>3, RegistryIs DEF Types
  <2>2. r \in WindowRecords /\ r.desc = desc
    BY <1>1, <2>1, DescTurns
  <2> HIDE DEF r
  <2>3. Known' = Known /\ windows'[w] = r /\ \A v \in Known \ {w} : windows'[v] = windows[v]
    BY <1>3, <2>2, Turning DEF Types
  <2>4. (Tracked(w) => saved'[w] = desc) /\ \A v \in Known \ {w} : saved'[v] = saved[v]
    BY <1>1, <1>3, <2>1, Syncing DEF Types
  <2>5. w \notin stale' => Stores(w)'
    BY <1>1, <1>3, <2>2, <2>3, <2>4 DEF Stores, Copied, Tracked
  <2>6. ASSUME NEW v \in Known \ stale, v # w PROVE Stores(v)'
    <3>1. Stores(v) /\ windows'[v] = windows[v] /\ saved'[v] = saved[v]
      BY <2>3, <2>4, <2>6 DEF Stored
    <3> QED BY <1>1, <3>1 DEF Stores, Tracked
  <2> QED BY <1>3, <2>3, <2>5, <2>6 DEF Stored
<1> QED BY <1>1, <1>2, <1>3

(* Where the focus is, and where the events lead the record of it. *)

LEMMA MovesStay ==
  ASSUME Moves, pending' = pending, front' = front, overtaken' = overtaken,
         \A v \in Windows : v \in Known' /\ windows'[v].focused => v \in Known /\ windows[v].focused,
         front \in Known' => front \in Known /\ (windows[front].focused => windows'[front].focused)
  PROVE  Moves'
<1>1. ASSUME NEW v \in Windows \ {front'} PROVE Away(v)'
  <2>1. Away(v)
    BY <1>1 DEF Moves
  <2> QED BY <2>1 DEF Away, Clears, Focuses
<1>2. ASSUME NEW f, f = front, f \in Known' PROVE Here(f)'
  <2>1. Here(f)
    BY <1>2 DEF Moves
  <2> QED BY <1>2, <2>1 DEF Here, Focuses
<1> QED BY <1>1, <1>2 DEF Moves

LEMMA FrontIs ==
  ASSUME Types, Lives, front # NoWindow PROVE front \in Windows /\ native[front] = "alive"
BY DEF Types, OutsideTypes, Lives, EventsLive

LEMMA SameMoves ==
  ASSUME Types, Moves, pending' = pending, front' = front, overtaken' = overtaken, windows' = windows PROVE Moves'
BY SameRegistry, MovesStay

LEMMA RemovingMoves ==
  ASSUME Types, Moves, NEW w, Removed(w), pending' = pending, front' = front, overtaken' = overtaken PROVE Moves'
<1>1. Known' = Known \ {w} /\ \A v \in Known' : windows'[v] = windows[v]
  BY Removing DEF Types
<1> QED BY <1>1, MovesStay

LEMMA OpenMoves ==
  ASSUME Types, Lives, Moves, OpensHold, NEW w \in Windows, NEW desc \in Descs, OpenWindow(w, desc) PROVE Moves'
<1>1. native[w] = "unborn" /\ pending' = pending /\ front' = front /\ overtaken' = overtaken
  BY DEF OpenWindow, OpensHold
<1>2. Known' = Known \union {w} /\ windows'[w] = NewRecord(desc) /\ \A v \in Known \ {w} : windows'[v] = windows[v]
  BY Opening DEF Types
<1>3. windows'[w].focused = FALSE
  BY <1>2 DEF NewRecord
<1>4. front # w
  BY <1>1, FrontIs, AssumedRegistry
<1> QED BY <1>1, <1>2, <1>3, <1>4, MovesStay

LEMMA MoveMoves ==
  ASSUME Types, Moves, NEW w \in Windows \union {NoWindow}, w # front, front' = w,
         pending' = pending \o FocusEvents(w), windows' = windows, overtaken' = overtaken
  PROVE  Moves'
<1>0. PICK n : n = Len(pending)
  OBVIOUS
<1>1. /\ DOMAIN pending = 1..n /\ n \in Nat /\ DOMAIN pending \subseteq DOMAIN pending'
      /\ \A i \in DOMAIN pending : pending'[i] = pending[i]
      /\ front # NoWindow => n + 1 \in DOMAIN pending' /\ pending'[n + 1] = [w |-> front, kind |-> "blur"]
      /\ w # NoWindow => \E i \in DOMAIN pending' :
                 /\ pending'[i] = [w |-> w, kind |-> "focus"]
                 /\ \A j \in DOMAIN pending' : j # i => j < i
  BY <1>0, Longer
<1>2. \A i \in DOMAIN pending' : \/ i \in DOMAIN pending
                                 \/ front # NoWindow /\ pending'[i] = [w |-> front, kind |-> "blur"]
                                 \/ w # NoWindow /\ pending'[i] = [w |-> w, kind |-> "focus"]
  BY Longer
<1>3. Known' = Known
  BY SameRegistry
<1>4. ASSUME NEW v \in Windows \ {w} PROVE Away(v)'
  <2>1. \A i \in DOMAIN pending' : Focuses(i, v)' => i \in DOMAIN pending /\ Focuses(i, v)
    BY <1>1, <1>2, <1>4 DEF Focuses
  <2>2. CASE v = front
    <3>1. n + 1 \in DOMAIN pending' /\ Clears(n + 1, v)'
      BY <1>1, <2>2, AssumedRegistry DEF Clears
    <3>2. \A i \in DOMAIN pending : i < n + 1
      BY <1>1
    <3> QED BY <2>1, <3>1, <3>2 DEF Away
  <2>3. CASE v # front
    <3>1. Away(v)
      BY <2>3 DEF Moves
    <3>2. \A i \in DOMAIN pending : Clears(i, v) => i \in DOMAIN pending' /\ Clears(i, v)'
      BY <1>1 DEF Clears
    <3> QED BY <1>3, <2>1, <3>1, <3>2 DEF Away
  <2> QED BY <2>2, <2>3
<1>5. ASSUME w # NoWindow PROVE Here(w)'
  <2>1. PICK k \in DOMAIN pending' : /\ pending'[k] = [w |-> w, kind |-> "focus"]
                                    /\ \A j \in DOMAIN pending' : j # k => j < k
    BY <1>1, <1>5
  <2>2. Focuses(k, w)'
    BY <2>1 DEF Focuses
  <2>3. \A i \in DOMAIN pending' : pending'[i].kind = "blur" \/ pending'[i].w # w => i < k
    BY <2>1
  <2> QED BY <2>2, <2>3 DEF Here
<1>6. w \in Known' => w # NoWindow
  BY <1>3, RegistryIs, AssumedRegistry DEF Types
<1> QED BY <1>4, <1>5, <1>6 DEF Moves

\* A window is given the focus: it moves, or the window has it.
LEMMA FocusingMoves ==
  ASSUME Types, Moves, NEW w \in Windows, front' = w,
         pending' = (IF front = w THEN pending ELSE pending \o FocusEvents(w)),
         windows' = windows, overtaken' = overtaken
  PROVE  Moves'
<1>1. CASE front = w
  BY <1>1, SameMoves
<1>2. CASE front # w
  BY <1>2, MoveMoves
<1> QED BY <1>1, <1>2

LEMMA DestroyedMoves ==
  ASSUME Types, Moves, NEW w \in Windows, Destroyed(w), windows' = windows, overtaken' = overtaken
  PROVE  Moves'
<1> DEFINE e == [w |-> w, kind |-> "destroyed"]
<1>0. PICK n : n = Len(pending)
  OBVIOUS
<1>1. front' = (IF front = w THEN NoWindow ELSE front) /\ pending' = Append(pending, e)
  BY DEF Destroyed
<1>2. e \in Events /\ e.w = w /\ e.kind = "destroyed"
  BY DEF Events
<1> HIDE DEF e
<1>3. /\ DOMAIN pending = 1..n /\ n \in Nat /\ DOMAIN pending' = DOMAIN pending \union {n + 1}
      /\ pending'[n + 1] = e /\ \A i \in DOMAIN pending : pending'[i] = pending[i]
  BY <1>0, <1>1, <1>2, OneEventMore
<1>4. Known' = Known
  BY SameRegistry
<1>5. \A i \in DOMAIN pending : i < n + 1 /\ i \in DOMAIN pending'
  BY <1>3
<1>6. ASSUME NEW v \in Windows \ {front'} PROVE Away(v)'
  <2>1. \A i \in DOMAIN pending' : Focuses(i, v)' => i \in DOMAIN pending /\ Focuses(i, v)
    BY <1>2, <1>3 DEF Focuses
  <2>2. CASE v = w
    <3>1. n + 1 \in DOMAIN pending' /\ Clears(n + 1, v)'
      BY <1>2, <1>3, <2>2 DEF Clears
    <3> QED BY <1>5, <2>1, <3>1 DEF Away
  <2>3. CASE v # w
    <3>1. Away(v)
      BY <1>1, <1>6, <2>3 DEF Moves
    <3>2. \A i \in DOMAIN pending : Clears(i, v) => i \in DOMAIN pending' /\ Clears(i, v)'
      BY <1>3, <1>5 DEF Clears
    <3> QED BY <1>4, <2>1, <3>1, <3>2 DEF Away
  <2> QED BY <2>2, <2>3
<1>7. ASSUME NEW f, f = front', f \in Known' PROVE Here(f)'
  <2>1. f # NoWindow
    BY <1>4, <1>7, RegistryIs, AssumedRegistry DEF Types
  <2>2. Here(f) /\ f # w
    BY <1>1, <1>4, <1>7, <2>1 DEF Moves
  <2>3. \A i \in DOMAIN pending' : pending'[i].kind \in {"blur", "focus"} => i \in DOMAIN pending /\ pending'[i] = pending[i]
    BY <1>2, <1>3
  <2>4. \A i \in DOMAIN pending : Focuses(i, f) => i \in DOMAIN pending' /\ Focuses(i, f)'
    BY <1>3, <1>5 DEF Focuses
  <2> QED BY <2>2, <2>3, <2>4 DEF Here
<1> QED BY <1>6, <1>7 DEF Moves

(* The GUI thread takes the next event. *)
LEMMA Shifting ==
  ASSUME Types, pending # <<>>, pending' = Tail(pending), NEW v
  PROVE  /\ \A i \in DOMAIN pending' : /\ i \in Nat /\ i + 1 \in DOMAIN pending
                                       /\ pending'[i] = pending[i + 1]
                                       /\ Focuses(i, v)' <=> Focuses(i + 1, v)
                                       /\ Clears(i, v)' <=> Clears(i + 1, v)
         /\ \A i \in DOMAIN pending : i = 1 \/ (i \in Nat /\ i - 1 \in DOMAIN pending' /\ (i - 1) + 1 = i)
         /\ 1 \in DOMAIN pending
<1>1. /\ DOMAIN pending = 1..Len(pending) /\ Len(pending) \in Nat /\ Len(pending) > 0
      /\ DOMAIN pending' = 1..(Len(pending) - 1)
      /\ \A i \in DOMAIN pending' : i + 1 \in DOMAIN pending /\ pending'[i] = pending[i + 1]
  BY Taking DEF Types
<1>2. \A i \in DOMAIN pending : i = 1 \/ (i \in Nat /\ i - 1 \in DOMAIN pending' /\ (i - 1) + 1 = i)
  BY <1>1
<1>3. \A i \in DOMAIN pending' : i \in Nat
  BY <1>1
<1> QED BY <1>1, <1>2, <1>3 DEF Focuses, Clears

\* The events that remain lead where all of them did.
LEMMA AwayLater ==
  ASSUME Types, pending # <<>>, pending' = Tail(pending), NEW v, Away(v)
  PROVE  /\ \A i \in DOMAIN pending' : Focuses(i, v)' => \E j \in DOMAIN pending' : i < j /\ Clears(j, v)'
         /\ Focuses(1, v) => \E j \in DOMAIN pending' : Clears(j, v)'
         /\ (\E i \in DOMAIN pending : Clears(i, v)) /\ ~Clears(1, v) => \E j \in DOMAIN pending' : Clears(j, v)'
<1>1. ASSUME NEW i \in DOMAIN pending', Focuses(i, v)' PROVE \E j \in DOMAIN pending' : i < j /\ Clears(j, v)'
  <2>1. i \in Nat /\ i + 1 \in DOMAIN pending /\ Focuses(i + 1, v)
    BY <1>1, Shifting
  <2>2. PICK k \in DOMAIN pending : i + 1 < k /\ Clears(k, v)
    BY <2>1 DEF Away
  <2>3. k \in Nat /\ k - 1 \in DOMAIN pending' /\ (k - 1) + 1 = k
    BY <2>1, <2>2, Shifting
  <2>4. PICK j \in DOMAIN pending' : j + 1 = k /\ i < j
    BY <2>1, <2>2, <2>3
  <2>5. Clears(j, v)'
    BY <2>2, <2>4, Shifting
  <2> QED BY <2>4, <2>5
<1>2. ASSUME NEW k \in DOMAIN pending, Clears(k, v), k # 1 PROVE \E j \in DOMAIN pending' : Clears(j, v)'
  <2>1. k - 1 \in DOMAIN pending' /\ (k - 1) + 1 = k
    BY <1>2, Shifting
  <2>2. Clears(k - 1, v)'
    BY <1>2, <2>1, Shifting
  <2> QED BY <2>1, <2>2
<1>3. ASSUME Focuses(1, v) PROVE \E j \in DOMAIN pending' : Clears(j, v)'
  <2>1. 1 \in DOMAIN pending
    BY Shifting
  <2>2. PICK k \in DOMAIN pending : 1 < k /\ Clears(k, v)
    BY <1>3, <2>1 DEF Away
  <2> QED BY <1>2, <2>2
<1> QED BY <1>1, <1>2, <1>3

LEMMA HereLater ==
  ASSUME Types, pending # <<>>, pending' = Tail(pending), NEW v, Here(v)
  PROVE  /\ \A i \in DOMAIN pending' : pending'[i].kind = "blur" /\ pending'[i].w = v
              => \E j \in DOMAIN pending' : i < j /\ Focuses(j, v)'
         /\ \A i \in DOMAIN pending' : pending'[i].kind = "focus" /\ pending'[i].w # v
              => \E j \in DOMAIN pending' : i < j /\ Focuses(j, v)'
         /\ (pending[1].kind = "blur" /\ pending[1].w = v) \/ (pending[1].kind = "focus" /\ pending[1].w # v)
              => \E j \in DOMAIN pending' : Focuses(j, v)'
         /\ (\E i \in DOMAIN pending : Focuses(i, v)) /\ ~Focuses(1, v) => \E j \in DOMAIN pending' : Focuses(j, v)'
<1>1. ASSUME NEW i \in DOMAIN pending',
             (pending'[i].kind = "blur" /\ pending'[i].w = v) \/ (pending'[i].kind = "focus" /\ pending'[i].w # v)
      PROVE  \E j \in DOMAIN pending' : i < j /\ Focuses(j, v)'
  <2>1. i \in Nat /\ i + 1 \in DOMAIN pending /\ pending'[i] = pending[i + 1]
    BY Shifting
  <2>2. PICK k \in DOMAIN pending : i + 1 < k /\ Focuses(k, v)
    BY <1>1, <2>1 DEF Here
  <2>3. k \in Nat /\ k - 1 \in DOMAIN pending' /\ (k - 1) + 1 = k
    BY <2>1, <2>2, Shifting
  <2>4. Focuses(k - 1, v)' /\ i < k - 1
    BY <2>1, <2>2, <2>3, Shifting
  <2> QED BY <2>3, <2>4
<1>2. ASSUME NEW k \in DOMAIN pending, Focuses(k, v), k # 1 PROVE \E j \in DOMAIN pending' : Focuses(j, v)'
  <2>1. k - 1 \in DOMAIN pending' /\ (k - 1) + 1 = k
    BY <1>2, Shifting
  <2>2. Focuses(k - 1, v)'
    BY <1>2, <2>1, Shifting
  <2> QED BY <2>1, <2>2
<1>3. ASSUME (pending[1].kind = "blur" /\ pending[1].w = v) \/ (pending[1].kind = "focus" /\ pending[1].w # v)
      PROVE  \E j \in DOMAIN pending' : Focuses(j, v)'
  <2>1. 1 \in DOMAIN pending
    BY Shifting
  <2>2. PICK k \in DOMAIN pending : 1 < k /\ Focuses(k, v)
    BY <1>3, <2>1 DEF Here
  <2> QED BY <1>2, <2>2
<1> QED BY <1>1, <1>2, <1>3

LEMMA DestroyedEventMoves ==
  ASSUME Types, Moves, pending # <<>>, pending' = Tail(pending), front' = front,
         pending[1].kind = "destroyed", Removed(pending[1].w), overtaken' = overtaken
  PROVE  Moves'
<1>0. PICK w : w = pending[1].w
  OBVIOUS
<1>1. /\ Known' = Known \ {w} /\ \A v \in Known' : windows'[v] = windows[v]
  BY <1>0, Removing DEF Types
<1>2. ASSUME NEW v \in Windows \ {front'} PROVE Away(v)'
  <2>1. Away(v)
    BY <1>2 DEF Moves
  <2>2. \A i \in DOMAIN pending' : Focuses(i, v)' => \E j \in DOMAIN pending' : i < j /\ Clears(j, v)'
    BY <2>1, AwayLater
  <2>3. ASSUME v \in Known', ~overtaken', windows'[v].focused PROVE \E i \in DOMAIN pending' : Clears(i, v)'
    <3>1. \E i \in DOMAIN pending : Clears(i, v)
      BY <1>1, <2>1, <2>3 DEF Away
    <3>2. ~Clears(1, v)
      BY <1>0, <1>1, <2>3 DEF Clears
    <3> QED BY <2>1, <3>1, <3>2, AwayLater
  <2> QED BY <2>2, <2>3 DEF Away
<1>3. ASSUME NEW f, f = front', f \in Known' PROVE Here(f)'
  <2>1. Here(f) /\ f \in Known' /\ f # w
    BY <1>1, <1>3 DEF Moves
  <2>2. overtaken' \/ windows'[f].focused \/ \E i \in DOMAIN pending' : Focuses(i, f)'
    <3>1. ~Focuses(1, f)
      BY <1>0, <2>1 DEF Focuses
    <3> QED BY <1>1, <2>1, <3>1, HereLater DEF Here
  <2> QED BY <2>1, <2>2, HereLater DEF Here
<1> QED BY <1>2, <1>3 DEF Moves

LEMMA BlurEventMoves ==
  ASSUME Types, Moves, pending # <<>>, pending' = Tail(pending), front' = front,
         pending[1].kind = "blur", pending[1].w \in Windows, RecordFocus(pending[1].w, FALSE),
         overtaken' = overtaken
  PROVE  Moves'
<1>0. PICK w \in Windows : w = pending[1].w
  OBVIOUS
<1>1. /\ Known' = Known /\ (w \in Known => windows'[w].focused = FALSE)
      /\ \A v \in Known \ {w} : windows'[v] = windows[v]
  <2>1. CASE w \notin Known
    BY <1>0, <2>1, Unrecorded, SameRegistry
  <2>2. CASE w \in Known
    BY <1>0, <2>2, Losing DEF Types
  <2> QED BY <2>1, <2>2
<1>2. ASSUME NEW v \in Windows \ {front'} PROVE Away(v)'
  <2>1. Away(v)
    BY <1>2 DEF Moves
  <2>2. \A i \in DOMAIN pending' : Focuses(i, v)' => \E j \in DOMAIN pending' : i < j /\ Clears(j, v)'
    BY <2>1, AwayLater
  <2>3. ASSUME v \in Known', ~overtaken', windows'[v].focused PROVE \E i \in DOMAIN pending' : Clears(i, v)'
    <3>1. v # w /\ v \in Known /\ windows[v].focused
      BY <1>1, <2>3
    <3>2. \E i \in DOMAIN pending : Clears(i, v)
      BY <2>1, <2>3, <3>1 DEF Away
    <3>3. ~Clears(1, v)
      BY <1>0, <3>1 DEF Clears
    <3> QED BY <2>1, <3>2, <3>3, AwayLater
  <2> QED BY <2>2, <2>3 DEF Away
<1>3. ASSUME NEW f, f = front', f \in Known' PROVE Here(f)'
  <2>1. Here(f) /\ f \in Known
    BY <1>1, <1>3 DEF Moves
  <2>2. overtaken' \/ windows'[f].focused \/ \E i \in DOMAIN pending' : Focuses(i, f)'
    <3>1. CASE w = f
      BY <1>0, <2>1, <3>1, HereLater
    <3>2. CASE w # f
      <4>1. ~Focuses(1, f)
        BY <1>0, <3>2 DEF Focuses
      <4> QED BY <1>1, <2>1, <3>2, <4>1, HereLater DEF Here
    <3> QED BY <3>1, <3>2
  <2> QED BY <2>1, <2>2, HereLater DEF Here
<1> QED BY <1>2, <1>3 DEF Moves

LEMMA FocusEventMoves ==
  ASSUME Types, Moves, pending # <<>>, pending' = Tail(pending), front' = front,
         pending[1].kind = "focus", pending[1].w \in Windows, RecordFocus(pending[1].w, TRUE),
         overtaken' = (overtaken /\ ~(pending[1].w = front /\ pending[1].w \in Known))
  PROVE  Moves'
<1>0. PICK w \in Windows : w = pending[1].w
  OBVIOUS
<1>1. overtaken' = (overtaken /\ ~(w = front /\ w \in Known)) /\ Focuses(1, w) /\ \A v : ~Clears(1, v)
  BY <1>0 DEF Focuses, Clears
<1>2. CASE w \notin Known
  <2>1. windows' = windows /\ Known' = Known
    BY <1>0, <1>2, Unrecorded, SameRegistry
  <2>2. ASSUME NEW v \in Windows \ {front'} PROVE Away(v)'
    <3>1. Away(v)
      BY <2>2 DEF Moves
    <3>2. ~overtaken' => ~overtaken
      BY <1>1, <1>2
    <3> QED BY <1>1, <2>1, <3>1, <3>2, AwayLater DEF Away
  <2>3. ASSUME NEW f, f = front', f \in Known' PROVE Here(f)'
    <3>1. Here(f) /\ w # f
      BY <1>2, <2>1, <2>3 DEF Moves
    <3>2. \E j \in DOMAIN pending' : Focuses(j, f)'
      BY <1>0, <3>1, HereLater
    <3> QED BY <3>1, <3>2, HereLater DEF Here
  <2> QED BY <2>2, <2>3 DEF Moves
<1>3. CASE w \in Known
  <2>1. /\ Known' = Known /\ windows'[w].focused = TRUE
        /\ \A v \in Known \ {w} : windows'[v].focused = FALSE
    BY <1>0, <1>3, Gaining DEF Types
  <2>2. ASSUME NEW v \in Windows \ {front'} PROVE Away(v)'
    <3>1. Away(v)
      BY <2>2 DEF Moves
    <3>2. v \in Known' /\ windows'[v].focused => v = w
      BY <2>1
    <3> QED BY <1>1, <3>1, <3>2, AwayLater DEF Away
  <2>3. ASSUME NEW f, f = front', f \in Known' PROVE Here(f)'
    <3>1. Here(f)
      BY <2>1, <2>3 DEF Moves
    <3>2. windows'[f].focused \/ \E j \in DOMAIN pending' : Focuses(j, f)'
      BY <1>0, <2>1, <3>1, HereLater
    <3> QED BY <3>1, <3>2, HereLater DEF Here
  <2> QED BY <2>2, <2>3 DEF Moves
<1> QED BY <1>2, <1>3

LEMMA GuiMoves == ASSUME Types, Moves, GuiEvent PROVE Moves'
<1> DEFINE e == Head(pending)
<1>1. /\ pending # <<>> /\ pending' = Tail(pending) /\ front' = front
      /\ IF e.kind = "destroyed" THEN Removed(e.w) /\ overtaken' = overtaken
         ELSE /\ RecordFocus(e.w, e.kind = "focus")
              /\ overtaken' = (overtaken /\ ~(e.kind = "focus" /\ e.w = front /\ e.w \in Known))
  BY DEF GuiEvent
<1>2. e \in Events /\ e = pending[1]
  BY <1>1, Taking DEF Types
<1>3. pending[1].w \in Windows /\ pending[1].kind \in {"focus", "blur", "destroyed"}
  BY <1>2, EventFields
<1>4. CASE pending[1].kind = "destroyed"
  BY <1>1, <1>2, <1>4, DestroyedEventMoves
<1>5. CASE pending[1].kind = "blur"
  <2>1. RecordFocus(pending[1].w, FALSE) /\ overtaken' = overtaken
    BY <1>1, <1>2, <1>5 DEF Types, OutsideTypes
  <2> QED BY <1>1, <1>3, <1>5, <2>1, BlurEventMoves
<1>6. CASE pending[1].kind = "focus"
  <2>1. /\ RecordFocus(pending[1].w, TRUE)
        /\ overtaken' = (overtaken /\ ~(pending[1].w = front /\ pending[1].w \in Known))
    BY <1>1, <1>2, <1>6
  <2> QED BY <1>1, <1>3, <1>6, <2>1, FocusEventMoves
<1> QED BY <1>3, <1>4, <1>5, <1>6

LEMMA UserMoves ==
  ASSUME Types, Moves, NEW w \in Windows \union {NoWindow}, UserFocus(w) \/ (w \in Windows /\ UserClose(w))
  PROVE  Moves'
<1>1. CASE UserFocus(w)
  BY <1>1, MoveMoves DEF UserFocus, registryVars
<1>2. CASE w \in Windows /\ UserClose(w)
  BY <1>2, DestroyedMoves DEF UserClose, registryVars
<1> QED BY <1>1, <1>2

LEMMA NativeMoves == ASSUME Types, Lives, Moves, NEW c \in Clients, Native(c) PROVE Moves'
<1>0. PICK w : w = tasks[c].w
  OBVIOUS
<1>1. /\ tasks[c].todo # <<>> /\ windows' = windows /\ overtaken' = overtaken
      /\ FocusCall(c, w) \/ DestroyCall(w) \/ StateCall(c, w)
  BY <1>0, NativeIs
<1>2. w \in Windows
  BY <1>0, <1>1, ActsOn DEF Lives
<1>3. CASE FocusCall(c, w)
  BY <1>1, <1>2, <1>3, FocusingMoves DEF FocusCall
<1>4. CASE DestroyCall(w)
  BY <1>1, <1>2, <1>4, DestroyedMoves DEF DestroyCall
<1>5. CASE StateCall(c, w)
  BY <1>1, <1>5, SameMoves DEF StateCall
<1> QED BY <1>1, <1>3, <1>4, <1>5

\* A request or an open records the focus it gave.
LEMMA RecordingMoves ==
  ASSUME Types, Moves, NEW w, RecordFocus(w, TRUE), front' = front, pending' = pending,
         overtaken' = (overtaken \/ (w \in Known /\ front # w))
  PROVE  Moves'
<1>1. CASE w \notin Known
  <2>1. windows' = windows /\ overtaken' = overtaken
    BY <1>1, Unrecorded DEF Types, OutsideTypes
  <2> QED BY <2>1, SameMoves
<1>2. CASE w \in Known
  <2>1. /\ Known' = Known /\ windows'[w].focused = TRUE
        /\ \A v \in Known \ {w} : windows'[v].focused = FALSE
    BY <1>2, Gaining DEF Types
  <2>2. ASSUME NEW v \in Windows \ {front'} PROVE Away(v)'
    <3>1. Away(v)
      BY <2>2 DEF Moves
    <3>2. v \in Known' /\ windows'[v].focused => v = w /\ overtaken'
      BY <1>2, <2>1, <2>2
    <3> QED BY <3>1, <3>2 DEF Away, Focuses, Clears
  <2>3. ASSUME NEW f, f = front', f \in Known' PROVE Here(f)'
    <3>1. Here(f)
      BY <2>1, <2>3 DEF Moves
    <3>2. overtaken' \/ windows'[f].focused
      BY <1>2, <2>1, <2>3
    <3> QED BY <3>1, <3>2 DEF Here, Focuses
  <2> QED BY <2>2, <2>3 DEF Moves
<1> QED BY <1>1, <1>2

LEMMA FocusDoneMoves == ASSUME Types, Moves, NEW c \in Clients, FocusDone(c) PROVE Moves'
BY FocusDoneIs, RecordingMoves DEF toolkitVars

LEMMA CloseDoneMoves == ASSUME Types, Moves, NEW c \in Clients, CloseDone(c) PROVE Moves'
BY CloseDoneIs, RemovingMoves DEF toolkitVars

LEMMA RecordMoves ==
  ASSUME Types, Moves, NEW c \in Clients, StateDone(c) \/ Tag(c) PROVE Moves'
<1>1. /\ Known' = Known /\ \A v \in Known' : windows'[v].focused = windows[v].focused
      /\ UNCHANGED toolkitVars /\ overtaken' = overtaken
  BY StateDoneTurns, TagTurns DEF StateDone, Tag
<1> QED BY <1>1, MovesStay DEF toolkitVars

(* What the opens have begun and copied. *)

\* No open begins and none copies a record.
OpensRest ==
  /\ OpenTypes' /\ copied' = copied
  /\ \A v \in Windows : /\ opening'[v] = "unborn" <=> opening[v] = "unborn"
                        /\ opening'[v] = "track" => opening[v] = "track"

LEMMA SameOpensRest == ASSUME OpensHold, openVars' = openVars PROVE OpensRest
BY DEF openVars, OpensHold, OpenTypes, OpensRest

LEMMA OpensStay ==
  ASSUME OpensHold, OpensRest, \A v \in Windows : native'[v] = "unborn" <=> native[v] = "unborn",
         \A v \in Known' \ stale' :
           opening[v] = "track" => v \in Known \ stale /\ windows'[v].desc = windows[v].desc
  PROVE  OpensHold'
BY DEF OpensHold, OpensRest, OpenTypes

\* Only the window's own open goes on.
OpenGoes(w, step) ==
  /\ OpenTypes' /\ opening'[w] = step /\ \A v \in Windows \ {w} : opening'[v] = opening[v]
  /\ step # "tracked" => TracksNothing

LEMMA Going ==
  ASSUME OpensHold, NEW w \in Windows, NEW step \in OpenSteps \union OpenEnds, ThenOpen(w, step),
         copied' \in [Windows -> Descs]
  PROVE  OpenGoes(w, step)
BY DEF OpensHold, OpenTypes, ThenOpen, OpenGoes, TracksNothing

LEMMA GoingRests ==
  ASSUME OpensHold, NEW w \in Windows, opening[w] # "unborn", NEW step \in OpenSteps \union OpenEnds,
         step # "unborn", step # "track", ThenOpen(w, step), copied' = copied
  PROVE  OpensRest
<1>1. OpenGoes(w, step)
  BY Going DEF OpensHold, OpenTypes
<1> QED BY <1>1 DEF OpenGoes, OpensRest

LEMMA DestroyedAges ==
  ASSUME Types, NEW w \in Windows, native[w] = "alive", Destroyed(w)
  PROVE  \A v \in Windows : native'[v] = "unborn" <=> native[v] = "unborn"
<1>1. native' = [native EXCEPT ![w] = "gone"] /\ native \in [Windows -> {"unborn", "alive", "gone"}]
  BY DEF Destroyed, Types, OutsideTypes
<1> QED BY <1>1

LEMMA OpenBegins ==
  ASSUME Types, OpensHold, NEW w \in Windows, NEW desc \in Descs, OpenWindow(w, desc) PROVE OpensHold'
<1>1. /\ opening[w] = "unborn" /\ native' = [native EXCEPT ![w] = "alive"] /\ ThenOpen(w, "set_focus")
      /\ copied' = copied /\ stale' = stale /\ native \in [Windows -> {"unborn", "alive", "gone"}]
  BY DEF OpenWindow, savedVars, Types, OutsideTypes
<1>2. OpenGoes(w, "set_focus")
  BY <1>1, Going DEF OpensHold, OpenTypes, OpenSteps
<1>3. native'[w] = "alive" /\ \A v \in Windows \ {w} : native'[v] = native[v]
  BY <1>1
<1>4. Known' = Known \union {w} /\ \A v \in Known \ {w} : windows'[v] = windows[v]
  BY Opening DEF Types
<1> QED BY <1>1, <1>2, <1>3, <1>4 DEF OpensHold, OpenGoes

LEMMA CopiedHolds ==
  ASSUME Types, OpensHold, NEW w \in Windows, OpenCopies(w) PROVE OpensHold' /\ TracksNothing
<1>1. opening[w] = "copy" /\ windows' = windows /\ stale' = stale /\ native' = native
  BY DEF OpenCopies, registryVars, toolkitVars, savedVars
<1>2. Known' = Known /\ copied \in [Windows -> Descs]
  BY <1>1, SameRegistry DEF OpensHold, OpenTypes
<1>3. CASE w \in Known /\ copied' = [copied EXCEPT ![w] = windows[w].desc] /\ ThenOpen(w, "track")
  <2>1. windows[w].desc \in Descs
    BY <1>3, RegistryIs, RecordFields DEF Types
  <2>2. /\ copied' \in [Windows -> Descs] /\ copied'[w] = windows[w].desc
        /\ \A v \in Windows \ {w} : copied'[v] = copied[v]
    BY <1>2, <1>3, <2>1
  <2>3. OpenGoes(w, "track")
    BY <1>3, <2>2, Going DEF OpenSteps
  <2> QED BY <1>1, <1>2, <2>2, <2>3 DEF OpensHold, OpenGoes
<1>4. CASE ThenOpen(w, "failed") /\ copied' = copied
  <2>1. OpensRest /\ OpenGoes(w, "failed")
    BY <1>1, <1>2, <1>4, Going, GoingRests DEF OpenEnds
  <2> QED BY <1>1, <1>2, <2>1, OpensStay DEF OpenGoes
<1> QED BY <1>3, <1>4 DEF OpenCopies

(* The invariant. *)

LEMMA RegistryStarts == DeskInit => RegistryInv
<1> SUFFICES ASSUME DeskInit PROVE RegistryInv
  OBVIOUS
<1>1. /\ windows = [w \in {} |-> 0] /\ counter = 0 /\ native = [w \in Windows |-> "unborn"] /\ front = NoWindow
      /\ shown = [w \in Windows |-> "normal"] /\ pending = <<>> /\ tasks = [c \in Clients |-> Idle]
      /\ offered \in Mixes /\ snapshot = <<>> /\ saved = [w \in Windows |-> Untagged] /\ stale = {}
      /\ recent = <<>> /\ overtaken = FALSE /\ mixed = {}
      /\ opening = [w \in Windows |-> "unborn"] /\ copied = [w \in Windows |-> Untagged]
  BY DEF DeskInit
<1>2. Known = {} /\ IsFiniteSet(Known)
  BY <1>1, FS_EmptySet DEF Known
<1>3. windows \in Registries
  <2>1. windows = [v \in Known |-> windows[v]] /\ Known \in SUBSET Windows
    BY <1>1, <1>2
  <2>2. \A v \in Known : windows[v] \in WindowRecords
    BY <1>2
  <2> QED BY <2>1, <2>2, InRegistries
<1>4. \A c \in Clients : tasks[c] = Idle /\ tasks[c].todo = <<>>
  BY <1>1, IdleIs
<1>5. RegistryTypes
  <2>1. recent \in Seq(Windows) /\ tasks \in [Clients -> TaskType]
    BY <1>1, IdleIs
  <2> QED BY <1>1, <1>2, <1>3, <2>1 DEF RegistryTypes
<1>6. OutsideTypes
  <2>1. pending \in Seq(Events) /\ snapshot \in Seq(Copies) /\ Len(snapshot) = 0
    BY <1>1
  <2>2. saved \in [Windows -> Descs] /\ shown \in [Windows -> States]
    BY <1>1 DEF Descs, States
  <2>3. native \in [Windows -> {"unborn", "alive", "gone"}]
    BY <1>1
  <2>4. front \in Windows \union {NoWindow} /\ overtaken \in BOOLEAN /\ mixed \subseteq Windows /\ stale \subseteq Windows
    BY <1>1
  <2> HIDE <1>1
  <2> QED BY <1>1, <2>1, <2>2, <2>3, <2>4 DEF OutsideTypes
<1>7. Lives
  <2>1. TasksLive
    BY <1>4 DEF TasksLive
  <2>2. RecordsLive
    BY <1>1, <1>2 DEF RecordsLive
  <2>3. EventsLive
    BY <1>1 DEF EventsLive
  <2> QED BY <2>1, <2>2, <2>3 DEF Lives
<1>8. Ranks /\ Shown /\ Stored
  BY <1>1, <1>2 DEF Ranks, Shown, Stored
<1>9. Moves
  <2>1. \A v \in Windows : Away(v)
    BY <1>1, <1>2 DEF Away
  <2> QED BY <1>1, <1>2, <2>1 DEF Moves
<1>10. OpensHold
  <2>1. OpenTypes
    BY <1>1 DEF OpenTypes, OpenEnds, Descs
  <2> QED BY <1>1, <1>2, <2>1 DEF OpensHold
<1> QED BY <1>5, <1>6, <1>7, <1>8, <1>9, <1>10 DEF RegistryInv

LEMMA QuietKeeps ==
  ASSUME RegistryInv, offered' = offered, openVars' = openVars, NEW c \in Clients,
         Call(c) \/ CallAll(c) \/ Resolve(c) \/ NativeFails(c)
  PROVE  RegistryInv'
<1>1. Types /\ Lives /\ Ranks /\ Shown /\ Stored /\ OpensHold /\ Moves
  BY DEF RegistryInv, Types
<1>2. /\ Types' /\ UNCHANGED <<registryVars, toolkitVars, savedVars, recent, overtaken, mixed>>
      /\ Idles(c) \/ \E w \in Known : Begins(c, w)
  BY <1>1, QuietTypes
<1>3. Lives' /\ Shown'
  BY <1>1, <1>2, QuietLives, QuietShown
<1>4. Ranks' /\ Stored' /\ Moves'
  BY <1>1, <1>2, SameOpens, RanksSame, SameStored, SameMoves DEF registryVars, toolkitVars
<1>5. OpensHold'
  BY <1>1, <1>2, SameRegistry, SameOpensRest, OpensStay DEF registryVars, toolkitVars, savedVars
<1> QED BY <1>2, <1>3, <1>4, <1>5 DEF RegistryInv, Types

\* A step that leaves descriptions and what is stored of them alone keeps what the opens copied.
LEMMA OpensUnmoved ==
  ASSUME Types, OpensHold, OpensRest, stale' = stale, Known' \subseteq Known,
         \A v \in Known' : windows'[v].desc = windows[v].desc,
         \A v \in Windows : native'[v] = "unborn" <=> native[v] = "unborn"
  PROVE  OpensHold'
BY OpensStay

LEMMA NativeOpens ==
  ASSUME Types, OpensHold, openVars' = openVars, NEW c \in Clients, tasks[c].w \in Windows, Native(c)
  PROVE  OpensHold'
<1>1. windows' = windows /\ Known' = Known /\ stale' = stale /\ native[tasks[c].w] = "alive" /\ OpensRest
  BY NativeIs, SameRegistry, SameOpensRest
<1>2. \A v \in Windows : native'[v] = "unborn" <=> native[v] = "unborn"
  <2>1. CASE DestroyCall(tasks[c].w)
    BY <1>1, <2>1, DestroyedAges DEF DestroyCall
  <2>2. CASE native' = native
    BY <2>2
  <2> QED BY <2>1, <2>2, NativeIs DEF FocusCall, StateCall
<1> QED BY <1>1, <1>2, OpensUnmoved

LEMMA TagOpens ==
  ASSUME Types, OpensHold, openVars' = openVars, NEW c \in Clients, Tag(c) PROVE OpensHold'
<1>0. PICK w : w = tasks[c].w
  OBVIOUS
<1> DEFINE r == [windows[w] EXCEPT !.desc = tasks[c].desc]
<1>1. /\ tasks[c].desc \in Descs /\ native' = native
      /\ \/ /\ w \in Known /\ Turns(w, r)
            /\ stale' = IF Copied(w) THEN stale \union {w} ELSE stale
         \/ windows' = windows /\ stale' = stale
  BY <1>0, TagIs DEF toolkitVars
<1>2. OpensRest
  BY SameOpensRest
<1>3. CASE windows' = windows /\ stale' = stale
  BY <1>1, <1>2, <1>3, SameRegistry, OpensUnmoved
<1>4. CASE w \in Known /\ Turns(w, r) /\ stale' = IF Copied(w) THEN stale \union {w} ELSE stale
  <2>1. windows[w] \in WindowRecords
    BY <1>4, RegistryIs DEF Types
  <2>2. r \in WindowRecords
    BY <1>1, <2>1, DescTurns
  <2> HIDE DEF r
  <2>3. Known' = Known /\ \A v \in Known \ {w} : windows'[v] = windows[v]
    BY <1>4, <2>2, Turning DEF Types
  <2>4. ASSUME NEW v \in Known' \ stale', opening[v] = "track"
        PROVE  v \in Known \ stale /\ windows'[v].desc = windows[v].desc
    <3>1. v # w /\ stale \subseteq stale'
      BY <1>4, <2>4 DEF Copied
    <3> QED BY <2>3, <2>4, <3>1
  <2> QED BY <1>1, <1>2, <2>4, OpensStay
<1> QED BY <1>1, <1>3, <1>4

LEMMA RequestKeeps ==
  ASSUME RegistryInv, offered' = offered, openVars' = openVars, NEW c \in Clients,
         Native(c) \/ FocusDone(c) \/ StateDone(c) \/ Tag(c) \/ CloseDone(c)
  PROVE  RegistryInv'
<1>1. Types /\ Lives /\ Ranks /\ Shown /\ Stored /\ OpensHold /\ Moves
  BY DEF RegistryInv, Types
<1>2. tasks[c].w \in Windows
  <2>1. tasks[c].todo # <<>>
    BY <1>1, NativeIs, FocusDoneIs, StateDoneIs, TagIs, CloseDoneIs
  <2> QED BY <1>1, <2>1, ActsOn DEF Lives
<1>3. opening' = opening /\ TracksNothing /\ OpensRest
  BY <1>1, SameOpens, SameOpensRest
<1>4. CASE Native(c)
  <2>1. Types' /\ Lives' /\ Shown' /\ Moves'
    BY <1>1, <1>2, <1>4, NativeTypes, NativeLives, NativeShown, NativeMoves
  <2>2. Ranks' /\ Stored'
    BY <1>1, <1>3, <1>4, NativeIs, RanksSame, SameStored DEF savedVars
  <2>3. OpensHold'
    BY <1>1, <1>2, <1>4, NativeOpens
  <2> QED BY <2>1, <2>2, <2>3 DEF RegistryInv, Types
<1>5. CASE FocusDone(c)
  <2>1. Types' /\ Lives' /\ Shown' /\ Stored' /\ Moves'
    BY <1>1, <1>2, <1>3, <1>5, FocusDoneTypes, FocusDoneLives, FocusDoneShown, FocusDoneStored, FocusDoneMoves
  <2>2. Ranks'
    BY <1>1, <1>2, <1>5, FocusDoneIs, RanksRecord
  <2>3. OpensHold'
    BY <1>1, <1>2, <1>3, <1>5, FocusDoneIs, RecordingShown, OpensUnmoved DEF toolkitVars, savedVars
  <2> QED BY <2>1, <2>2, <2>3 DEF RegistryInv, Types
<1>6. CASE StateDone(c)
  <2>1. Types' /\ Lives' /\ Ranks' /\ Shown' /\ Stored' /\ Moves'
    BY <1>1, <1>3, <1>6, StateDoneTypes, StateDoneLives, StateDoneRanks, StateDoneShown, StateDoneStored, RecordMoves
  <2>2. OpensHold'
    BY <1>1, <1>3, <1>6, StateDoneIs, StateDoneTurns, OpensUnmoved DEF toolkitVars, savedVars
  <2> QED BY <2>1, <2>2 DEF RegistryInv, Types
<1>7. CASE Tag(c)
  BY <1>1, <1>2, <1>3, <1>7, TagTypes, TagLives, TagRanks, TagShown, TagStored, TagOpens, RecordMoves
     DEF RegistryInv, Types
<1>8. CASE CloseDone(c)
  <2>1. Types' /\ Lives' /\ Shown' /\ Stored' /\ Moves'
    BY <1>1, <1>3, <1>8, CloseDoneTypes, CloseDoneLives, CloseDoneShown, CloseDoneStored, CloseDoneMoves
  <2>2. Ranks'
    BY <1>1, <1>8, CloseDoneIs, RanksRemove
  <2>3. OpensHold'
    BY <1>1, <1>3, <1>8, CloseDoneIs, RemovedDescs, OpensUnmoved DEF toolkitVars, savedVars
  <2> QED BY <2>1, <2>2, <2>3 DEF RegistryInv, Types
<1> QED BY <1>4, <1>5, <1>6, <1>7, <1>8

LEMMA GuiOpens == ASSUME Types, OpensHold, openVars' = openVars, GuiEvent PROVE OpensHold'
<1> DEFINE e == Head(pending)
<1>1. /\ pending # <<>> /\ native' = native /\ stale' = stale /\ OpensRest
      /\ Removed(e.w) \/ RecordFocus(e.w, e.kind = "focus")
  BY SameOpensRest DEF GuiEvent, savedVars
<1>2. e \in Events
  BY <1>1, Taking DEF Types
<1>3. e.w \in Windows
  BY <1>2, EventFields
<1> HIDE DEF e
<1> QED BY <1>1, <1>3, RemovedDescs, RecordingShown, OpensUnmoved

LEMMA OutsideKeeps ==
  ASSUME RegistryInv, offered' = offered, openVars' = openVars,
         \/ \E w \in Windows \union {NoWindow} : UserFocus(w) \/ (w \in Windows /\ UserClose(w))
         \/ GuiEvent \/ (\E w \in Windows : Observe(w)) \/ SyncAsync
  PROVE  RegistryInv'
<1>1. Types /\ Lives /\ Ranks /\ Shown /\ Stored /\ OpensHold /\ Moves
  BY DEF RegistryInv, Types
<1>2. opening' = opening /\ TracksNothing /\ OpensRest
  BY <1>1, SameOpens, SameOpensRest
<1>3. ASSUME NEW w \in Windows \union {NoWindow}, UserFocus(w) \/ (w \in Windows /\ UserClose(w))
      PROVE  RegistryInv'
  <2>1. Types' /\ Moves' /\ Lives'
    BY <1>1, <1>3, UserTypes, UserMoves, UserFocusLives, UserCloseLives
  <2>2. /\ windows' = windows /\ counter' = counter /\ recent' = recent /\ tasks' = tasks
        /\ shown' = shown /\ mixed' = mixed /\ savedVars' = savedVars /\ stale' = stale
    BY <1>3 DEF UserFocus, UserClose, registryVars, savedVars
  <2>3. Ranks' /\ Stored' /\ Shown' /\ Known' = Known
    BY <1>1, <1>2, <2>2, SameRegistry, RanksSame, SameStored, SameShown
  <2>4. \A v \in Windows : native'[v] = "unborn" <=> native[v] = "unborn"
    BY <1>1, <1>3, DestroyedAges DEF UserFocus, UserClose
  <2>5. OpensHold'
    BY <1>1, <1>2, <2>2, <2>3, <2>4, OpensUnmoved
  <2> QED BY <2>1, <2>3, <2>5 DEF RegistryInv, Types
<1>4. CASE GuiEvent
  BY <1>1, <1>2, <1>4, GuiTypes, GuiLives, GuiRanks, GuiShown, GuiStored, GuiOpens, GuiMoves DEF RegistryInv, Types
<1>5. CASE (\E w \in Windows : Observe(w)) \/ SyncAsync
  <2>1. Types' /\ Lives' /\ Stored'
    BY <1>1, <1>2, <1>5, CopyTypes, CopyLives, ObserveStored, SyncStored
  <2>2. /\ windows' = windows /\ counter' = counter /\ recent' = recent /\ tasks' = tasks /\ native' = native
        /\ shown' = shown /\ mixed' = mixed /\ front' = front /\ pending' = pending /\ overtaken' = overtaken
    BY <1>5 DEF Observe, SyncAsync, registryVars, toolkitVars
  <2>3. Ranks' /\ Shown' /\ Moves' /\ Known' = Known
    BY <1>1, <2>2, SameRegistry, RanksSame, SameShown, SameMoves
  <2>4. ASSUME NEW v \in Known, opening[v] = "track", v \notin stale' PROVE v \notin stale
    BY <1>5, <2>4 DEF Observe, SyncAsync, Tracked
  <2>5. OpensHold'
    BY <1>1, <1>2, <2>2, <2>3, <2>4, OpensStay
  <2> QED BY <2>1, <2>3, <2>5 DEF RegistryInv, Types
<1> QED BY <1>3, <1>4, <1>5

(* The steps of an open. *)

LEMMA BeginKeeps ==
  ASSUME RegistryInv, offered' = offered, NEW w \in Windows, NEW desc \in Descs, OpenWindow(w, desc)
  PROVE  RegistryInv'
<1>1. Types /\ Lives /\ Ranks /\ Shown /\ Stored /\ OpensHold /\ Moves
  BY DEF RegistryInv, Types
<1> QED BY <1>1, OpenKeepsTypes, OpenLives, RanksOpen, OpenShown, OpenStored, OpenBegins, OpenMoves
        DEF RegistryInv, Types, Lives

\* A step that touches nothing but the open itself and what is stored.
LEMMA MarkKeeps ==
  ASSUME RegistryInv, offered' = offered,
         UNCHANGED <<registryVars, toolkitVars, snapshot, stale, tasks, recent, overtaken, mixed>>,
         OpensHold', Stored', saved' \in [Windows -> Descs]
  PROVE  RegistryInv'
<1>1. Types /\ Lives /\ Ranks /\ Shown /\ Moves
  BY DEF RegistryInv, Types
<1>2. /\ windows' = windows /\ counter' = counter /\ native' = native /\ front' = front /\ shown' = shown
      /\ pending' = pending
  BY DEF registryVars, toolkitVars
<1>3. Types'
  <2>1. RegistryTypes'
    BY <1>1, <1>2, SameRegistry, TypesRest DEF Types, RegistryTypes
  <2> QED BY <1>1, <1>2, <2>1 DEF Types, OutsideTypes
<1>4. Lives'
  <2>1. TasksLive' /\ EventsLive'
    BY <1>1, <1>2, SameNative, TasksStay, SameEvents DEF Lives
  <2>2. RecordsLive'
    BY <1>1, <1>2, SameNative, SameRegistry, RecordsStay DEF Lives
  <2> QED BY <2>1, <2>2 DEF Lives
<1>5. Ranks' /\ Shown' /\ Moves'
  BY <1>1, <1>2, SameRegistry, RanksSame, SameShown, SameMoves
<1> QED BY <1>3, <1>4, <1>5 DEF RegistryInv, Types

LEMMA CopyKeeps ==
  ASSUME RegistryInv, offered' = offered, NEW w \in Windows, OpenCopies(w) \/ OpenFails(w) PROVE RegistryInv'
<1>1. Types /\ Stored /\ OpensHold
  BY DEF RegistryInv, Types
<1>2. UNCHANGED <<registryVars, toolkitVars, savedVars, tasks, recent, overtaken, mixed>>
  BY DEF OpenCopies, OpenFails
<1>3. OpensHold' /\ TracksNothing
  <2>1. CASE OpenCopies(w)
    BY <1>1, <2>1, CopiedHolds
  <2>2. CASE OpenFails(w)
    <3>1. PICK step \in {"failed", "remove"} : ThenOpen(w, step)
      BY <2>2 DEF OpenFails
    <3>2. opening[w] # "unborn" /\ copied' = copied /\ step \in OpenSteps \union OpenEnds
      BY <2>2 DEF OpenFails, OpenSteps, OpenEnds
    <3>3. OpensRest /\ OpenGoes(w, step)
      BY <1>1, <3>1, <3>2, Going, GoingRests DEF OpensHold, OpenTypes
    <3>4. TracksNothing
      BY <3>3 DEF OpenGoes
    <3> QED BY <1>1, <1>2, <3>3, <3>4, SameRegistry, OpensUnmoved DEF registryVars, toolkitVars, savedVars
  <2> QED BY <2>1, <2>2
<1>4. Stored' /\ saved' \in [Windows -> Descs]
  BY <1>1, <1>2, <1>3, SameStored DEF registryVars, savedVars, Types, OutsideTypes
<1> QED BY <1>2, <1>3, <1>4, MarkKeeps DEF savedVars

LEMMA TrackKeeps ==
  ASSUME RegistryInv, offered' = offered, NEW w \in Windows, OpenTracks(w) PROVE RegistryInv'
<1>1. Types /\ Stored /\ OpensHold
  BY DEF RegistryInv, Types
<1>2. /\ UNCHANGED <<registryVars, toolkitVars, snapshot, stale, tasks, recent, overtaken, mixed>>
      /\ opening[w] = "track" /\ ThenOpen(w, "tracked") /\ copied' = copied
  BY DEF OpenTracks
<1>3. OpensRest
  BY <1>1, <1>2, GoingRests DEF OpenEnds
<1>4. OpensHold'
  BY <1>1, <1>2, <1>3, SameRegistry, OpensUnmoved DEF registryVars, toolkitVars
<1> QED BY <1>1, <1>2, <1>4, TrackStored, MarkKeeps

LEMMA OpenFocusKeeps ==
  ASSUME RegistryInv, offered' = offered, NEW w \in Windows, OpenFocuses(w) PROVE RegistryInv'
<1>1. Types /\ Lives /\ Ranks /\ Shown /\ Stored /\ OpensHold /\ Moves
  BY DEF RegistryInv, Types
<1>2. /\ opening[w] = "set_focus" /\ native[w] = "alive" /\ front' = w
      /\ pending' = (IF front = w THEN pending ELSE pending \o FocusEvents(w))
      /\ ThenOpen(w, "record_focus") /\ copied' = copied /\ native' = native /\ shown' = shown
      /\ windows' = windows /\ counter' = counter /\ savedVars' = savedVars
      /\ UNCHANGED <<snapshot, saved, stale, tasks, recent, overtaken, mixed>>
  BY DEF OpenFocuses, registryVars, savedVars
<1>3. OpensRest /\ OpenGoes(w, "record_focus")
  BY <1>1, <1>2, Going, GoingRests DEF OpensHold, OpenTypes, OpenSteps
<1>4. Known' = Known /\ TracksNothing
  BY <1>1, <1>2, <1>3, SameRegistry DEF OpenGoes
<1>5. Types'
  <2>1. RegistryTypes'
    BY <1>1, <1>2, SameRegistry, TypesRest DEF Types, RegistryTypes
  <2>2. front' \in Windows \union {NoWindow} /\ pending' \in Seq(Events)
    BY <1>1, <1>2, FocusCallTypes
  <2> QED BY <1>1, <1>2, <2>1, <2>2 DEF Types, OutsideTypes
<1>6. Lives'
  <2>1. TasksLive' /\ RecordsLive'
    BY <1>1, <1>2, <1>4, SameNative, TasksStay, RecordsStay DEF Lives
  <2>2. EventsLive'
    BY <1>2 DEF EventsLive
  <2> QED BY <2>1, <2>2 DEF Lives
<1>7. Ranks' /\ Shown' /\ Stored'
  BY <1>1, <1>2, <1>4, RanksSame, SameShown, SameStored
<1>8. Moves'
  BY <1>1, <1>2, FocusingMoves
<1>9. OpensHold'
  BY <1>1, <1>2, <1>3, <1>4, OpensUnmoved
<1> QED BY <1>5, <1>6, <1>7, <1>8, <1>9 DEF RegistryInv, Types

LEMMA OpenRecordKeeps ==
  ASSUME RegistryInv, offered' = offered, NEW w \in Windows, OpenRecordsFocus(w) PROVE RegistryInv'
<1>1. Types /\ Lives /\ Ranks /\ Shown /\ Stored /\ OpensHold /\ Moves
  BY DEF RegistryInv, Types
<1>2. /\ opening[w] = "record_focus" /\ RecordFocus(w, TRUE) /\ ThenOpen(w, "copy") /\ copied' = copied
      /\ overtaken' = (overtaken \/ (w \in Known /\ front # w))
      /\ native' = native /\ front' = front /\ shown' = shown /\ pending' = pending
      /\ UNCHANGED <<snapshot, saved, stale, tasks, mixed>>
  BY DEF OpenRecordsFocus, FocusRecorded, toolkitVars, savedVars
<1>3. OpensRest /\ OpenGoes(w, "copy")
  BY <1>1, <1>2, Going, GoingRests DEF OpensHold, OpenTypes, OpenSteps
<1>4. TracksNothing
  BY <1>3 DEF OpenGoes
<1>5. /\ Known' = Known
      /\ \A v \in Known' : windows'[v].desc = windows[v].desc /\ windows'[v].max = windows[v].max
                           /\ windows'[v].min = windows[v].min
  BY <1>1, <1>2, RecordingShown
<1>6. Types'
  <2>1. RegistryTypes'
    BY <1>1, <1>2, RecordingTypes, TypesRest DEF Types, RegistryTypes
  <2> QED BY <1>1, <1>2, <2>1 DEF Types, OutsideTypes
<1>7. Lives'
  <2>1. RecordsLive'
    BY <1>1, <1>2, RecordingLives DEF Lives
  <2> QED BY <1>1, <1>2, <2>1, SameNative, TasksStay, SameEvents DEF Lives
<1>8. Ranks' /\ Shown' /\ Stored' /\ Moves'
  BY <1>1, <1>2, <1>4, <1>5, RanksRecord, SameShown, StoredStays, RecordingMoves
<1>9. OpensHold'
  BY <1>1, <1>2, <1>3, <1>5, OpensUnmoved
<1> QED BY <1>6, <1>7, <1>8, <1>9 DEF RegistryInv, Types

LEMMA OpenRemoveKeeps ==
  ASSUME RegistryInv, offered' = offered, NEW w \in Windows, OpenRemoves(w) PROVE RegistryInv'
<1>1. Types /\ Lives /\ Ranks /\ Shown /\ Stored /\ OpensHold /\ Moves
  BY DEF RegistryInv, Types
<1>2. /\ opening[w] = "remove" /\ Removed(w) /\ ThenOpen(w, "destroy") /\ copied' = copied /\ counter' = counter
      /\ native' = native /\ front' = front /\ shown' = shown /\ pending' = pending
      /\ UNCHANGED <<snapshot, saved, stale, tasks, recent, overtaken, mixed>>
  BY DEF OpenRemoves, toolkitVars, savedVars
<1>3. OpensRest /\ OpenGoes(w, "destroy")
  BY <1>1, <1>2, Going, GoingRests DEF OpensHold, OpenTypes, OpenSteps
<1>4. TracksNothing
  BY <1>3 DEF OpenGoes
<1>5. /\ Known' \subseteq Known /\ \A v \in Known' : windows'[v] = windows[v]
      /\ windows' \in Registries /\ IsFiniteSet(Known')
  BY <1>1, <1>2, Removing DEF Types
<1>6. Types'
  <2>1. RegistryTypes'
    BY <1>1, <1>2, <1>5, TypesRest DEF Types, RegistryTypes
  <2> QED BY <1>1, <1>2, <2>1 DEF Types, OutsideTypes
<1>7. Lives'
  BY <1>1, <1>2, RemovingLives, SameNative, TasksStay, SameEvents DEF Lives
<1>8. Ranks' /\ Shown' /\ Stored' /\ Moves'
  BY <1>1, <1>2, <1>4, <1>5, RanksRemove, SameShown, StoredStays, RemovingMoves
<1>9. OpensHold'
  BY <1>1, <1>2, <1>3, <1>5, OpensUnmoved
<1> QED BY <1>6, <1>7, <1>8, <1>9 DEF RegistryInv, Types

LEMMA OpenDestroyKeeps ==
  ASSUME RegistryInv, offered' = offered, NEW w \in Windows, OpenDestroys(w) PROVE RegistryInv'
<1>1. Types /\ Lives /\ Ranks /\ Shown /\ Stored /\ OpensHold /\ Moves
  BY DEF RegistryInv, Types
<1>2. /\ opening[w] = "destroy" /\ ThenOpen(w, "failed") /\ copied' = copied
      /\ windows' = windows /\ counter' = counter /\ shown' = shown /\ savedVars' = savedVars
      /\ UNCHANGED <<snapshot, saved, stale, tasks, recent, overtaken, mixed>>
  BY DEF OpenDestroys, registryVars, savedVars
<1>3. OpensRest /\ OpenGoes(w, "failed")
  BY <1>1, <1>2, Going, GoingRests DEF OpensHold, OpenTypes, OpenSteps, OpenEnds
<1>4. Known' = Known /\ TracksNothing
  BY <1>1, <1>2, <1>3, SameRegistry DEF OpenGoes
<1>5. Ranks' /\ Shown' /\ Stored'
  BY <1>1, <1>2, <1>4, RanksSame, SameShown, SameStored
<1>6. RegistryTypes'
  BY <1>1, <1>2, SameRegistry, TypesRest DEF Types, RegistryTypes
<1>7. CASE native[w] = "alive" /\ Destroyed(w)
  <2>1. Types'
    BY <1>1, <1>2, <1>6, <1>7, DestroyedTypes DEF Types, OutsideTypes
  <2>2. Lives'
    BY <1>1, <1>2, <1>7, DestroyedLives, TasksStay DEF Lives
  <2>3. Moves'
    BY <1>1, <1>2, <1>7, DestroyedMoves
  <2>4. OpensHold'
    BY <1>1, <1>2, <1>3, <1>4, <1>7, DestroyedAges, OpensUnmoved
  <2> QED BY <1>5, <2>1, <2>2, <2>3, <2>4 DEF RegistryInv, Types
<1>8. CASE UNCHANGED <<native, front, pending>>
  <2>1. OpensHold'
    BY <1>1, <1>2, <1>3, <1>4, <1>8, OpensUnmoved
  <2> QED BY <1>1, <1>2, <1>5, <1>8, <2>1, MarkKeeps DEF registryVars, toolkitVars, Types, OutsideTypes
<1> QED BY <1>7, <1>8 DEF OpenDestroys

LEMMA StutterKeeps == ASSUME RegistryInv, UNCHANGED deskVars PROVE RegistryInv'
BY DEF RegistryInv, deskVars, registryVars, openVars, toolkitVars, savedVars, RegistryTypes, OutsideTypes, Lives,
       TasksLive, RecordsLive, EventsLive, Ranks, Ranked, Shown, Shows, Puts, Stored, Stores, Tracked, OpensHold,
       OpenTypes, Moves, Away, Here, Clears, Focuses, Known

LEMMA RegistryInvariant == DeskSpec => []RegistryInv
<1>1. RegistryInv /\ [DeskNext]_deskVars => RegistryInv'
  <2> SUFFICES ASSUME RegistryInv, [DeskNext]_deskVars PROVE RegistryInv'
    OBVIOUS
  <2>1. CASE UNCHANGED deskVars
    BY <2>1, StutterKeeps
  <2>2. CASE offered' = offered /\ openVars' = openVars /\ Meanwhile
    BY <2>2, QuietKeeps, RequestKeeps, OutsideKeeps DEF Meanwhile, Request
  <2>3. ASSUME offered' = offered, NEW w \in Windows, OpenStep(w) PROVE RegistryInv'
    <3>1. Described[w] \subseteq Descs
      BY AssumedRegistry
    <3> QED BY <2>3, <3>1, BeginKeeps, CopyKeeps, TrackKeeps, OpenFocusKeeps, OpenRecordKeeps, OpenRemoveKeeps,
               OpenDestroyKeeps DEF OpenStep
  <2> QED BY <2>1, <2>2, <2>3 DEF DeskNext
<1> QED BY <1>1, RegistryStarts, PTL DEF DeskSpec

(* Once everything is handled, the registry, the toolkit and the worker agree: the recorded focus is
   the last one recorded and the toolkit's, a window's recorded state is the one it was last put into,
   and a description is recorded if and only if it is stored (record_focus, focus, resize, tag). *)
THEOREM RecordsAlwaysSettle == DeskSpec => []RecordsSettle
<1>1. RegistryInv => RecordsSettle
  <2> SUFFICES ASSUME RegistryInv PROVE RecordsSettle
    OBVIOUS
  <2>1. Types /\ Ranks /\ Shown /\ Stored /\ Moves
    BY DEF RegistryInv, Types
  <2>2. FocusedIsNewest
    <3>1. ASSUME NEW w \in Known, NEW v \in Known \ {w}, windows[w].order = windows[v].order, windows[w].order # 0
          PROVE  FALSE
      <4>1. Ranked(w) /\ Ranked(v) /\ windows[w].order \in Nat
        BY <2>1, RegistryIs, RecordFields DEF Types, Ranks
      <4> QED BY <3>1, <4>1 DEF Ranked
    <3> QED BY <2>1, <3>1 DEF FocusedIsNewest, Ranks, Ranked
  <2>3. FocusSettles
    <3> SUFFICES ASSUME pending = <<>>, ~overtaken, NEW w \in Known PROVE windows[w].focused <=> front = w
      BY DEF FocusSettles
    <3>1. w \in Windows /\ w # NoWindow /\ DOMAIN pending = {} /\ windows[w].focused \in BOOLEAN
      BY <2>1, RegistryIs, RecordFields, AssumedRegistry DEF Types
    <3>2. CASE front = w
      BY <2>1, <3>1, <3>2 DEF Moves, Here
    <3>3. CASE front # w
      BY <2>1, <3>1, <3>3 DEF Moves, Away
    <3> QED BY <3>2, <3>3
  <2>4. StateSettles
    BY <2>1 DEF StateSettles, Shown, Shows, Puts, At, Agrees
  <2>5. DescriptionIsStored
    BY <2>1 DEF DescriptionIsStored, Stored, Stores
  <2> QED BY <2>2, <2>3, <2>4, <2>5 DEF RecordsSettle
<1> QED BY <1>1, RegistryInvariant, PTL

(* Of several windows, some were focused last. *)
LEMMA LeastNumber ==
  ASSUME NEW S \in SUBSET Nat, S # {} PROVE \E n \in S : \A m \in S : n <= m
<1> DEFINE R == OpToRel(<, Nat)
<1>1. IsWellFoundedOn(R, Nat)
  BY NatLessThanWellFounded
<1>2. \A m, n \in Nat : m < n => <<m, n>> \in R
  BY DEF OpToRel
<1> HIDE DEF R
<1>3. PICK n \in S : \A m \in S : ~(<<m, n>> \in R)
  BY <1>1, WFMin
<1>4. ASSUME NEW m \in S PROVE n <= m
  <2>1. m \in Nat /\ n \in Nat
    BY S \in SUBSET Nat
  <2>2. ~(m < n)
    BY <1>2, <1>3, <2>1
  <2> QED BY <2>1, <2>2
<1> QED BY <1>4

LEMMA FocusedLast ==
  ASSUME RegistryInv, NEW S \in SUBSET Known, NEW v \in S, windows[v].order > 0
  PROVE  \E w \in S : \A u \in S \ {w} : windows[w].order > windows[u].order
<1>1. Types /\ Ranks
  BY DEF RegistryInv, Types
<1>2. counter \in Nat /\ \A u \in S : windows[u].order \in Nat /\ Ranked(u)
  BY <1>1, RegistryIs, RecordFields DEF Types, RegistryTypes, Ranks
<1> DEFINE ages == {counter - windows[u].order : u \in S}
<1>3. ages \in SUBSET Nat /\ ages # {}
  BY <1>2 DEF Ranked
<1>4. PICK n \in ages : \A m \in ages : n <= m
  BY <1>3, LeastNumber
<1>5. PICK w \in S : n = counter - windows[w].order
  BY <1>4
<1>6. ASSUME NEW u \in S PROVE windows[w].order >= windows[u].order
  <2>1. counter - windows[u].order \in ages
    OBVIOUS
  <2>2. n <= counter - windows[u].order
    BY <1>4, <2>1
  <2> QED BY <1>2, <1>5, <2>2
<1>7. ASSUME NEW u \in S \ {w}, windows[u].order = windows[w].order PROVE FALSE
  <2>1. windows[w].order > 0
    BY <1>2, <1>6
  <2> QED BY <1>2, <1>7, <2>1 DEF Ranked
<1>8. \A u \in S \ {w} : windows[w].order > windows[u].order
  BY <1>2, <1>6, <1>7
<1> QED BY <1>8

LEMMA NewerIsLater ==
  ASSUME RegistryInv, NEW w \in Known, NEW v \in Known, windows[w].order > windows[v].order PROVE Later(w, v)
<1>1. /\ counter \in Nat /\ Len(recent) = counter /\ recent \in Seq(Windows) /\ Ranked(w) /\ Ranked(v)
      /\ windows[w].order \in Nat /\ windows[v].order \in Nat
  BY RegistryIs, RecordFields DEF RegistryInv, RegistryTypes, Ranks
<1> DEFINE i == counter + 1 - windows[w].order
<1>2. i \in 1..Len(recent) /\ recent[i] = w
  BY <1>1 DEF Ranked
<1>3. ASSUME NEW j \in 1..i PROVE recent[j] # v
  <2>1. CASE windows[v].order = 0
    <3>1. j \in DOMAIN recent
      BY <1>1, <1>2
    <3> QED BY <1>1, <2>1, <3>1 DEF Ranked
  <2>2. CASE windows[v].order > 0
    <3>1. j \in 1..(counter + 1 - windows[v].order) - 1
      BY <1>1
    <3> QED BY <1>1, <2>2, <3>1 DEF Ranked
  <2> QED BY <1>1, <2>1, <2>2
<1> HIDE DEF i
<1> QED BY <1>2, <1>3 DEF Later

(* A request acts on the window its target means, of several that match the one focused last, and
   passes windows that match over only if none of them was ever focused (resolve_target). *)
THEOREM ResolvedIsAlwaysMeant == DeskSpec => ResolvedIsMeant
<1> DEFINE Meant ==
      \A c \in Clients : Resolve(c) =>
        LET target == Head(tasks[c].left) IN
        IF tasks'[c].todo # <<>> THEN Means(target, tasks'[c].w)
        ELSE target \notin Known /\ \A w \in Matches(target), i \in 1..Len(recent) : recent[i] # w
<1>1. RegistryInv => [Meant]_deskVars
  <2> SUFFICES ASSUME RegistryInv, NEW c \in Clients, Resolve(c), NEW target, target = Head(tasks[c].left)
               PROVE  IF tasks'[c].todo # <<>> THEN Means(target, tasks'[c].w)
                      ELSE target \notin Known
                           /\ \A w \in Matches(target), i \in 1..Len(recent) : recent[i] # w
    OBVIOUS
  <2>1. Matches(target) \in SUBSET Known
    BY DEF Matches
  <2>2. (\E w \in Resolved(target) : Begins(c, w)) \/ (Resolved(target) = {} /\ Idles(c))
    BY Resolving DEF RegistryInv
  <2>3. ASSUME NEW w \in Resolved(target), Begins(c, w)
        PROVE  tasks'[c].todo # <<>> /\ tasks'[c].w = w /\ Means(target, w)
    <3>1. target \notin Known => w \in Matches(target) /\ \A v \in Matches(target) \ {w} : Later(w, v)
      BY <2>1, <2>3, NewerIsLater DEF Resolved, Newest
    <3> QED BY <2>3, <3>1 DEF Begins, Means, Resolved
  <2>4. ASSUME Resolved(target) = {}, Idles(c)
        PROVE  /\ tasks'[c].todo = <<>> /\ target \notin Known
               /\ \A w \in Matches(target), i \in 1..Len(recent) : recent[i] # w
    <3>1. target \notin Known /\ Newest(Matches(target)) = {}
      BY <2>4 DEF Resolved
    <3>2. ASSUME NEW w \in Matches(target), NEW i \in 1..Len(recent) PROVE recent[i] # w
      <4>1. /\ windows[w].order \in Nat /\ Ranked(w) /\ DOMAIN recent = 1..Len(recent)
        BY <2>1, RegistryIs, RecordFields DEF RegistryInv, RegistryTypes, Ranks
      <4>2. ~(windows[w].order > 0)
        BY <2>1, <3>1, FocusedLast DEF Newest
      <4> QED BY <4>1, <4>2 DEF Ranked
    <3> QED BY <2>4, <3>1, <3>2 DEF Idles
  <2> QED BY <2>2, <2>3, <2>4
<1> QED BY <1>1, RegistryInvariant, PTL DEF ResolvedIsMeant

(* The registry, the toolkit and the requests stay in their types. *)
THEOREM RegistryTypesHold == DeskSpec => []RegistryTypeOK
<1>1. RegistryInv => RegistryTypeOK
  <2> SUFFICES ASSUME RegistryInv PROVE RegistryTypeOK
    OBVIOUS
  <2>1. Known \subseteq Windows /\ \A w \in Known : windows[w] \in WindowRecords
    BY RegistryIs DEF RegistryInv
  <2>2. pending \in Seq([w : Windows, kind : {"focus", "blur", "destroyed"}])
    BY DEF RegistryInv, OutsideTypes, Events
  <2>3. ASSUME NEW c \in Clients
        PROVE  /\ tasks[c].op \in Ops /\ tasks[c].desc \in Descs /\ tasks[c].left \in Seq(Selectors)
               /\ tasks[c].w \in Windows \union {NoWindow} /\ tasks[c].todo \in Seq(Steps)
    BY TaskIs, TaskFields, NoTodo DEF RegistryInv
  <2> QED BY <2>1, <2>2, <2>3 DEF RegistryInv, RegistryTypes, OutsideTypes, OpensHold, OpenTypes, RegistryTypeOK, Steps
<1> QED BY <1>1, RegistryInvariant, PTL
=============================================================================
