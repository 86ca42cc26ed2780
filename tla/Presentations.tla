--------------------------- MODULE Presentations ---------------------------
(***************************************************************************)
(* Windows that present local media or a web video: the authorization and  *)
(* the workspace watcher an open acquires, the paths that give them back   *)
(* (open.rs, lifecycle.rs, the Destroyed event of tauri_window.rs), and    *)
(* the loopback servers that serve a page by its token (media.rs,          *)
(* web_video.rs).                                                          *)
(*                                                                         *)
(* A token is minted for one window and never again, so it is named by its *)
(* window.  Each thread step between two locks is an action.  The toolkit, *)
(* the user, the pages' requests and whoever writes the file are external. *)
(***************************************************************************)
EXTENDS ByteRange, FiniteSets

CONSTANTS
  MediaWindows, VideoWindows,  \* the windows opened on a local file, on a web video
  Connections,                 \* threads of the loopback servers
  Headers,                     \* the Range headers requests carry
  Images,                      \* the media windows whose file is an image
  Bytes                        \* the length of the file at its admission

Presented == MediaWindows \cup VideoWindows

Nobody == "nobody"

ASSUME PresentAssumption ==
  /\ MediaWindows \cap VideoWindows = {}
  /\ Nobody \notin Presented \cup Connections
  /\ Headers \subseteq Header
  /\ Bytes \in Nat \ {0} /\ Bytes <= MaxU64

VARIABLES
  media, video,  \* by_window of the two authorities: the windows with an authorization
  opener,        \* the place of the thread that opens the window
  widget,        \* the native window: unused, hidden, live, dying (Destroyed not yet handled), gone
  registered,    \* windows with a record
  watched,       \* windows with a workspace watcher
  closer,        \* the window whose close is under way (the write side of lifecycle_lock)
  conn,          \* the server threads
  holder,        \* who holds the mutex of the file's handle
  cursor,        \* the handle's position
  size,          \* the length of the file now
  leftover,      \* history: videos whose profile directory failed after register
  late           \* history: windows watched after their Destroyed event was handled

authVars == <<media, video>>
windowVars == <<opener, widget, registered, watched, closer, leftover, late>>
serverVars == <<conn, holder, cursor, size>>
presentVars == <<media, video, opener, widget, registered, watched, closer, conn, holder,
                 cursor, size, leftover, late>>

Ended == {"open", "failed"}
Underway == {"authorized", "prepared", "built", "inserted", "shown", "queried", "watched",
             "placed", "observed"}

\* A thread with the request for a page that it has read so far.
Asking(at, status, w, head, ended) ==
  [at |-> at, win |-> w, head |-> head, content |-> FALSE, header |-> NoHeader, status |-> status,
   first |-> 0, last |-> 0, from |-> 0, len |-> 0, ended |-> ended]
IdleThread == Asking("idle", 0, Nobody, FALSE, FALSE)

PresentInit ==
  /\ media = {} /\ video = {} /\ registered = {} /\ watched = {} /\ leftover = {} /\ late = {}
  /\ opener = [w \in Presented |-> "idle"]
  /\ widget = [w \in Presented |-> "unused"]
  /\ closer = Nobody
  /\ conn = [c \in Connections |-> IdleThread]
  /\ holder = [w \in MediaWindows |-> Nobody]
  /\ cursor = [w \in MediaWindows |-> 0]
  /\ size = [w \in MediaWindows |-> Bytes]

-----------------------------------------------------------------------------
(* Opening a window *)

Step(w, from, to) == opener[w] = from /\ opener' = [opener EXCEPT ![w] = to]

RevokeCapability(w) == media' = media \ {w} /\ video' = video \ {w}

\* destroy() posts the end of the native window; its Destroyed event comes later.
Destroy(w) == widget' = [widget EXCEPT ![w] = IF @ \in {"hidden", "live"} THEN "dying" ELSE @]

Admit(w) == w \in MediaWindows /\ media' = media \cup {w} /\ UNCHANGED video
Register(w) == w \in VideoWindows /\ video' = video \cup {w} /\ UNCHANGED media

\* open takes the read side of lifecycle_lock; admit and register insert the
\* authorization, or refuse the source.
Authorize(w) ==
  /\ closer = Nobody
  /\ \/ Step(w, "idle", "authorized") /\ (Admit(w) \/ Register(w))
     \/ Step(w, "idle", "failed") /\ UNCHANGED authVars
  /\ UNCHANGED <<widget, registered, watched, closer, leftover, late>> /\ UNCHANGED serverVars

\* presentation_url revokes if it fails; profile_data_directory returns at once.
Prepare(w) ==
  /\ \/ Step(w, "authorized", "prepared") /\ UNCHANGED <<media, video, leftover>>
     \/ w \in MediaWindows /\ Step(w, "authorized", "failed") /\ RevokeCapability(w) /\ UNCHANGED leftover
     \/ /\ w \in VideoWindows /\ Step(w, "authorized", "failed")
        /\ leftover' = leftover \cup {w}
        /\ UNCHANGED authVars
  /\ UNCHANGED <<widget, registered, watched, closer, late>> /\ UNCHANGED serverVars

\* Fault: the authorization of a window that could not be built stays.
BuildKeeping(w) ==
  /\ \/ Step(w, "prepared", "built") /\ widget' = [widget EXCEPT ![w] = "hidden"]
     \/ Step(w, "prepared", "failed") /\ UNCHANGED widget
  /\ UNCHANGED <<media, video, registered, watched, closer, leftover, late>> /\ UNCHANGED serverVars

Build(w) ==
  /\ \/ /\ Step(w, "prepared", "built")
        /\ widget' = [widget EXCEPT ![w] = "hidden"]
        /\ UNCHANGED authVars
     \/ Step(w, "prepared", "failed") /\ RevokeCapability(w) /\ UNCHANGED widget
  /\ UNCHANGED <<registered, watched, closer, leftover, late>> /\ UNCHANGED serverVars

\* Attach the load observer, then insert the record.
InsertRecord(w) ==
  /\ \/ /\ Step(w, "built", "inserted")
        /\ registered' = registered \cup {w}
        /\ UNCHANGED <<media, video, widget>>
     \/ Step(w, "built", "failed") /\ Destroy(w) /\ RevokeCapability(w) /\ UNCHANGED registered
  /\ UNCHANGED <<watched, closer, leftover, late>> /\ UNCHANGED serverVars

RollBack(w, from) ==
  /\ Step(w, from, "failed")
  /\ registered' = registered \ {w}
  /\ RevokeCapability(w) /\ Destroy(w)

\* The initial geometry, show and set_focus.
ShowWindow(w) ==
  /\ \/ /\ Step(w, "inserted", "shown")
        /\ widget' = [widget EXCEPT ![w] = IF @ = "hidden" THEN "live" ELSE @]
        /\ UNCHANGED <<media, video, registered>>
     \/ RollBack(w, "inserted")
  /\ UNCHANGED <<watched, closer, leftover, late>> /\ UNCHANGED serverVars

\* watch_window first asks the display for the window's placement.  Its failure
\* leaves the authorization to the Destroyed event.
QueryPlacement(w) ==
  /\ \/ Step(w, "shown", "queried") /\ widget[w] = "live" /\ UNCHANGED <<widget, registered>>
     \/ Step(w, "shown", "failed") /\ registered' = registered \ {w} /\ Destroy(w)
  /\ UNCHANGED <<media, video, watched, closer, leftover, late>> /\ UNCHANGED serverVars

Watch(w) ==
  /\ Step(w, "queried", "watched")
  /\ watched' = watched \cup {w}
  /\ late' = IF widget[w] = "gone" THEN late \cup {w} ELSE late
  /\ UNCHANGED <<media, video, widget, registered, closer, leftover>> /\ UNCHANGED serverVars

\* apply_initial_workspace.
Place(w) ==
  /\ \/ Step(w, "watched", "placed") /\ UNCHANGED <<widget, registered, watched>>
     \/ /\ Step(w, "watched", "failed")
        /\ watched' = watched \ {w}
        /\ registered' = registered \ {w}
        /\ Destroy(w)
  /\ UNCHANGED <<media, video, closer, leftover, late>> /\ UNCHANGED serverVars

\* The status of a record that the Destroyed event has removed is an error.
TakeObservation(w) ==
  /\ Step(w, "placed", IF w \in registered THEN "observed" ELSE "failed")
  /\ UNCHANGED <<media, video, widget, registered, watched, closer, leftover, late>>
  /\ UNCHANGED serverVars

TrackOpen(w) ==
  /\ \/ Step(w, "observed", "open") /\ UNCHANGED <<media, video, widget, registered>>
     \/ RollBack(w, "observed")
  /\ UNCHANGED <<watched, closer, leftover, late>> /\ UNCHANGED serverVars

-----------------------------------------------------------------------------
(* Closing a window *)

\* The write side of lifecycle_lock waits for every open.
CloseBegin(w) ==
  /\ closer = Nobody /\ \A v \in Presented : opener[v] \notin Underway
  /\ w \in registered /\ widget[w] \in {"live", "dying"}
  /\ closer' = w
  /\ Destroy(w)
  /\ UNCHANGED <<media, video, opener, registered, watched, leftover, late>> /\ UNCHANGED serverVars

\* Fault: the end of a window does not end its authorization.
ReleaseRecord(w) == registered' = registered \ {w} /\ watched' = watched \ {w} /\ UNCHANGED authVars

Release(w) ==
  /\ registered' = registered \ {w}
  /\ watched' = watched \ {w}
  /\ RevokeCapability(w)

CloseFinish(w) ==
  /\ closer = w
  /\ closer' = Nobody
  /\ Release(w)
  /\ UNCHANGED <<opener, widget, leftover, late>> /\ UNCHANGED serverVars

\* External: the user or the display ends a shown window.
UserEnds(w) ==
  /\ widget[w] = "live"
  /\ Destroy(w)
  /\ UNCHANGED <<media, video, opener, registered, watched, closer, leftover, late>>
  /\ UNCHANGED serverVars

\* The Destroyed event of attach_window_events.
DestroyedEvent(w) ==
  /\ widget[w] = "dying"
  /\ widget' = [widget EXCEPT ![w] = "gone"]
  /\ Release(w)
  /\ UNCHANGED <<opener, closer, leftover, late>> /\ UNCHANGED serverVars

-----------------------------------------------------------------------------
(* Serving *)

LookUpToken(w) == w \in media \cup video

\* No thread will act for the window any more.
HasEnded(w) == widget[w] = "gone" \/ (opener[w] = "failed" /\ widget[w] = "unused")

Answer(c, status) == conn' = [conn EXCEPT ![c].at = "answered", ![c].status = status]

\* A wrong method, a wrong path, or a token that is not known; else the media server
\* goes on to read the headers, and the video server answers at once.
Refusals(w) == {<<"answered", 405>>, <<"answered", 404>>}
MediaReplies(w) == Refusals(w) \cup (IF LookUpToken(w) THEN {<<"headers", 0>>} ELSE {})
VideoReplies(w) == Refusals(w) \cup (IF LookUpToken(w) THEN {<<"answered", 200>>} ELSE {})

\* A connection up to the look-up of its token.
Ask(c) ==
  /\ conn[c].at = "idle"
  /\ \E w \in Presented, head \in BOOLEAN :
       \E reply \in IF w \in MediaWindows THEN MediaReplies(w) ELSE VideoReplies(w) :
         conn' = [conn EXCEPT ![c] = Asking(reply[1], reply[2], w, head, HasEnded(w))]
  /\ UNCHANGED <<holder, cursor, size>> /\ UNCHANGED windowVars /\ UNCHANGED authVars

\* serve_view, or serve_content up to read_range.
ReadHeaders(c) ==
  /\ conn[c].at = "headers"
  /\ \/ Answer(c, 200)
     \/ \E h \in Headers :
          LET k == conn[c]
              s == Select(h, k.win \in Images, Bytes)
              status == IF Partial(h, s, Bytes) THEN 206 ELSE 200
              next(at, code) == conn' = [conn EXCEPT ![c] =
                [at |-> at, win |-> k.win, head |-> k.head, content |-> TRUE, header |-> h,
                 status |-> code, first |-> s.first, last |-> s.last, from |-> 0, len |-> 0,
                 ended |-> k.ended]]
          IN  IF ~s.ok THEN next("answered", 416)
              ELSE IF k.head THEN next("answered", status) ELSE next("reading", status)
  /\ UNCHANGED <<holder, cursor, size>> /\ UNCHANGED windowVars /\ UNCHANGED authVars

\* Fault: the handle is not locked from the seek to the read.
SeekUnlocked(c) ==
  /\ conn[c].at = "reading"
  /\ cursor' = [cursor EXCEPT ![conn[c].win] = conn[c].first]
  /\ conn' = [conn EXCEPT ![c].at = "seeked"]
  /\ UNCHANGED <<holder, size>> /\ UNCHANGED windowVars /\ UNCHANGED authVars

\* read_range locks the handle, seeks, and reads before it unlocks.
Seek(c) ==
  /\ conn[c].at = "reading" /\ holder[conn[c].win] = Nobody
  /\ holder' = [holder EXCEPT ![conn[c].win] = c]
  /\ cursor' = [cursor EXCEPT ![conn[c].win] = conn[c].first]
  /\ conn' = [conn EXCEPT ![c].at = "seeked"]
  /\ UNCHANGED size /\ UNCHANGED windowVars /\ UNCHANGED authVars

Read(c) ==
  LET w == conn[c].win
      len == conn[c].last - conn[c].first + 1
  IN  /\ conn[c].at = "seeked"
      /\ holder' = [holder EXCEPT ![w] = Nobody]
      /\ IF cursor[w] + len <= size[w]
         THEN /\ conn' = [conn EXCEPT ![c].at = "answered", ![c].from = cursor[w], ![c].len = len]
              /\ cursor' = [cursor EXCEPT ![w] = @ + len]
         ELSE /\ Answer(c, 500)
              /\ cursor' = [cursor EXCEPT ![w] = IF @ > size[w] THEN @ ELSE size[w]]
      /\ UNCHANGED size /\ UNCHANGED windowVars /\ UNCHANGED authVars

Disconnect(c) ==
  /\ conn[c].at = "answered"
  /\ conn' = [conn EXCEPT ![c] = IdleThread]
  /\ UNCHANGED <<holder, cursor, size>> /\ UNCHANGED windowVars /\ UNCHANGED authVars

\* External: another process cuts the admitted file.
Truncate(w) ==
  /\ size[w] = Bytes
  /\ \E n \in 0..(Bytes - 1) : size' = [size EXCEPT ![w] = n]
  /\ UNCHANGED <<conn, holder, cursor>> /\ UNCHANGED windowVars /\ UNCHANGED authVars

PresentNext ==
  \/ \E w \in Presented :
       \/ Authorize(w) \/ Prepare(w) \/ Build(w) \/ InsertRecord(w) \/ ShowWindow(w) \/ QueryPlacement(w)
       \/ Watch(w) \/ Place(w) \/ TakeObservation(w) \/ TrackOpen(w)
       \/ CloseBegin(w) \/ CloseFinish(w) \/ UserEnds(w) \/ DestroyedEvent(w)
  \/ \E w \in MediaWindows : Truncate(w)
  \/ \E c \in Connections : Ask(c) \/ ReadHeaders(c) \/ Seek(c) \/ Read(c) \/ Disconnect(c)

PresentSpec == PresentInit /\ [][PresentNext]_presentVars

-----------------------------------------------------------------------------
(* Properties *)

Statuses == {0, 200, 206, 404, 405, 416, 500}

PresentTypeOK ==
  /\ media \subseteq MediaWindows /\ video \subseteq VideoWindows
  /\ registered \subseteq Presented /\ watched \subseteq Presented
  /\ leftover \subseteq VideoWindows /\ late \subseteq Presented
  /\ opener \in [Presented -> {"idle"} \cup Underway \cup Ended]
  /\ widget \in [Presented -> {"unused", "hidden", "live", "dying", "gone"}]
  /\ closer \in Presented \cup {Nobody}
  /\ conn \in [Connections ->
       [at : {"idle", "headers", "reading", "seeked", "answered"}, win : Presented \cup {Nobody},
        head : BOOLEAN, content : BOOLEAN, header : Header,
        status : Statuses, first : Nat, last : Nat,
        from : Nat, len : Nat, ended : BOOLEAN]]
  /\ holder \in [MediaWindows -> Connections \cup {Nobody}]
  /\ cursor \in [MediaWindows -> Nat]
  /\ size \in [MediaWindows -> 0..Bytes]

\* Whichever step of an open fails, and however the window ends, its authorization ends
\* with it: a window that has one is being opened, exists, or has its Destroyed event
\* to come (docs/LINUX.md:59).  A video whose profile directory failed is the exception.
AuthorizationEnds ==
  \A w \in (media \cup video) \ leftover :
    opener[w] \in Underway \/ widget[w] \in {"hidden", "live", "dying"}

\* A failed open and an ended window leave no authorization, no record and no watcher; a watcher inserted
\* after the Destroyed event was handled (linux.rs watch_window) is the exception.
NothingIsLeft ==
  /\ AuthorizationEnds
  /\ \A w \in Presented :
       /\ w \in watched \ late => widget[w] \in {"live", "dying"}
       /\ w \in registered => widget[w] \in {"hidden", "live", "dying"} /\ opener[w] # "failed"

\* A request that comes after the window has ended is not served (media.rs and
\* web_video.rs look the token up; docs/LINUX.md:70 unknown tokens return 404).
EndedIsNotServed ==
  \A c \in Connections :
    conn[c].ended /\ conn[c].win \notin leftover =>
      conn[c].at = "answered" /\ conn[c].status \in {404, 405}

\* A content request is refused exactly if it asks for no byte of the file; an answer is
\* the longest beginning of what it asks for that fits the cap (serve_content).
AnswerIsSound ==
  \A c \in Connections :
    LET k == conn[c]
    IN  k.content =>
          IF k.status = 416 THEN Wanted(k.header, Bytes) = {}
          ELSE IsBeginning([first |-> k.first, last |-> k.last], Wanted(k.header, Bytes))

\* Two range requests share the handle and its position: the bytes of an answer are
\* those its Content-Range names, the range is what was asked for, and an answer 200 has the
\* whole file (read_range).
BodyIsItsRange ==
  /\ AnswerIsSound
  /\ \A c \in Connections :
       conn[c].len > 0 =>
         /\ conn[c].from = conn[c].first /\ conn[c].len = conn[c].last - conn[c].first + 1
         /\ conn[c].len <= MaxResponse
         /\ conn[c].status = 200 => conn[c].first = 0 /\ conn[c].len = Bytes
=============================================================================
