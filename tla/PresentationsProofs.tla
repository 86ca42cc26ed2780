------------------------ MODULE PresentationsProofs ------------------------
(***************************************************************************)
(* Proofs about Presentations, for every set of windows and of server      *)
(* threads, every file and every header: the bytes of an answer are those  *)
(* that were asked for, and an authorization ends with its window.         *)
(* WindowSound relates what the thread that opens a window has done to     *)
(* what the toolkit has of the window, which is why no record and no       *)
(* authorization outlives it; ThreadSound follows a connection, and        *)
(* HandleSound says who may move the handle of a file.                     *)
(***************************************************************************)
EXTENDS Presentations, TLAPS

Unbuilt == {"idle", "authorized", "prepared"}
Hidden == {"built", "inserted"}
Displayed == {"shown", "queried", "watched", "placed", "observed", "open"}
Recorded == {"inserted", "shown", "queried", "watched", "placed", "observed"}
Existing == {"hidden", "live", "dying"}

\* A window's opening and the native window go together; a record or a watcher goes with the
\* native window, and so does an authorization once the opening is over.
WindowSound(w) ==
  /\ opener[w] \in Unbuilt => widget[w] = "unused"
  /\ opener[w] \in Hidden => widget[w] = "hidden"
  /\ opener[w] \in Displayed => widget[w] \in {"live", "dying", "gone"}
  /\ opener[w] = "failed" => widget[w] \in {"unused", "dying", "gone"}
  /\ opener[w] = "built" => w \notin registered
  /\ opener[w] \in Recorded /\ w \notin registered => widget[w] = "gone"
  /\ w \in registered => widget[w] \in Existing /\ opener[w] # "failed"
  /\ w \in watched \ late => widget[w] \in {"live", "dying"}
  /\ w \in leftover => opener[w] = "failed" /\ widget[w] = "unused"
  /\ w \in (media \cup video) \ leftover => opener[w] \in Underway \/ widget[w] \in Existing
  /\ widget[w] = "gone" => w \notin media \cup video

\* The write side of lifecycle_lock excludes every open.
LockSound == closer # Nobody => \A w \in Presented : opener[w] \notin Underway

WindowInv ==
  /\ LockSound
  /\ \A w \in Presented : WindowSound(w)

\* What a connection holds when it has come so far.
ThreadSound(k) ==
  /\ k.at \in {"headers", "reading", "seeked"} => k.win \in MediaWindows /\ ~k.ended /\ k.len = 0
  /\ k.at = "headers" => ~k.content
  /\ k.at \in {"reading", "seeked"} => k.content /\ k.status \in {200, 206}
  /\ k.content /\ k.status = 416 => Wanted(k.header, Bytes) = {}
  /\ k.content /\ k.status # 416 =>
       IsBeginning([first |-> k.first, last |-> k.last], Wanted(k.header, Bytes))
  /\ k.content /\ k.status = 200 => k.first = 0 /\ k.last = Bytes - 1
  /\ k.len > 0 => k.content /\ k.status # 416 /\ k.from = k.first /\ k.len = k.last - k.first + 1

\* Between its seek and its read a thread holds the handle, which stays where it was put.
HandleSound(c) ==
  conn[c].at = "seeked" => holder[conn[c].win] = c /\ cursor[conn[c].win] = conn[c].first

ServerInv == \A c \in Connections : ThreadSound(conn[c]) /\ HandleSound(c)

PresentInv == PresentTypeOK /\ WindowInv /\ EndedIsNotServed /\ ServerInv

-----------------------------------------------------------------------------
(* Which bytes a request is given *)

\* What parse_range and the default selection choose before the cap: all that is wanted, unless
\* the cap of the default comes first.
Whole(first, last, wanted) ==
  /\ first <= last /\ first..last \subseteq wanted
  /\ \A p \in wanted : first <= p /\ (p < first + MaxResponse => p <= last)

LEMMA ParseIsWhole ==
  ASSUME NEW h \in Header, h.kind # "none", NEW total \in Nat \ {0}
  PROVE  LET s == ParseRange(h, total)
         IN  IF s.ok THEN s.first \in Nat /\ s.last \in Nat /\ Whole(s.first, s.last, Wanted(h, total))
                     ELSE s = Unsatisfiable /\ Wanted(h, total) = {}
<1>0. h.start \in Nat /\ h.end \in Nat /\ MaxResponse \in Nat /\ MaxResponse > 0
  BY RangeAssumption DEF Header
<1>1. CASE h.kind = "malformed"
  BY <1>1 DEF ParseRange, Unsatisfiable, Wanted
<1>2. CASE h.kind = "suffix"
  BY <1>0, <1>2 DEF ParseRange, Unsatisfiable, Wanted, Chosen, Whole, SuffixStart, Least
<1>3. CASE h.kind = "from"
  BY <1>0, <1>3 DEF ParseRange, Unsatisfiable, Wanted, Chosen, Whole, Least
<1>4. CASE h.kind = "between"
  BY <1>0, <1>4 DEF ParseRange, Unsatisfiable, Wanted, Chosen, Whole, Least
<1> QED BY <1>1, <1>2, <1>3, <1>4 DEF Header

LEMMA UnaskedIsWhole ==
  ASSUME NEW h \in Header, h.kind = "none", NEW total \in Nat \ {0}, NEW image \in BOOLEAN
  PROVE  LET s == Unasked(image, total)
         IN  s.ok /\ s.first = 0 /\ s.last \in Nat /\ Whole(s.first, s.last, Wanted(h, total))
BY RangeAssumption DEF Unasked, Wanted, Chosen, Whole, Least, Header

LEMMA CapIsBeginning ==
  ASSUME NEW total \in Nat, total <= MaxU64, NEW wanted \in SUBSET (0..(total - 1)),
         NEW first \in Nat, NEW last \in Nat, Whole(first, last, wanted)
  PROVE  LET s == CapRange(first, last)
         IN  s.ok /\ s.first = first /\ s.last \in Nat /\ s.last < total /\ IsBeginning(s, wanted)
<1> DEFINE s == CapRange(first, last)
<1>0. MaxResponse \in Nat /\ MaxResponse > 0 /\ MaxU64 \in Nat
  BY RangeAssumption
<1>1. last \in wanted /\ first \in wanted /\ last < total
  BY DEF Whole
<1>2. s.ok /\ s.first = first
  BY DEF CapRange, Chosen
<1>3. /\ s.last \in first..last /\ s.last <= first + MaxResponse - 1
      /\ s.last = last \/ s.last = first + MaxResponse - 1
  BY <1>0, <1>1 DEF CapRange, SaturatingAdd, Least, Chosen, Whole
<1> HIDE DEF s
<1>4. s.last \in wanted
  BY <1>3 DEF Whole
<1>5. \A p \in wanted : p <= s.last <=> p < first + MaxResponse
  BY <1>0, <1>3 DEF Whole
<1>6. IsBeginning(s, wanted)
  BY <1>1, <1>2, <1>4, <1>5 DEF IsBeginning, Whole
<1>7. s.ok /\ s.first = first /\ s.last \in Nat /\ s.last < total /\ IsBeginning(s, wanted)
  BY <1>1, <1>2, <1>3, <1>6
<1> QED BY <1>7 DEF s

(* A request is satisfied exactly if it asks for a byte of the file, and given the longest      *)
(* beginning of what it asks for that fits the cap, with no step out of 64 bits: for every      *)
(* header, every file that is not empty, and every cap.                                        *)
THEOREM SelectionIsSound ==
  ASSUME NEW h \in Header, NEW image \in BOOLEAN, NEW total \in Nat \ {0}, total <= MaxU64
  PROVE  /\ RangeIsSound(h, image, total)
         /\ Select(h, image, total).first \in Nat /\ Select(h, image, total).last \in Nat
<1> DEFINE s == IF h.kind = "none" THEN Unasked(image, total) ELSE ParseRange(h, total)
<1>1. Wanted(h, total) \in SUBSET (0..(total - 1)) /\ MaxU64 \in Nat
  BY RangeAssumption DEF Wanted
<1>2. /\ s.ok => s.first \in Nat /\ s.last \in Nat /\ Whole(s.first, s.last, Wanted(h, total))
      /\ ~s.ok => s = Unsatisfiable /\ Wanted(h, total) = {}
  BY ParseIsWhole, UnaskedIsWhole
<1>3. Select(h, image, total) = IF s.ok THEN CapRange(s.first, s.last) ELSE s
  BY DEF Select
<1> HIDE DEF s
<1>4. CASE s.ok
  <2> DEFINE c == CapRange(s.first, s.last)
  <2>1. c.ok /\ c.first = s.first /\ c.last \in Nat /\ c.last < total /\ IsBeginning(c, Wanted(h, total))
    BY <1>1, <1>2, <1>4, CapIsBeginning
  <2>2. Select(h, image, total) = c /\ s.first \in Nat
    BY <1>2, <1>3, <1>4
  <2>3. Wanted(h, total) # {}
    BY <2>1 DEF IsBeginning
  <2> HIDE DEF c
  <2> QED BY <1>1, <2>1, <2>2, <2>3 DEF RangeIsSound
<1>5. CASE ~s.ok
  BY <1>2, <1>3, <1>5 DEF RangeIsSound, Unsatisfiable
<1> QED BY <1>4, <1>5

-----------------------------------------------------------------------------
(* Windows *)

WindowTypeOK ==
  /\ media \subseteq MediaWindows /\ video \subseteq VideoWindows
  /\ registered \subseteq Presented /\ watched \subseteq Presented
  /\ leftover \subseteq VideoWindows /\ late \subseteq Presented
  /\ opener \in [Presented -> {"idle"} \cup Underway \cup Ended]
  /\ widget \in [Presented -> {"unused", "hidden", "live", "dying", "gone"}]
  /\ closer \in Presented \cup {Nobody}

\* What a step on one window leaves alone.
Elsewhere(w) ==
  \A v \in Presented \ {w} :
    /\ opener'[v] = opener[v] /\ widget'[v] = widget[v]
    /\ v \in registered' <=> v \in registered
    /\ v \in watched' <=> v \in watched
    /\ v \in late' <=> v \in late
    /\ v \in leftover' <=> v \in leftover
    /\ v \in media' \cup video' <=> v \in media \cup video

LEMMA ElsewhereKeeps ==
  ASSUME NEW w \in Presented, Elsewhere(w), NEW v \in Presented \ {w}, WindowSound(v)
  PROVE  WindowSound(v)'
BY DEF Elsewhere, WindowSound

\* A step on one window that leaves it sound keeps the invariant.
LEMMA WindowStepKeeps ==
  ASSUME PresentInv, NEW w \in Presented, Elsewhere(w), WindowSound(w)', LockSound',
         WindowTypeOK', leftover \subseteq leftover', UNCHANGED serverVars
  PROVE  PresentInv'
<1>1. PresentTypeOK'
  BY DEF PresentInv, PresentTypeOK, WindowTypeOK, serverVars
<1>2. WindowInv'
  BY ElsewhereKeeps DEF PresentInv, WindowInv
<1>3. EndedIsNotServed'
  BY DEF PresentInv, EndedIsNotServed, serverVars
<1>4. ServerInv'
  BY DEF PresentInv, ServerInv, HandleSound, serverVars
<1> QED BY <1>1, <1>2, <1>3, <1>4 DEF PresentInv

LEMMA AuthorizeKeeps == ASSUME PresentInv, NEW w \in Presented, Authorize(w) PROVE PresentInv'
<1>1. WindowTypeOK'
  BY DEF Authorize, Step, Admit, Register, authVars, PresentInv, PresentTypeOK, WindowTypeOK,
         Presented, Underway, Ended
<1>2. Elsewhere(w)
  BY DEF Authorize, Step, Admit, Register, authVars, PresentInv, PresentTypeOK, Elsewhere
<1>3. WindowSound(w)'
  BY PresentAssumption DEF Authorize, Step, Admit, Register, authVars, PresentInv, PresentTypeOK,
                           WindowInv, WindowSound, LockSound, Presented, Unbuilt, Hidden, Displayed,
                           Recorded, Existing, Underway
<1>4. LockSound'
  BY PresentAssumption DEF Authorize, Step, PresentInv, PresentTypeOK, WindowInv, LockSound,
                           Underway
<1>5. leftover \subseteq leftover' /\ UNCHANGED serverVars
  BY DEF Authorize
<1> QED BY <1>1, <1>2, <1>3, <1>4, <1>5, WindowStepKeeps

LEMMA PrepareKeeps == ASSUME PresentInv, NEW w \in Presented, Prepare(w) PROVE PresentInv'
<1>1. WindowTypeOK'
  BY DEF Prepare, Step, RevokeCapability, authVars, PresentInv, PresentTypeOK, WindowTypeOK,
         Presented, Underway, Ended
<1>2. Elsewhere(w)
  BY DEF Prepare, Step, RevokeCapability, authVars, PresentInv, PresentTypeOK, Elsewhere
<1>3. WindowSound(w)'
  BY PresentAssumption DEF Prepare, Step, RevokeCapability, authVars, PresentInv, PresentTypeOK,
                           WindowInv, WindowSound, LockSound, Presented, Unbuilt, Hidden, Displayed,
                           Recorded, Existing, Underway
<1>4. LockSound'
  BY PresentAssumption DEF Prepare, Step, PresentInv, PresentTypeOK, WindowInv, LockSound, Underway
<1>5. leftover \subseteq leftover' /\ UNCHANGED serverVars
  BY DEF Prepare
<1> QED BY <1>1, <1>2, <1>3, <1>4, <1>5, WindowStepKeeps

LEMMA BuildKeeps == ASSUME PresentInv, NEW w \in Presented, Build(w) PROVE PresentInv'
<1>1. WindowTypeOK'
  BY DEF Build, Step, RevokeCapability, authVars, PresentInv, PresentTypeOK, WindowTypeOK,
         Presented, Underway, Ended
<1>2. Elsewhere(w)
  BY DEF Build, Step, RevokeCapability, authVars, PresentInv, PresentTypeOK, Elsewhere
<1>3. WindowSound(w)'
  BY PresentAssumption DEF Build, Step, RevokeCapability, authVars, PresentInv, PresentTypeOK,
                           WindowInv, WindowSound, LockSound, Presented, Unbuilt, Hidden, Displayed,
                           Recorded, Existing, Underway
<1>4. LockSound'
  BY PresentAssumption DEF Build, Step, PresentInv, PresentTypeOK, WindowInv, LockSound, Underway
<1>5. leftover \subseteq leftover' /\ UNCHANGED serverVars
  BY DEF Build
<1> QED BY <1>1, <1>2, <1>3, <1>4, <1>5, WindowStepKeeps

LEMMA InsertRecordKeeps == ASSUME PresentInv, NEW w \in Presented, InsertRecord(w) PROVE PresentInv'
<1>1. WindowTypeOK'
  BY DEF InsertRecord, Step, RevokeCapability, Destroy, PresentInv, PresentTypeOK, WindowTypeOK,
         Presented, Underway, Ended
<1>2. Elsewhere(w)
  BY DEF InsertRecord, Step, RevokeCapability, Destroy, PresentInv, PresentTypeOK, Elsewhere
<1>3. WindowSound(w)'
  BY PresentAssumption DEF InsertRecord, Step, RevokeCapability, Destroy, PresentInv, PresentTypeOK,
                           WindowInv, WindowSound, LockSound, Presented, Unbuilt, Hidden, Displayed,
                           Recorded, Existing, Underway
<1>4. LockSound'
  BY PresentAssumption DEF InsertRecord, Step, PresentInv, PresentTypeOK, WindowInv, LockSound,
                           Underway
<1>5. leftover \subseteq leftover' /\ UNCHANGED serverVars
  BY DEF InsertRecord
<1> QED BY <1>1, <1>2, <1>3, <1>4, <1>5, WindowStepKeeps

LEMMA ShowWindowKeeps == ASSUME PresentInv, NEW w \in Presented, ShowWindow(w) PROVE PresentInv'
<1>1. WindowTypeOK'
  BY DEF ShowWindow, Step, RevokeCapability, Destroy, RollBack, PresentInv, PresentTypeOK,
         WindowTypeOK, Presented, Underway, Ended
<1>2. Elsewhere(w)
  BY DEF ShowWindow, Step, RevokeCapability, Destroy, RollBack, PresentInv, PresentTypeOK, Elsewhere
<1>3. WindowSound(w)'
  BY PresentAssumption DEF ShowWindow, Step, RevokeCapability, Destroy, RollBack, PresentInv,
                           PresentTypeOK, WindowInv, WindowSound, LockSound, Presented, Unbuilt,
                           Hidden, Displayed, Recorded, Existing, Underway
<1>4. LockSound'
  BY PresentAssumption DEF ShowWindow, Step, RollBack, PresentInv, PresentTypeOK, WindowInv,
                           LockSound, Underway
<1>5. leftover \subseteq leftover' /\ UNCHANGED serverVars
  BY DEF ShowWindow
<1> QED BY <1>1, <1>2, <1>3, <1>4, <1>5, WindowStepKeeps

LEMMA QueryPlacementKeeps == ASSUME PresentInv, NEW w \in Presented, QueryPlacement(w) PROVE PresentInv'
<1>1. WindowTypeOK'
  BY DEF QueryPlacement, Step, Destroy, PresentInv, PresentTypeOK, WindowTypeOK, Presented,
         Underway, Ended
<1>2. Elsewhere(w)
  BY DEF QueryPlacement, Step, Destroy, PresentInv, PresentTypeOK, Elsewhere
<1>3. WindowSound(w)'
  BY PresentAssumption DEF QueryPlacement, Step, Destroy, PresentInv, PresentTypeOK, WindowInv,
                           WindowSound, LockSound, Presented, Unbuilt, Hidden, Displayed, Recorded,
                           Existing, Underway
<1>4. LockSound'
  BY PresentAssumption DEF QueryPlacement, Step, PresentInv, PresentTypeOK, WindowInv, LockSound,
                           Underway
<1>5. leftover \subseteq leftover' /\ UNCHANGED serverVars
  BY DEF QueryPlacement
<1> QED BY <1>1, <1>2, <1>3, <1>4, <1>5, WindowStepKeeps

LEMMA WatchKeeps == ASSUME PresentInv, NEW w \in Presented, Watch(w) PROVE PresentInv'
<1>1. WindowTypeOK'
  BY DEF Watch, Step, PresentInv, PresentTypeOK, WindowTypeOK, Presented, Underway, Ended
<1>2. Elsewhere(w)
  BY DEF Watch, Step, PresentInv, PresentTypeOK, Elsewhere
<1>3. WindowSound(w)'
  BY PresentAssumption DEF Watch, Step, PresentInv, PresentTypeOK, WindowInv, WindowSound,
                           LockSound, Presented, Unbuilt, Hidden, Displayed, Recorded, Existing,
                           Underway
<1>4. LockSound'
  BY PresentAssumption DEF Watch, Step, PresentInv, PresentTypeOK, WindowInv, LockSound, Underway
<1>5. leftover \subseteq leftover' /\ UNCHANGED serverVars
  BY DEF Watch
<1> QED BY <1>1, <1>2, <1>3, <1>4, <1>5, WindowStepKeeps

LEMMA PlaceKeeps == ASSUME PresentInv, NEW w \in Presented, Place(w) PROVE PresentInv'
<1>1. WindowTypeOK'
  BY DEF Place, Step, Destroy, PresentInv, PresentTypeOK, WindowTypeOK, Presented, Underway, Ended
<1>2. Elsewhere(w)
  BY DEF Place, Step, Destroy, PresentInv, PresentTypeOK, Elsewhere
<1>3. WindowSound(w)'
  BY PresentAssumption DEF Place, Step, Destroy, PresentInv, PresentTypeOK, WindowInv, WindowSound,
                           LockSound, Presented, Unbuilt, Hidden, Displayed, Recorded, Existing,
                           Underway
<1>4. LockSound'
  BY PresentAssumption DEF Place, Step, PresentInv, PresentTypeOK, WindowInv, LockSound, Underway
<1>5. leftover \subseteq leftover' /\ UNCHANGED serverVars
  BY DEF Place
<1> QED BY <1>1, <1>2, <1>3, <1>4, <1>5, WindowStepKeeps

LEMMA TakeObservationKeeps == ASSUME PresentInv, NEW w \in Presented, TakeObservation(w) PROVE PresentInv'
<1>1. WindowTypeOK'
  BY DEF TakeObservation, Step, PresentInv, PresentTypeOK, WindowTypeOK, Presented, Underway, Ended
<1>2. Elsewhere(w)
  BY DEF TakeObservation, Step, PresentInv, PresentTypeOK, Elsewhere
<1>3. WindowSound(w)'
  BY PresentAssumption DEF TakeObservation, Step, PresentInv, PresentTypeOK, WindowInv, WindowSound,
                           LockSound, Presented, Unbuilt, Hidden, Displayed, Recorded, Existing,
                           Underway
<1>4. LockSound'
  BY PresentAssumption DEF TakeObservation, Step, PresentInv, PresentTypeOK, WindowInv, LockSound,
                           Underway
<1>5. leftover \subseteq leftover' /\ UNCHANGED serverVars
  BY DEF TakeObservation
<1> QED BY <1>1, <1>2, <1>3, <1>4, <1>5, WindowStepKeeps

LEMMA TrackOpenKeeps == ASSUME PresentInv, NEW w \in Presented, TrackOpen(w) PROVE PresentInv'
<1>1. WindowTypeOK'
  BY DEF TrackOpen, Step, RevokeCapability, Destroy, RollBack, PresentInv, PresentTypeOK,
         WindowTypeOK, Presented, Underway, Ended
<1>2. Elsewhere(w)
  BY DEF TrackOpen, Step, RevokeCapability, Destroy, RollBack, PresentInv, PresentTypeOK, Elsewhere
<1>3. WindowSound(w)'
  BY PresentAssumption DEF TrackOpen, Step, RevokeCapability, Destroy, RollBack, PresentInv,
                           PresentTypeOK, WindowInv, WindowSound, LockSound, Presented, Unbuilt,
                           Hidden, Displayed, Recorded, Existing, Underway
<1>4. LockSound'
  BY PresentAssumption DEF TrackOpen, Step, RollBack, PresentInv, PresentTypeOK, WindowInv,
                           LockSound, Underway
<1>5. leftover \subseteq leftover' /\ UNCHANGED serverVars
  BY DEF TrackOpen
<1> QED BY <1>1, <1>2, <1>3, <1>4, <1>5, WindowStepKeeps

LEMMA CloseBeginKeeps == ASSUME PresentInv, NEW w \in Presented, CloseBegin(w) PROVE PresentInv'
<1>1. WindowTypeOK'
  BY DEF CloseBegin, Destroy, PresentInv, PresentTypeOK, WindowTypeOK, Presented, Underway, Ended
<1>2. Elsewhere(w)
  BY DEF CloseBegin, Destroy, PresentInv, PresentTypeOK, Elsewhere
<1>3. WindowSound(w)'
  BY PresentAssumption DEF CloseBegin, Destroy, PresentInv, PresentTypeOK, WindowInv, WindowSound,
                           LockSound, Presented, Unbuilt, Hidden, Displayed, Recorded, Existing,
                           Underway
<1>4. LockSound'
  BY PresentAssumption DEF CloseBegin, PresentInv, PresentTypeOK, WindowInv, LockSound, Underway
<1>5. leftover \subseteq leftover' /\ UNCHANGED serverVars
  BY DEF CloseBegin
<1> QED BY <1>1, <1>2, <1>3, <1>4, <1>5, WindowStepKeeps

LEMMA CloseFinishKeeps == ASSUME PresentInv, NEW w \in Presented, CloseFinish(w) PROVE PresentInv'
<1>1. WindowTypeOK'
  BY DEF CloseFinish, RevokeCapability, Release, PresentInv, PresentTypeOK, WindowTypeOK, Presented,
         Underway, Ended
<1>2. Elsewhere(w)
  BY DEF CloseFinish, RevokeCapability, Release, PresentInv, PresentTypeOK, Elsewhere
<1>3. WindowSound(w)'
  BY PresentAssumption DEF CloseFinish, RevokeCapability, Release, PresentInv, PresentTypeOK,
                           WindowInv, WindowSound, LockSound, Presented, Unbuilt, Hidden, Displayed,
                           Recorded, Existing, Underway
<1>4. LockSound'
  BY PresentAssumption DEF CloseFinish, PresentInv, PresentTypeOK, WindowInv, LockSound, Underway
<1>5. leftover \subseteq leftover' /\ UNCHANGED serverVars
  BY DEF CloseFinish
<1> QED BY <1>1, <1>2, <1>3, <1>4, <1>5, WindowStepKeeps

LEMMA UserEndsKeeps == ASSUME PresentInv, NEW w \in Presented, UserEnds(w) PROVE PresentInv'
<1>1. WindowTypeOK'
  BY DEF UserEnds, Destroy, PresentInv, PresentTypeOK, WindowTypeOK, Presented, Underway, Ended
<1>2. Elsewhere(w)
  BY DEF UserEnds, Destroy, PresentInv, PresentTypeOK, Elsewhere
<1>3. WindowSound(w)'
  BY PresentAssumption DEF UserEnds, Destroy, PresentInv, PresentTypeOK, WindowInv, WindowSound,
                           LockSound, Presented, Unbuilt, Hidden, Displayed, Recorded, Existing,
                           Underway
<1>4. LockSound'
  BY PresentAssumption DEF UserEnds, PresentInv, PresentTypeOK, WindowInv, LockSound, Underway
<1>5. leftover \subseteq leftover' /\ UNCHANGED serverVars
  BY DEF UserEnds
<1> QED BY <1>1, <1>2, <1>3, <1>4, <1>5, WindowStepKeeps

LEMMA DestroyedEventKeeps == ASSUME PresentInv, NEW w \in Presented, DestroyedEvent(w) PROVE PresentInv'
<1>1. WindowTypeOK'
  BY DEF DestroyedEvent, RevokeCapability, Release, PresentInv, PresentTypeOK, WindowTypeOK,
         Presented, Underway, Ended
<1>2. Elsewhere(w)
  BY DEF DestroyedEvent, RevokeCapability, Release, PresentInv, PresentTypeOK, Elsewhere
<1>3. WindowSound(w)'
  BY PresentAssumption DEF DestroyedEvent, RevokeCapability, Release, PresentInv, PresentTypeOK,
                           WindowInv, WindowSound, LockSound, Presented, Unbuilt, Hidden, Displayed,
                           Recorded, Existing, Underway
<1>4. LockSound'
  BY PresentAssumption DEF DestroyedEvent, PresentInv, PresentTypeOK, WindowInv, LockSound, Underway
<1>5. leftover \subseteq leftover' /\ UNCHANGED serverVars
  BY DEF DestroyedEvent
<1> QED BY <1>1, <1>2, <1>3, <1>4, <1>5, WindowStepKeeps

-----------------------------------------------------------------------------
(* Servers *)

Thread ==
  [at : {"idle", "headers", "reading", "seeked", "answered"}, win : Presented \cup {Nobody},
   head : BOOLEAN, content : BOOLEAN, header : Header,
   status : Statuses, first : Nat, last : Nat,
   from : Nat, len : Nat, ended : BOOLEAN]

HandlesOK ==
  /\ holder \in [MediaWindows -> Connections \cup {Nobody}]
  /\ cursor \in [MediaWindows -> Nat] /\ size \in [MediaWindows -> 0..Bytes]

\* A request of a window that has ended is refused, whatever is left of the window.
Refused(k) == k.ended /\ k.win \notin leftover => k.at = "answered" /\ k.status \in {404, 405}

LEMMA InvThread ==
  ASSUME PresentInv, NEW c \in Connections
  PROVE  conn[c] \in Thread /\ ThreadSound(conn[c]) /\ Refused(conn[c]) /\ HandleSound(c)
BY DEF PresentInv, PresentTypeOK, ServerInv, EndedIsNotServed, Thread, Refused

\* A step of one thread that leaves it sound keeps the invariant, if the handles other threads
\* hold stay theirs and where they were put.
LEMMA ThreadStepKeeps ==
  ASSUME PresentInv, UNCHANGED windowVars, UNCHANGED authVars, HandlesOK',
         conn' \in [Connections -> Thread],
         NEW c \in Connections,
         \A d \in Connections \ {c} : conn'[d] = conn[d] /\ HandleSound(d)',
         ThreadSound(conn[c])', Refused(conn[c])', HandleSound(c)'
  PROVE  PresentInv'
<1>1. PresentTypeOK'
  BY DEF PresentInv, PresentTypeOK, Thread, HandlesOK, windowVars, authVars
<1>2. WindowInv'
  BY DEF PresentInv, WindowInv, WindowSound, LockSound, windowVars, authVars
<1>3. EndedIsNotServed'
  BY DEF PresentInv, EndedIsNotServed, Refused, windowVars
<1>4. ServerInv'
  BY DEF PresentInv, ServerInv
<1> QED BY <1>1, <1>2, <1>3, <1>4 DEF PresentInv

\* A step that takes no handle, moves none and ends none: only the thread has changed.
LEMMA QuietStepKeeps ==
  ASSUME PresentInv, UNCHANGED windowVars, UNCHANGED authVars, UNCHANGED <<holder, cursor, size>>,
         NEW c \in Connections, NEW k \in Thread, conn' = [conn EXCEPT ![c] = k],
         k.at # "seeked", ThreadSound(k), Refused(k)
  PROVE  PresentInv'
<1>1. /\ conn' \in [Connections -> Thread] /\ conn'[c] = k
      /\ \A d \in Connections \ {c} : conn'[d] = conn[d]
  BY DEF PresentInv, PresentTypeOK, Thread
<1>2. \A d \in Connections : HandleSound(d)'
  BY <1>1 DEF PresentInv, ServerInv, HandleSound
<1>3. HandlesOK'
  BY DEF HandlesOK, PresentInv, PresentTypeOK
<1>4. ThreadSound(conn[c])' /\ Refused(conn[c])'
  BY <1>1 DEF ThreadSound, Refused, windowVars
<1> QED BY <1>1, <1>2, <1>3, <1>4, ThreadStepKeeps

LEMMA IdleIsSound == IdleThread \in Thread /\ ThreadSound(IdleThread) /\ Refused(IdleThread)
BY DEF IdleThread, Asking, Thread, Statuses, ThreadSound, Refused, Header, NoHeader

LEMMA AskKeeps == ASSUME PresentInv, NEW c \in Connections, Ask(c) PROVE PresentInv'
<1>0. PICK w \in Presented, head \in BOOLEAN :
        \E reply \in IF w \in MediaWindows THEN MediaReplies(w) ELSE VideoReplies(w) :
          conn' = [conn EXCEPT ![c] = Asking(reply[1], reply[2], w, head, HasEnded(w))]
  BY DEF Ask
<1>1. PICK reply \in IF w \in MediaWindows THEN MediaReplies(w) ELSE VideoReplies(w) :
        conn' = [conn EXCEPT ![c] = Asking(reply[1], reply[2], w, head, HasEnded(w))]
  BY <1>0
<1> DEFINE k == Asking(reply[1], reply[2], w, head, HasEnded(w))
<1>2. /\ k.at = reply[1] /\ k.status = reply[2] /\ k.win = w /\ k.ended = HasEnded(w)
      /\ k.len = 0 /\ k.content = FALSE
  BY DEF Asking
<1>3. reply[1] \in {"answered", "headers"} /\ reply[2] \in {0, 200, 404, 405}
  BY DEF MediaReplies, VideoReplies, Refusals
<1>4. k \in Thread
  BY <1>3 DEF HasEnded, Thread, Asking, NoHeader, Header, Statuses
<1>5. HasEnded(w) /\ w \notin leftover => ~LookUpToken(w)
  BY DEF HasEnded, LookUpToken, PresentInv, WindowInv, WindowSound, Underway, Existing
<1>6. reply[1] = "headers" => w \in MediaWindows /\ w \notin leftover /\ LookUpToken(w)
  BY PresentAssumption DEF MediaReplies, VideoReplies, Refusals, PresentInv, PresentTypeOK
<1>7. ~LookUpToken(w) => reply[1] = "answered" /\ reply[2] \in {404, 405}
  BY DEF MediaReplies, VideoReplies, Refusals
<1>8. UNCHANGED windowVars /\ UNCHANGED authVars /\ UNCHANGED <<holder, cursor, size>>
  BY DEF Ask
<1> HIDE DEF k
<1>9. k.at # "seeked" /\ ThreadSound(k) /\ Refused(k)
  BY <1>2, <1>3, <1>5, <1>6, <1>7 DEF ThreadSound, Refused
<1> QED BY <1>1, <1>4, <1>8, <1>9, QuietStepKeeps DEF k

LEMMA ThreadAt ==
  ASSUME NEW t \in Thread, NEW at \in {"seeked", "answered"} PROVE [t EXCEPT !.at = at] \in Thread
BY DEF Thread

LEMMA ThreadStatus ==
  ASSUME NEW t \in Thread, NEW status \in Statuses PROVE [t EXCEPT !.status = status] \in Thread
BY DEF Thread

LEMMA ThreadLen ==
  ASSUME NEW t \in Thread, NEW n \in Nat
  PROVE  [t EXCEPT !.from = n] \in Thread /\ [t EXCEPT !.len = n] \in Thread
BY DEF Thread

LEMMA AnswerIsTyped ==
  ASSUME conn \in [Connections -> Thread], NEW c \in Connections, NEW status \in Statuses,
         Answer(c, status)
  PROVE  conn' \in [Connections -> Thread]
<1>1. [conn[c] EXCEPT !.at = "answered", !.status = status] \in Thread
  BY ThreadAt, ThreadStatus
<1>2. conn' = [conn EXCEPT ![c] = [conn[c] EXCEPT !.at = "answered", !.status = status]]
  BY DEF Answer
<1> QED BY <1>1, <1>2

\* A connection's last step: nothing of the request changes but its status.
LEMMA AnswerKeeps ==
  ASSUME PresentInv, NEW c \in Connections, NEW status \in Statuses, Answer(c, status),
         status # 416, conn[c].content => conn[c].status # 416, status = 200 => ~conn[c].content,
         ~conn[c].ended, conn[c].len = 0, HandlesOK', UNCHANGED windowVars, UNCHANGED authVars,
         \A d \in Connections \ {c} : HandleSound(d)'
  PROVE  PresentInv'
<1>1. /\ conn[c] \in Thread /\ ThreadSound(conn[c]) /\ conn \in [Connections -> Thread]
  BY InvThread DEF PresentInv, PresentTypeOK, Thread
<1>2. conn' \in [Connections -> Thread]
  BY <1>1, AnswerIsTyped
<1>3. /\ conn'[c].at = "answered" /\ conn'[c].status = status
      /\ conn'[c].win = conn[c].win /\ conn'[c].content = conn[c].content
      /\ conn'[c].len = conn[c].len /\ conn'[c].ended = conn[c].ended
      /\ conn'[c].header = conn[c].header /\ conn'[c].first = conn[c].first
      /\ conn'[c].last = conn[c].last /\ conn'[c].from = conn[c].from
  BY <1>1 DEF Answer, Thread
<1>4. \A d \in Connections \ {c} : conn'[d] = conn[d]
  BY <1>1 DEF Answer
<1>5. ThreadSound(conn[c])'
  BY <1>1, <1>3 DEF ThreadSound
<1>6. Refused(conn[c])' /\ HandleSound(c)'
  BY <1>3 DEF Refused, HandleSound
<1> QED BY <1>2, <1>4, <1>5, <1>6, ThreadStepKeeps

\* An answer 200 to a content request without a header that has all of the file.
LEMMA WholeFile ==
  ASSUME NEW h \in Header, NEW s, s.first \in Nat, s.last \in Nat, ~Partial(h, s, Bytes),
         IsBeginning(s, Wanted(h, Bytes))
  PROVE  s.first = 0 /\ s.last = Bytes - 1
<1>1. h.kind = "none" /\ s.last + 1 >= Bytes /\ Bytes \in Nat \ {0}
  BY PresentAssumption DEF Partial
<1>2. Wanted(h, Bytes) = 0..(Bytes - 1)
  BY <1>1 DEF Wanted
<1>3. 0 \in Wanted(h, Bytes)
  BY <1>1, <1>2
<1> QED BY <1>1, <1>2, <1>3 DEF IsBeginning

ContentStatuses == {200, 206, 416}

\* A thread that has read the headers of a content request.
Served(t, at, h, status, s) ==
  [at |-> at, win |-> t.win, head |-> t.head, content |-> TRUE, header |-> h, status |-> status,
   first |-> s.first, last |-> s.last, from |-> 0, len |-> 0, ended |-> t.ended]

LEMMA ServedIsSound ==
  ASSUME NEW t \in Thread, t.win \in MediaWindows, ~t.ended, NEW h \in Header,
         NEW at \in {"answered", "reading"}, NEW status \in ContentStatuses,
         NEW s, s.first \in Nat, s.last \in Nat,
         s.ok => IsBeginning(s, Wanted(h, Bytes)), ~s.ok => Wanted(h, Bytes) = {},
         status = 416 <=> ~s.ok, status = 200 => ~Partial(h, s, Bytes), at = "reading" => s.ok
  PROVE  LET k == Served(t, at, h, status, s)
         IN  k \in Thread /\ k.at # "seeked" /\ ThreadSound(k) /\ Refused(k)
<1> DEFINE k == Served(t, at, h, status, s)
<1>1. k \in Thread
  BY DEF Served, Thread, Statuses, ContentStatuses
<1>2. /\ k.at = at /\ k.win = t.win /\ k.content = TRUE /\ k.header = h /\ k.status = status
      /\ k.first = s.first /\ k.last = s.last /\ k.len = 0 /\ k.ended = t.ended
  BY DEF Served
<1> HIDE DEF k
<1>3. status = 200 => s.first = 0 /\ s.last = Bytes - 1
  BY WholeFile
<1>4. s.ok => IsBeginning([first |-> k.first, last |-> k.last], Wanted(h, Bytes))
  BY <1>2 DEF IsBeginning
<1>5. ThreadSound(k) /\ Refused(k) /\ k.at # "seeked"
  BY <1>2, <1>3, <1>4 DEF ThreadSound, Refused, ContentStatuses
<1> QED BY <1>1, <1>5 DEF k

LEMMA ReadHeadersKeeps ==
  ASSUME PresentInv, NEW c \in Connections, ReadHeaders(c) PROVE PresentInv'
<1>1. conn[c] \in Thread /\ ThreadSound(conn[c])
  BY InvThread
<1>2. /\ conn[c].at = "headers"
      /\ UNCHANGED windowVars /\ UNCHANGED authVars /\ UNCHANGED <<holder, cursor, size>>
  BY DEF ReadHeaders
<1>3. conn[c].win \in MediaWindows /\ ~conn[c].ended /\ conn[c].len = 0 /\ ~conn[c].content
  BY <1>1, <1>2 DEF ThreadSound
<1>4. CASE Answer(c, 200)
  <2>1. HandlesOK'
    BY <1>2 DEF HandlesOK, PresentInv, PresentTypeOK
  <2>2. \A d \in Connections \ {c} : HandleSound(d)'
    BY <1>2, <1>4 DEF Answer, PresentInv, PresentTypeOK, ServerInv, HandleSound
  <2>3. 200 \in Statuses /\ 200 # 416
    BY DEF Statuses
  <2> QED BY <1>2, <1>3, <1>4, <2>1, <2>2, <2>3, AnswerKeeps
<1>5. ASSUME NEW h \in Headers, NEW at \in {"answered", "reading"}, NEW status \in ContentStatuses,
             LET s == Select(h, conn[c].win \in Images, Bytes)
             IN  /\ status = 416 <=> ~s.ok
                 /\ status = 200 => ~Partial(h, s, Bytes)
                 /\ at = "reading" => s.ok
                 /\ conn' = [conn EXCEPT ![c] = Served(conn[c], at, h, status, s)]
      PROVE  PresentInv'
  <2> DEFINE image == conn[c].win \in Images
             s == Select(h, image, Bytes)
             k == Served(conn[c], at, h, status, s)
  <2>1. h \in Header /\ image \in BOOLEAN /\ Bytes \in Nat \ {0} /\ Bytes <= MaxU64
    BY PresentAssumption
  <2>2. /\ status = 416 <=> ~s.ok
        /\ status = 200 => ~Partial(h, s, Bytes)
        /\ at = "reading" => s.ok
        /\ conn' = [conn EXCEPT ![c] = k]
    BY <1>5
  <2> HIDE DEF image
  <2>3. RangeIsSound(h, image, Bytes) /\ s.first \in Nat /\ s.last \in Nat
    BY <2>1, SelectionIsSound
  <2>4. /\ s.ok => IsBeginning(s, Wanted(h, Bytes))
        /\ ~s.ok => Wanted(h, Bytes) = {}
    BY <2>3 DEF RangeIsSound
  <2> HIDE DEF s
  <2>5. k \in Thread /\ k.at # "seeked" /\ ThreadSound(k) /\ Refused(k)
    BY <1>1, <1>3, <2>1, <2>2, <2>3, <2>4, ServedIsSound
  <2> HIDE DEF k
  <2>6. UNCHANGED windowVars /\ UNCHANGED authVars /\ UNCHANGED <<holder, cursor, size>>
    BY <1>2
  <2>7. conn' = [conn EXCEPT ![c] = k]
    BY <2>2
  <2> QED BY <2>5, <2>6, <2>7, QuietStepKeeps
<1>6. Answer(c, 200) \/ \E h \in Headers, at \in {"answered", "reading"}, status \in ContentStatuses :
        LET s == Select(h, conn[c].win \in Images, Bytes)
        IN  /\ status = 416 <=> ~s.ok
            /\ status = 200 => ~Partial(h, s, Bytes)
            /\ at = "reading" => s.ok
            /\ conn' = [conn EXCEPT ![c] = Served(conn[c], at, h, status, s)]
  BY SMTT(60) DEF ReadHeaders, Served, ContentStatuses
<1> QED BY <1>4, <1>5, <1>6

\* The thread that takes the handle of a file is the only one that has it.
LEMMA SeekKeeps == ASSUME PresentInv, NEW c \in Connections, Seek(c) PROVE PresentInv'
<1>1. /\ conn \in [Connections -> Thread] /\ conn[c] \in Thread /\ ThreadSound(conn[c])
      /\ holder \in [MediaWindows -> Connections \cup {Nobody}]
      /\ cursor \in [MediaWindows -> Nat] /\ size \in [MediaWindows -> 0..Bytes]
  BY InvThread DEF PresentInv, PresentTypeOK, Thread
<1>2. /\ conn[c].at = "reading" /\ holder[conn[c].win] = Nobody
      /\ holder' = [holder EXCEPT ![conn[c].win] = c]
      /\ cursor' = [cursor EXCEPT ![conn[c].win] = conn[c].first]
      /\ conn' = [conn EXCEPT ![c].at = "seeked"]
      /\ size' = size
  BY DEF Seek
<1>3. UNCHANGED windowVars /\ UNCHANGED authVars
  BY DEF Seek
<1>4. conn[c].win \in MediaWindows /\ ~conn[c].ended /\ conn[c].len = 0 /\ conn[c].first \in Nat
  BY <1>1, <1>2 DEF ThreadSound, Thread
<1>5. conn' \in [Connections -> Thread]
  BY <1>1, <1>2 DEF Thread
<1>6. /\ conn'[c].at = "seeked" /\ conn'[c].status = conn[c].status
      /\ conn'[c].win = conn[c].win /\ conn'[c].content = conn[c].content
      /\ conn'[c].len = conn[c].len /\ conn'[c].ended = conn[c].ended
      /\ conn'[c].header = conn[c].header /\ conn'[c].first = conn[c].first
      /\ conn'[c].last = conn[c].last /\ conn'[c].from = conn[c].from
  BY <1>1, <1>2 DEF Thread
<1>7. HandlesOK'
  BY <1>1, <1>2, <1>4 DEF HandlesOK
<1>8. ASSUME NEW d \in Connections \ {c} PROVE conn'[d] = conn[d] /\ HandleSound(d)'
  <2>1. conn'[d] = conn[d] /\ HandleSound(d) /\ ThreadSound(conn[d]) /\ d # Nobody
    BY <1>1, <1>2, InvThread, PresentAssumption
  <2>2. CASE conn[d].at = "seeked"
    <3>1. conn[d].win \in MediaWindows /\ conn[d].win # conn[c].win
      BY <1>2, <2>1, <2>2 DEF HandleSound, ThreadSound
    <3> QED BY <1>1, <1>2, <2>1, <2>2, <3>1 DEF HandleSound
  <2> QED BY <2>1, <2>2 DEF HandleSound
<1>9. ThreadSound(conn[c])' /\ Refused(conn[c])'
  BY <1>1, <1>2, <1>4, <1>6 DEF ThreadSound, Refused
<1>10. HandleSound(c)'
  BY <1>1, <1>2, <1>4, <1>6 DEF HandleSound
<1> QED BY <1>3, <1>5, <1>7, <1>8, <1>9, <1>10, ThreadStepKeeps

\* What it reads is there if the file is still as long: the handle has not moved since its seek.
LEMMA ReadKeeps == ASSUME PresentInv, NEW c \in Connections, Read(c) PROVE PresentInv'
<1> DEFINE w == conn[c].win
           len == conn[c].last - conn[c].first + 1
<1>1. /\ conn \in [Connections -> Thread] /\ conn[c] \in Thread /\ ThreadSound(conn[c])
      /\ holder \in [MediaWindows -> Connections \cup {Nobody}]
      /\ cursor \in [MediaWindows -> Nat] /\ size \in [MediaWindows -> 0..Bytes]
  BY InvThread DEF PresentInv, PresentTypeOK, Thread
<1>2. /\ conn[c].at = "seeked"
      /\ holder' = [holder EXCEPT ![w] = Nobody]
      /\ size' = size
  BY DEF Read
<1>3. UNCHANGED windowVars /\ UNCHANGED authVars
  BY DEF Read
<1>4. /\ w \in MediaWindows /\ ~conn[c].ended /\ conn[c].len = 0 /\ conn[c].content
      /\ conn[c].status \in {200, 206} /\ holder[w] = c /\ cursor[w] = conn[c].first
  BY <1>1, <1>2, InvThread DEF ThreadSound, HandleSound
<1>5. len \in Nat
  BY <1>1, <1>4 DEF ThreadSound, IsBeginning, Thread
<1> HIDE DEF w, len
<1>6. ASSUME NEW d \in Connections \ {c}, conn[d].at = "seeked" PROVE conn[d].win \in MediaWindows \ {w}
  <2>1. conn[d].win \in MediaWindows /\ holder[conn[d].win] = d
    BY <1>6, InvThread DEF HandleSound, ThreadSound
  <2> QED BY <1>4, <2>1
<1>7. CASE /\ conn' = [conn EXCEPT ![c].at = "answered", ![c].from = cursor[w], ![c].len = len]
           /\ cursor' = [cursor EXCEPT ![w] = @ + len]
  <2>1. conn' \in [Connections -> Thread]
    <3>1. [conn[c] EXCEPT !.at = "answered", !.from = cursor[w], !.len = len] \in Thread
      BY <1>1, <1>4, <1>5, ThreadAt, ThreadLen
    <3>2. conn' = [conn EXCEPT ![c] = [conn[c] EXCEPT !.at = "answered", !.from = cursor[w], !.len = len]]
      BY <1>7
    <3> QED BY <1>1, <3>1, <3>2
  <2>2. /\ conn'[c].at = "answered" /\ conn'[c].status = conn[c].status
        /\ conn'[c].win = conn[c].win /\ conn'[c].content = conn[c].content
        /\ conn'[c].len = len /\ conn'[c].ended = conn[c].ended
        /\ conn'[c].header = conn[c].header /\ conn'[c].first = conn[c].first
        /\ conn'[c].last = conn[c].last /\ conn'[c].from = cursor[w]
    BY <1>1, <1>7 DEF Thread
  <2>3. HandlesOK'
    BY <1>1, <1>2, <1>4, <1>5, <1>7 DEF HandlesOK
  <2>4. \A d \in Connections \ {c} : conn'[d] = conn[d] /\ HandleSound(d)'
    BY <1>1, <1>2, <1>6, <1>7, InvThread DEF HandleSound
  <2>5. ThreadSound(conn[c])'
    BY <1>1, <1>2, <1>4, <2>2 DEF ThreadSound, len
  <2>6. Refused(conn[c])' /\ HandleSound(c)'
    BY <1>4, <2>2 DEF Refused, HandleSound
  <2> QED BY <1>3, <2>1, <2>3, <2>4, <2>5, <2>6, ThreadStepKeeps
<1>8. CASE /\ Answer(c, 500)
           /\ cursor' = [cursor EXCEPT ![w] = IF @ > size[w] THEN @ ELSE size[w]]
  <2>1. HandlesOK'
    BY <1>1, <1>2, <1>4, <1>8 DEF HandlesOK
  <2>2. \A d \in Connections \ {c} : HandleSound(d)'
    BY <1>1, <1>2, <1>6, <1>8, InvThread DEF HandleSound, Answer
  <2>3. 500 \in Statuses /\ 500 # 416 /\ 500 # 200 /\ conn[c].status # 416
    BY <1>4 DEF Statuses
  <2> QED BY <1>3, <1>4, <1>8, <2>1, <2>2, <2>3, AnswerKeeps
<1> QED BY <1>7, <1>8 DEF Read, w, len

LEMMA DisconnectKeeps == ASSUME PresentInv, NEW c \in Connections, Disconnect(c) PROVE PresentInv'
<1>1. /\ conn' = [conn EXCEPT ![c] = IdleThread]
      /\ UNCHANGED windowVars /\ UNCHANGED authVars /\ UNCHANGED <<holder, cursor, size>>
  BY DEF Disconnect
<1>2. IdleThread.at # "seeked"
  BY DEF IdleThread, Asking
<1> QED BY <1>1, <1>2, IdleIsSound, QuietStepKeeps

LEMMA TruncateKeeps == ASSUME PresentInv, NEW w \in MediaWindows, Truncate(w) PROVE PresentInv'
<1>1. UNCHANGED windowVars /\ UNCHANGED authVars /\ UNCHANGED <<conn, holder, cursor>>
  BY DEF Truncate
<1>2. size' \in [MediaWindows -> 0..Bytes]
  BY PresentAssumption DEF Truncate, PresentInv, PresentTypeOK
<1>3. PresentTypeOK'
  BY <1>1, <1>2 DEF PresentInv, PresentTypeOK, windowVars, authVars
<1> QED BY <1>1, <1>3 DEF PresentInv, WindowInv, WindowSound, LockSound, EndedIsNotServed, ServerInv,
                          HandleSound, windowVars, authVars

-----------------------------------------------------------------------------
(* The properties *)

LEMMA PresentInitInv == PresentInit => PresentInv
<1> SUFFICES ASSUME PresentInit PROVE PresentInv
  OBVIOUS
<1>1. conn = [c \in Connections |-> IdleThread]
  BY DEF PresentInit
<1>2. PresentTypeOK
  BY <1>1, IdleIsSound, PresentAssumption DEF PresentInit, PresentTypeOK, Thread
<1>3. WindowInv
  BY DEF PresentInit, WindowInv, WindowSound, LockSound, Unbuilt, Hidden, Displayed, Recorded, Underway
<1>4. EndedIsNotServed /\ ServerInv
  BY <1>1, IdleIsSound DEF EndedIsNotServed, ServerInv, HandleSound, IdleThread, Asking
<1> QED BY <1>2, <1>3, <1>4 DEF PresentInv

LEMMA PresentNextInv == PresentInv /\ [PresentNext]_presentVars => PresentInv'
<1> SUFFICES ASSUME PresentInv, [PresentNext]_presentVars PROVE PresentInv'
  OBVIOUS
<1>1. ASSUME NEW w \in Presented,
             \/ Authorize(w) \/ Prepare(w) \/ Build(w) \/ InsertRecord(w) \/ ShowWindow(w)
             \/ QueryPlacement(w) \/ Watch(w) \/ Place(w) \/ TakeObservation(w) \/ TrackOpen(w)
      PROVE  PresentInv'
  BY <1>1, AuthorizeKeeps, PrepareKeeps, BuildKeeps, InsertRecordKeeps, ShowWindowKeeps,
     QueryPlacementKeeps, WatchKeeps, PlaceKeeps, TakeObservationKeeps, TrackOpenKeeps
<1>2. ASSUME NEW w \in Presented,
             CloseBegin(w) \/ CloseFinish(w) \/ UserEnds(w) \/ DestroyedEvent(w)
      PROVE  PresentInv'
  BY <1>2, CloseBeginKeeps, CloseFinishKeeps, UserEndsKeeps, DestroyedEventKeeps
<1>3. ASSUME NEW c \in Connections, Ask(c) \/ ReadHeaders(c) \/ Seek(c) \/ Read(c) \/ Disconnect(c)
      PROVE  PresentInv'
  BY <1>3, AskKeeps, ReadHeadersKeeps, SeekKeeps, ReadKeeps, DisconnectKeeps
<1>4. CASE UNCHANGED presentVars
  BY <1>4 DEF presentVars, PresentInv, PresentTypeOK, WindowInv, WindowSound, LockSound,
              EndedIsNotServed, ServerInv, HandleSound
<1> QED BY <1>1, <1>2, <1>3, <1>4, TruncateKeeps DEF PresentNext

LEMMA PresentInvariant == PresentSpec => []PresentInv
BY PresentInitInv, PresentNextInv, PTL DEF PresentSpec

(* The types of every part: an opening, a native window, a request and a file's handle are always     *)
(* one that the code can have.                                                                     *)
THEOREM PresentTypesHold == PresentSpec => []PresentTypeOK
<1>1. PresentInv => PresentTypeOK
  BY DEF PresentInv
<1> QED BY <1>1, PresentInvariant, PTL

(* Whichever step of an open fails, and however a window ends, no authorization, no record and no  *)
(* watcher outlives it, with the two exceptions NothingIsLeft names.                               *)
THEOREM NothingIsEverLeft == PresentSpec => []NothingIsLeft
<1>1. PresentInv => NothingIsLeft
  BY DEF PresentInv, PresentTypeOK, WindowInv, WindowSound, NothingIsLeft, AuthorizationEnds,
         Presented, Existing
<1> QED BY <1>1, PresentInvariant, PTL

(* A request that comes after the window's end is refused, whatever other threads do meanwhile.    *)
THEOREM EndedIsNeverServed == PresentSpec => []EndedIsNotServed
<1>1. PresentInv => EndedIsNotServed
  BY DEF PresentInv
<1> QED BY <1>1, PresentInvariant, PTL

(* Every answer with bytes has the bytes it names, in full, and they are the beginning of what was  *)
(* asked for: for any number of threads that share the handle, and for every header and file.       *)
THEOREM BodiesAreTheirRanges == PresentSpec => []BodyIsItsRange
<1>1. ASSUME PresentInv PROVE AnswerIsSound
  BY <1>1 DEF PresentInv, ServerInv, ThreadSound, AnswerIsSound
<1>2. ASSUME PresentInv, NEW c \in Connections, conn[c].len > 0
      PROVE  /\ conn[c].from = conn[c].first /\ conn[c].len = conn[c].last - conn[c].first + 1
             /\ conn[c].len <= MaxResponse
             /\ conn[c].status = 200 => conn[c].first = 0 /\ conn[c].len = Bytes
  <2>1. conn[c] \in Thread /\ ThreadSound(conn[c])
    BY <1>2, InvThread
  <2>2. IsBeginning([first |-> conn[c].first, last |-> conn[c].last], Wanted(conn[c].header, Bytes))
    BY <1>2, <2>1 DEF ThreadSound
  <2>3. conn[c].last < conn[c].first + MaxResponse /\ conn[c].first \in Nat /\ conn[c].last \in Nat
    BY <2>1, <2>2 DEF IsBeginning, Thread
  <2> QED BY <1>2, <2>1, <2>3, PresentAssumption, RangeAssumption DEF ThreadSound
<1>3. PresentInv => BodyIsItsRange
  BY <1>1, <1>2 DEF BodyIsItsRange
<1> QED BY <1>3, PresentInvariant, PTL
=============================================================================
