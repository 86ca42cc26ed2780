----------------------------- MODULE ByteRange -----------------------------
(***************************************************************************)
(* Which bytes of an admitted file a content request is given (media.rs).  *)
(* A Range header is [kind, start, end]: "from" is bytes=start-,           *)
(* "between" bytes=start-end, "suffix" bytes=-end, "none" no header, and   *)
(* "malformed" any other text: another unit, a list, no dash, a number     *)
(* that does not fit 64 bits.                                              *)
(***************************************************************************)
EXTENDS Integers

CONSTANTS
  MaxResponse,  \* MAX_MEDIA_RESPONSE_BYTES
  MaxU64        \* the largest 64-bit number

ASSUME RangeAssumption ==
  /\ MaxResponse \in Nat \ {0}
  /\ MaxU64 \in Nat

Header == [kind : {"none", "malformed", "from", "between", "suffix"}, start : Nat, end : Nat]
NoHeader == [kind |-> "none", start |-> 0, end |-> 0]

Selection == [ok : BOOLEAN, first : Int, last : Int]
Chosen(first, last) == [ok |-> TRUE, first |-> first, last |-> last]
Unsatisfiable == [ok |-> FALSE, first |-> 0, last |-> 0]

Least(a, b) == IF a <= b THEN a ELSE b

\* Fault: nothing bounds a suffix by the file (parse_range's `end.min(total)`).
SuffixBeforeTheFile(n, total) == total - n
SuffixStart(n, total) == total - Least(n, total)

\* The explicit ranges; the number is one that the code has already parsed.
ParseRange(h, total) ==
  CASE h.kind = "malformed" \/ total = 0 -> Unsatisfiable
    [] h.kind = "suffix" /\ total # 0 ->
         IF h.end = 0 THEN Unsatisfiable ELSE Chosen(SuffixStart(h.end, total), total - 1)
    [] h.kind \in {"from", "between"} /\ total # 0 ->
         LET end == IF h.kind = "from" THEN total - 1 ELSE Least(h.end, total - 1)
         IN  IF h.start >= total \/ end < h.start THEN Unsatisfiable ELSE Chosen(h.start, end)

SaturatingAdd(a, b) == Least(a + b, MaxU64)

CapRange(first, last) == Chosen(first, Least(last, SaturatingAdd(first, MaxResponse - 1)))

\* Without a header an image is selected whole, anything else up to the cap.
Unasked(image, total) ==
  Chosen(0, IF image THEN total - 1 ELSE Least(total - 1, MaxResponse - 1))

Select(h, image, total) ==
  LET s == IF h.kind = "none" THEN Unasked(image, total) ELSE ParseRange(h, total)
  IN  IF s.ok THEN CapRange(s.first, s.last) ELSE s

Partial(h, s, total) == h.kind # "none" \/ s.last + 1 < total

-----------------------------------------------------------------------------
(* What a request asks for, independently of how the code finds it *)

Wanted(h, total) ==
  {p \in 0..(total - 1) :
     CASE h.kind = "none" -> TRUE
       [] h.kind = "malformed" -> FALSE
       [] h.kind = "from" -> p >= h.start
       [] h.kind = "between" -> p >= h.start /\ p <= h.end
       [] h.kind = "suffix" -> p >= total - h.end}

\* The response is the longest beginning of what was asked for that fits the cap.
IsBeginning(s, wanted) ==
  /\ s.first \in wanted
  /\ \A p \in wanted : s.first <= p
  /\ \A p \in wanted : p <= s.last <=> p < s.first + MaxResponse
  /\ s.last \in wanted

\* A request is satisfied exactly if it asks for a byte of the file (parse_range,
\* cap_range and the default selection of serve_content), with no step out of 64 bits.
RangeIsSound(h, image, total) ==
  LET s == Select(h, image, total)
  IN  /\ s.ok <=> Wanted(h, total) # {}
      /\ s.ok => IsBeginning(s, Wanted(h, total)) /\ s.last + 1 <= MaxU64
=============================================================================
