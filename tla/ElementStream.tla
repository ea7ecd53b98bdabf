--------------------------- MODULE ElementStream ---------------------------
(***************************************************************************)
(* What the supervisor is promised by the parser, the transport's queue of  *)
(* descriptors and the delivery of BLOBs together: the elements of the      *)
(* stream one by one, in order, each whole or not at all, and with the      *)
(* payloads of its BLOBs.  Incoming is shown to implement it.               *)
(*                                                                          *)
(* An element is read by the nesting of its tags, with no parser state.     *)
(***************************************************************************)
EXTENDS Wire, SequencesExt

CONSTANTS
  Menus,       \* the items a driver sends (items), and at most how many (max)
  MaxItems,    \* bound: items sent
  MaxMembers,  \* members in a vector
  MaxMsg,      \* descriptors in one message
  MaxQueue     \* descriptors received and not claimed

VARIABLES
  menu,     \* the driver, never changes
  want,     \* somebody takes BLOBs
  writing,  \* the driver can write: neither side has ended the stream
  count,    \* items sent
  pending,  \* items sent and not consumed: n, toks and the descriptors fds
  queue,    \* descriptors sent and not claimed, in order
  out,      \* the last element handed on: n and the payloads given out
  status    \* "open", "ended", "closed"

vars == <<menu, want, writing, count, pending, queue, out, status>>

None == <<0, 0>>
Inline(n) == <<n, 0>>    \* the payload that came in the stream itself

(***************************************************************************)
(* Reading an element.                                                      *)
(***************************************************************************)
\* The close tag of the start tag i: the first that brings the depth back.
Closes(s, i) == CHOOSE j \in (i + 1)..Len(s) :
                  /\ s[j].t = "close" /\ Depth(s, j) = Depth(s, i) + 1
                  /\ \A k \in (i + 1)..(j - 1) : Depth(s, k) > Depth(s, i)
\* One element, text or instruction, whole.
Whole(s) == /\ Depth(s, Len(s) + 1) = 0
            /\ \A i \in 2..Len(s) : Depth(s, i) > 0

Inside(s, i) == IF s[i].t = "open" THEN (i + 1)..(Closes(s, i) - 1) ELSE {}
\* Content that is text and closed by its own tag.
PlainText(s, i) == /\ \A j \in Inside(s, i) : s[j].t = "text" /\ s[j].ok
                   /\ s[i].t = "open" => s[Closes(s, i)].n = s[i].n

Fine(s) ==
  /\ Whole(s) /\ s[1].t # "close"
  /\ s[1].t = "open" =>
       IF s[1].n \in Vectors
       THEN /\ s[Len(s)].n = s[1].n
            /\ \A i \in 2..Len(s) : s[i].t # "pi" /\ (Depth(s, i) = 1 => s[i].t # "text")
            /\ Cardinality(Members(s)) <= MaxMembers
            /\ \A i \in Members(s) : PlainText(s, i)
       ELSE IF s[1].n = "enableBLOB" THEN PlainText(s, 1)
       ELSE \A i \in 1..Len(s) : s[i].t # "pi"

\* It is handed on, and not only passed over.
Element(s) == s[1].t \in {"open", "empty"} /\ s[1].n \in Known

\* Its members in order, where BLOBs are delivered.
Blobs(s) == IF s[1].n \in Delivered THEN SetToSortSeq(Members(s), <) ELSE << >>

\* The payloads of element e when the descriptors ds were claimed for it.
Payloads(e, ds) ==
  LET s == e.toks
      b == Blobs(s)
      Rank(j) == Cardinality({k \in 1..j : s[b[k]].att})
  IN [j \in DOMAIN b |->
        IF s[b[j]].att THEN (IF Rank(j) <= Len(ds) THEN ds[Rank(j)] ELSE None)
        ELSE IF Inside(s, b[j]) # {} THEN Inline(e.n) ELSE None]

(***************************************************************************)
(* The specification.                                                       *)
(***************************************************************************)
Init ==
  /\ menu \in DOMAIN Menus /\ want \in BOOLEAN /\ writing = TRUE
  /\ count = 0 /\ pending = << >> /\ queue = << >>
  /\ out = [n |-> 0, got |-> << >>] /\ status = "open"

Sends(e) ==
  /\ pending' = Append(pending, e)
  /\ queue' = IF status = "open" THEN queue \o e.fds ELSE queue

\* An item is sent with its descriptors, or the stream ends in the middle of it.
Send ==
  /\ writing /\ count < Menus[menu].max /\ count' = count + 1
  /\ \E i \in Menus[menu].items : \E k \in 1..Len(i), m \in 0..Attachments(i) :
       /\ Sends([n |-> count', toks |-> SubSeq(i, 1, k), fds |-> [j \in 1..m |-> <<count', j>>]])
       /\ writing' = (k = Len(i))
  /\ UNCHANGED <<menu, want, out, status>>

StreamEnds ==
  /\ writing /\ writing' = FALSE
  /\ UNCHANGED <<menu, want, count, pending, queue, out, status>>

\* The next item is consumed.  It claims as many descriptors as it has attached
\* BLOBs, if they are there: those of later items may be there already.
Consume ==
  /\ status = "open" /\ pending # << >> /\ Fine(Head(pending).toks)
  /\ pending' = Tail(pending)
  /\ LET e    == Head(pending)
         k    == Claims(e.toks)
         mine == Len(SelectSeq(queue, LAMBDA d : d[1] <= e.n))
     IN IF ~Element(e.toks) THEN UNCHANGED <<queue, out>>
        ELSE \E c \in 0..k, bad \in SUBSET (1..k) :
               /\ c <= Len(queue) /\ (c = k \/ c >= mine)
               /\ queue' = SubSeq(queue, c + 1, Len(queue))
               /\ LET ds == [j \in 1..c |-> IF j \in bad THEN None ELSE queue[j]]
                  IN out' = [n |-> e.n, got |-> IF want THEN SelectSeq(Payloads(e, ds),
                                                                      LAMBDA d : d # None)
                                                ELSE << >>]
  /\ UNCHANGED <<menu, want, writing, count, status>>

\* The stream ends for a reason: it is over, the next item cannot be read, or
\* there are too many descriptors.
End ==
  /\ status = "open" /\ status' = "ended"
  /\ \/ ~writing /\ pending = << >>
     \/ pending # << >> /\ ~Fine(Head(pending).toks)
     \/ Len(queue) > MaxQueue
     \/ \E j \in DOMAIN pending : Len(pending[j].fds) > MaxMsg
  /\ queue' = << >>
  /\ UNCHANGED <<menu, want, writing, count, pending, out>>

Close == status = "ended" /\ status' = "closed"
         /\ UNCHANGED <<menu, want, writing, count, pending, queue, out>>

Next == Send \/ StreamEnds \/ Consume \/ End \/ Close

\* What is sent is consumed while the stream is open; a stream that is over is closed.
Progress ==
  /\ \A n \in 1..MaxItems :
       (count >= n) ~> (status # "open" \/ \A j \in DOMAIN pending : pending[j].n > n)
  /\ ~writing ~> (status = "closed")

Spec == Init /\ [][Next]_vars /\ Progress
=============================================================================
