------------------------------ MODULE Incoming ------------------------------
(***************************************************************************)
(* The way in of a driver's stream: the socket reader and its queue of      *)
(* received descriptors (transport/exec.go, transport/conn.go), the parser  *)
(* that works on whatever a read returned (indiwire/parser.go, blob.go) and *)
(* the delivery of BLOBs by the supervisor (supervisor/run.go).             *)
(*                                                                          *)
(* Bytes and descriptors take two ways: a read returns a piece of the       *)
(* stream cut anywhere and queues the descriptors that came with it, while  *)
(* a BLOB claims one only when its whole vector has been parsed.  Nothing   *)
(* but the order says which descriptor belongs to which BLOB.  The parser   *)
(* keeps its place in a mode and a depth, not in a stack of tags.           *)
(*                                                                          *)
(* All of it is one goroutine, so a call is one step.  The driver writes an *)
(* item with its descriptors in one message, or dies in the middle of it.   *)
(* The end of the stream is the driver's death or Conn.Shutdown: what was   *)
(* written before can still be read.                                        *)
(***************************************************************************)
EXTENDS Wire, SequencesExt

CONSTANTS
  Menus,       \* for each driver the items (sequences of tokens) it sends, at most max
  MaxItems,    \* bound: the largest max
  MaxMembers,  \* maxMembers
  MaxMsg,      \* maxFdsPerMessage
  MaxQueue     \* maxFdsPerMessage * 4

\* An item is one element, text or instruction, or a stray close tag: its tags
\* balance at its end and not before.
ASSUME IncomingAssumption ==
  /\ {MaxItems, MaxMembers, MaxMsg, MaxQueue} \subseteq Nat \ {0} /\ MaxMsg <= MaxQueue
  /\ \A d \in DOMAIN Menus : Menus[d].max \in 1..MaxItems /\ \A s \in Menus[d].items :
       /\ s \in Seq(Tokens) /\ s # << >> /\ Depth(s, Len(s) + 1) <= 0
       /\ \A i \in 2..Len(s) : Depth(s, i) > 0

VARIABLES
  menu,     \* the driver of this behaviour, never changes
  want,     \* cfg.OnBlob or a SetOnBlob observer; never changes
  writing,  \* the driver can write
  sent,     \* the items written so far, each with its tokens and descriptors
  wire,     \* the socket: its tokens, as places <<item, index>> in sent
  rbuf,     \* Parser.buf: tokens read and not parsed
  p,        \* the parser: its function (mode), the element, and what comes after it
  fds,      \* Conn.fds
  held,     \* descriptors open in this process
  mapped,   \* descriptors that are mapped
  done,     \* history: items consumed
  out       \* history: the element handed to the observers last, with its payloads

readerVars == <<rbuf, p, fds, held, mapped, done, out>>
vars == <<menu, want, writing, wire, readerVars, sent>>

\* The token at a place, and the descriptors it carries: an item's come with its first.
Token(x)   == sent[x[1]].toks[x[2]]
Carried(x) == IF x[2] = 1 THEN sent[x[1]].fds ELSE << >>
NoEl    == [n |-> 0, got |-> << >>]
\* tag: the top-level element; mem: its members; claimed: descriptors taken for them.
Start   == [mode |-> "top", tag |-> "-", mem |-> << >>, depth |-> 0, then |-> "top",
            claimed |-> << >>, got |-> << >>]

Init ==
  /\ menu \in DOMAIN Menus /\ want \in BOOLEAN /\ writing = TRUE
  /\ wire = << >> /\ rbuf = << >> /\ p = Start
  /\ fds = << >> /\ held = {} /\ mapped = {}
  /\ sent = << >> /\ done = 0 /\ out = NoEl

(***************************************************************************)
(* The driver.                                                              *)
(***************************************************************************)
\* The first k tokens of item i, with m descriptors.
Write(i, k, m) ==
  LET ds == [j \in 1..m |-> <<Len(sent) + 1, j>>]
  IN /\ wire' = wire \o [j \in 1..k |-> <<Len(sent) + 1, j>>]
     /\ sent' = Append(sent, [n |-> Len(sent) + 1, toks |-> SubSeq(i, 1, k), fds |-> ds])

\* One descriptor for each attached BLOB; a driver may fail to open its last one.
Send ==
  /\ writing /\ Len(sent) < Menus[menu].max
  /\ \E i \in Menus[menu].items : LET a == Attachments(i) IN
       \/ \E m \in {a, a - 1} \cap Nat : Write(i, Len(i), m) /\ UNCHANGED writing
       \/ \E k \in 1..(Len(i) - 1) : Write(i, k, a) /\ writing' = FALSE
  /\ UNCHANGED <<menu, want, readerVars>>

StreamEnds ==
  /\ writing /\ writing' = FALSE
  /\ UNCHANGED <<menu, want, wire, readerVars, sent>>

(***************************************************************************)
(* The transport.                                                           *)
(***************************************************************************)
Parsing == p.mode \in {"top", "members", "text", "blob", "skip"}
Fail    == [Start EXCEPT !.mode = "failed"]

\* Mutant of PutFds: the newest come first.
PutFdsFirst(q, ds) == ds \o q

PutFds(q, ds) == q \o ds

\* Mutant of Kept: the refused descriptors stay open.
KeptAll(ds) == ToSet(ds)

\* Too many in one message: all of them are closed.
Kept(ds) == IF Len(ds) > MaxMsg THEN {} ELSE ToSet(ds)

\* harvest: the descriptors ds of a read that returned the tokens s.
Harvest(s, ds) ==
  /\ held' = held \cup Kept(ds)
  /\ IF Len(ds) > MaxMsg THEN p' = Fail /\ UNCHANGED <<fds, rbuf>>
     ELSE /\ fds' = PutFds(fds, ds)
          /\ IF Len(fds') > MaxQueue THEN p' = Fail /\ UNCHANGED rbuf
             ELSE rbuf' = s /\ UNCHANGED p

\* The parser needs more: recvmsg returns a piece of the stream, and the
\* descriptors of at most one message with it.
Read ==
  /\ Parsing /\ rbuf = << >>
  /\ \E k \in 1..Len(wire) : \E m \in 1..k :
       /\ \A j \in (1..k) \ {m} : Carried(wire[j]) = << >>
       /\ wire' = SubSeq(wire, k + 1, Len(wire))
       /\ Harvest(SubSeq(wire, 1, k), Carried(wire[m]))
  /\ UNCHANGED <<menu, want, writing, sent, mapped, done, out>>

Eof ==
  /\ Parsing /\ rbuf = << >> /\ wire = << >> /\ ~writing
  /\ p' = Fail
  /\ UNCHANGED <<menu, want, writing, wire, sent, rbuf, fds, held, mapped, done, out>>

\* Conn.Close, in the teardown after the read loop has returned.
Close ==
  /\ p.mode = "failed" /\ p' = [p EXCEPT !.mode = "closed"]
  /\ held' = held \ ToSet(fds) /\ fds' = << >>
  /\ UNCHANGED <<menu, want, writing, wire, sent, rbuf, mapped, done, out>>

(***************************************************************************)
(* The parser: what its next state is, by the function it is in.            *)
(***************************************************************************)
Go(m)       == [p EXCEPT !.mode = m]
SkipTo(q, after) == [q EXCEPT !.mode = "skip", !.depth = 1, !.then = after]

\* next: diagnostics and instructions are passed over, tags are told apart.
NextTag(t) ==
  LET q == [Start EXCEPT !.tag = t.n] IN
  IF t.t = "close" THEN Fail
  ELSE IF t.t \in {"text", "pi"} THEN Start
  ELSE IF t.t = "empty" THEN (IF t.n \in Known THEN [q EXCEPT !.mode = "apply"] ELSE Start)
  ELSE IF t.n \in Vectors THEN [q EXCEPT !.mode = "members"]
  ELSE IF t.n = "enableBLOB" THEN [q EXCEPT !.mode = "text", !.then = "apply"]
  ELSE SkipTo(q, IF t.n \in Skipped THEN "apply" ELSE "top")

\* members: strays are skipped, members are added up to the limit.
MemberTag(t) ==
  IF t.t \in {"text", "pi"} THEN Fail
  ELSE IF t.t = "close" THEN (IF t.n = p.tag THEN Go("apply") ELSE Fail)
  ELSE IF t.n # Child[p.tag] THEN (IF t.t = "open" THEN SkipTo(p, "members") ELSE p)
  ELSE IF Len(p.mem) >= MaxMembers THEN Fail
  ELSE [p EXCEPT !.mem = Append(@, [att |-> t.att, data |-> FALSE]),
                 !.mode = IF t.t = "empty" THEN "members"
                          ELSE IF p.tag \in BlobVectors THEN "blob" ELSE "text",
                 !.then = "members"]

\* textUntilClose, of a member or of enableBLOB.
TextTag(t) ==
  LET own == IF p.tag = "enableBLOB" THEN p.tag ELSE Child[p.tag] IN
  IF t.t = "text" /\ t.ok THEN p
  ELSE IF t.t = "close" /\ t.n = own THEN Go(p.then) ELSE Fail

\* blobContent: kept when there is somebody to take it.
BlobTag(t) ==
  IF t.t = "text" /\ t.ok THEN [p EXCEPT !.mem[Len(p.mem)].data = want]
  ELSE IF t.t = "close" /\ t.n = Child[p.tag] THEN Go("members") ELSE Fail

\* Mutant of SkipTag: the first close tag ends the skip.
SkipFlat(t) ==
  IF t.t = "close" THEN [p EXCEPT !.mode = p.then, !.depth = 0]
  ELSE IF t.t = "pi" THEN Fail ELSE p

\* skipElement: every start tag goes down, every close tag up, whatever its name.
SkipTag(t) ==
  IF t.t = "close" THEN [p EXCEPT !.mode = IF p.depth = 1 THEN p.then ELSE "skip", !.depth = @ - 1]
  ELSE IF t.t = "open" THEN [p EXCEPT !.depth = @ + 1]
  ELSE IF t.t = "pi" THEN Fail ELSE p

\* One tag; an item that is not handed on ends with it.
Parse(mode, q) ==
  /\ p.mode = mode /\ rbuf # << >>
  /\ p' = IF q.mode = "top" THEN Start ELSE q
  /\ rbuf' = Tail(rbuf)
  /\ done' = IF q.mode = "top" THEN done + 1 ELSE done
  /\ UNCHANGED <<menu, want, writing, wire, sent, fds, held, mapped, out>>

(***************************************************************************)
(* apply: the BLOBs of an element, then the element itself.                 *)
(***************************************************************************)
Claiming == p.mode = "apply" /\ p.tag \in Delivered /\ p.mem # << >>

\* TakeFd and MmapFd: a descriptor is closed whether it is wanted, can be
\* mapped, or not.
Claim ==
  /\ Claiming /\ Head(p.mem).att /\ fds # << >>
  /\ fds' = Tail(fds) /\ held' = held \ {Head(fds)}
  /\ \E ok \in {want, FALSE} :
       /\ mapped' = IF ok THEN mapped \cup {Head(fds)} ELSE mapped
       /\ p' = [p EXCEPT !.mem = Tail(@), !.claimed = Append(@, Head(fds)),
                         !.got = IF ok THEN Append(@, Head(fds)) ELSE @]
  /\ UNCHANGED <<menu, want, writing, wire, sent, rbuf, done, out>>

\* A member without a descriptor: its data, or nothing.
Deliver ==
  /\ Claiming /\ ~(Head(p.mem).att /\ fds # << >>)
  /\ p' = [p EXCEPT !.mem = Tail(@),
                    !.got = IF Head(p.mem).data /\ ~Head(p.mem).att
                            THEN Append(@, <<done + 1, 0>>) ELSE @]
  /\ UNCHANGED <<menu, want, writing, wire, sent, rbuf, fds, held, mapped, done, out>>

\* The mappings go, the element is handed on, or the ping answered.
Apply ==
  /\ p.mode = "apply" /\ ~Claiming
  /\ mapped' = {} /\ p' = Start
  /\ done' = done + 1 /\ out' = [n |-> done + 1, got |-> p.got]
  /\ UNCHANGED <<menu, want, writing, wire, sent, rbuf, fds, held>>

(***************************************************************************)
(* The specification.                                                       *)
(***************************************************************************)
Reader ==
  \/ Read \/ Eof \/ Close \/ Claim \/ Deliver \/ Apply
  \/ rbuf # << >> /\ LET t == Token(Head(rbuf)) IN
       \/ Parse("top", NextTag(t)) \/ Parse("members", MemberTag(t)) \/ Parse("text", TextTag(t))
       \/ Parse("blob", BlobTag(t)) \/ Parse("skip", SkipTag(t))

Next == Send \/ StreamEnds \/ Reader

\* The read loop and the teardown wait for nothing but the stream.
Spec == Init /\ [][Next]_vars /\ WF_vars(Reader)

(***************************************************************************)
(* Properties.                                                              *)
(***************************************************************************)
Fds(s) == FoldLeft(LAMBDA a, x : a \o Carried(x), << >>, s)
Over == p.mode \in {"failed", "closed"}

Elements == INSTANCE ElementStream WITH
  count   <- Len(sent),
  pending <- SubSeq(sent, done + 1, Len(sent)),
  queue   <- IF Over THEN << >> ELSE p.claimed \o fds \o Fds(wire),
  status  <- IF p.mode = "failed" THEN "ended" ELSE IF p.mode = "closed" THEN "closed" ELSE "open"

\* However the reads cut the stream, the supervisor gets its elements one by
\* one, in order, each with its own members and no tag of a neighbour; an item
\* that can be read never ends the stream and never stops it, one that cannot
\* is never handed on in part; and BLOBs are given the descriptors in the order
\* in which they were sent.
ImplementsElementStream == Elements!Spec

\* Every descriptor that this process holds is in the queue, so that it is
\* closed exactly once: by the BLOB that claims it or with the connection.
NothingLeaks ==
  /\ held = ToSet(fds) /\ IsInjective(fds)
  /\ p.mode \in {"top", "closed"} => mapped = {}

\* As long as every attached BLOB before it came with a descriptor and was a
\* member of a vector that is delivered, a BLOB is given the descriptor that was
\* sent with it.
Tidy(e) == /\ Len(e.fds) = Attachments(e.toks)
           /\ Attachments(e.toks) = Claims(e.toks)
BlobIsItsOwn ==
  (\A i \in 1..out.n : Tidy(sent[i])) =>
    \A j, k \in DOMAIN out.got :
      /\ out.got[j][1] = out.n
      /\ j < k /\ 0 \notin {out.got[j][2], out.got[k][2]} => out.got[j][2] < out.got[k][2]

\* A BLOB is only ever given the descriptor that was sent with it.
OwnDescriptor == \A j \in DOMAIN out.got : out.got[j][1] = out.n
=============================================================================
