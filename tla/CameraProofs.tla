---------------------------- MODULE CameraProofs ----------------------------
(***************************************************************************)
(* Proofs about Camera for any requests, workloads and bounds: where an     *)
(* image, a frame type and a window command can still be on their way, and  *)
(* what each of them was asked with.                                        *)
(***************************************************************************)
EXTENDS Camera, TLAPS

Texts == {None, "Ok", "Busy", "Alert", "fits", "bad", "lost", "X", "W", "FRAME_LIGHT", "FRAME_DARK", "CLIENT"}
         \cup UNION {w.saved : w \in Workloads}
Kinds == {None, "exp", "blob", "win", "upload", "conn", "ftype", "temp", "abort", "expose"}
Windows == Window \cup {NoWin}
Images == [e : Nat, t : Texts, mine : BOOLEAN]
Messages == [k : Kinds, s : Texts, image : Images, win : Windows]
Drivers == [upload : Texts, ftype : Texts, win : Window, busy : Images]
Reqs == {None, "StartExposure", "SetSetCCDTemperature", "setFrame", "AbortExposure"}
Pcs == {None, "begin", "has", "ftype", "clear", "write", "record", "send", "target"}
Requests == [req : Reqs, pc : Pcs, e : Nat, elem : Texts, w : Windows,
             quiet : BOOLEAN, mine : BOOLEAN]

(***************************************************************************)
(* The inductive invariant.                                                 *)
(***************************************************************************)
\* An image that was taken with the frame type its request had sent has it.
Right(i) == i.mine => i.t = FrameType(Light(i.e))

\* Only an exposure asks for an image, and only a BLOB brings one.
Commands == {m \in Messages : /\ m.k # "expose" => m.image.e = 0 /\ ~m.image.mine
                              /\ m.k = "win" => m.win \in Window}
Elements == {m \in Messages : Right(m.image) /\ (m.k # "blob" => m.image.e = 0)}

TypedInv ==
  /\ work \in Workloads /\ alive \in BOOLEAN
  /\ dev \in Drivers /\ toDrv \in Seq(Commands) /\ toHost \in Seq(Elements)
  /\ snap \in [exp : Texts, ftype : Texts, upload : Texts, win : Windows]
  /\ ingest \in Elements /\ frame \in Images
  /\ cl \in [Clients -> Requests] /\ next \in Nat /\ cur \in Nat
  /\ ~alive => toDrv = << >>

\* While the history says clean, no image, and no command that asks for one, is of
\* another exposure than the current one.
Of(x) == {m \in Messages : m.image.e \in {0, x}}
CleanInv ==
  clean =>
    /\ frame.e \in {0, cur} /\ dev.busy.e \in {0, cur} /\ ingest.image.e \in {0, cur}
    /\ toDrv \in Seq(Of(cur)) /\ toHost \in Seq(Of(cur))
    /\ \A c \in Clients : cl[c].req = "StartExposure" /\ cl[c].pc = "write" => cl[c].e = cur

\* The driver's frame type f becomes t with the first i commands of q.
Stands(q, f, t, i) ==
  \E j \in 0..i :
    /\ j = 0 => f = t
    /\ j # 0 => q[j].k = "ftype" /\ q[j].s = t
    /\ \A l \in (j + 1)..i : q[l].k # "ftype"

\* An exposure that owns the frame type finds its own when the driver takes it up.
OwnTypes(q, f) ==
  \A i \in 1..Len(q) : q[i].image.mine => Stands(q, f, FrameType(Light(q[i].image.e)), i)

\* A window command that knows the driver's window w is the first that is under
\* way, and leaves the other members alone.
NoWindow(q) == \A i \in 1..Len(q) : q[i].k # "win"
Keeps(v, el, w) == \A m \in {"X", "W"} : m # el => v[m] = w[m]
OneWindow(q, w) ==
  \A i \in 1..Len(q) : q[i].k = "win" /\ q[i].s # None =>
    Keeps(q[i].win, q[i].s, w) /\ \A j \in 1..(i - 1) : q[j].k # "win"

PipeInv == OwnTypes(toDrv, dev.ftype) /\ OneWindow(toDrv, dev.win) /\ Right(dev.busy) /\ Right(frame)

\* The same of a request r that has not yet sent its command, q being under way
\* to the driver d.
Holds(r, q, d, up) ==
  /\ r.req = "AbortExposure" => r.e = 0
  /\ r.mine => up /\ Stands(q, d.ftype, FrameType(Light(r.e)), Len(q))
  /\ r.req = "setFrame" /\ r.pc # "begin" =>
       /\ r.w \in Window /\ r.elem \in {"X", "W"}
       /\ r.quiet => up /\ NoWindow(q) /\ Keeps(r.w, r.elem, d.win)
  /\ r.req = "setFrame" => r.elem \in {"X", "W"}
RequestInv == \A c \in Clients : Holds(cl[c], toDrv, dev, alive)

IndInv == TypedInv /\ CleanInv /\ PipeInv /\ RequestInv

(***************************************************************************)
(* The pipe.                                                                *)
(***************************************************************************)
LEMMA StandsAppend ==
  ASSUME NEW q \in Seq(Commands), NEW m \in Commands, NEW f, NEW t, NEW i \in 0..Len(q),
         Stands(q, f, t, i)
  PROVE  /\ Stands(Append(q, m), f, t, i)
         /\ i = Len(q) /\ m.k # "ftype" => Stands(Append(q, m), f, t, Len(Append(q, m)))
<1> DEFINE p == Append(q, m)
           n == Len(q)
<1>1. n \in Nat /\ Len(p) = n + 1 /\ p[n + 1] = m /\ \A l \in 1..n : p[l] = q[l]
  OBVIOUS
<1>2. PICK j \in 0..i : /\ j = 0 => f = t
                        /\ j # 0 => q[j].k = "ftype" /\ q[j].s = t
                        /\ \A l \in (j + 1)..i : q[l].k # "ftype"
  BY DEF Stands
<1> HIDE DEF p, n
<1>3. j # 0 => p[j].k = "ftype" /\ p[j].s = t
  BY <1>1, <1>2 DEF n
<1>4. \A l \in (j + 1)..i : p[l].k # "ftype"
  BY <1>1, <1>2 DEF n
<1>5. Stands(p, f, t, i)
  BY <1>2, <1>3, <1>4 DEF Stands
<1>6. ASSUME i = n, m.k # "ftype" PROVE Stands(p, f, t, n + 1)
  <2>1. \A l \in (j + 1)..(n + 1) : p[l].k # "ftype"
    BY <1>1, <1>4, <1>6
  <2>2. j \in 0..(n + 1)
    BY <1>1, <1>6
  <2> QED BY <1>2, <1>3, <2>1, <2>2 DEF Stands
<1> QED BY <1>1, <1>5, <1>6 DEF p, n

\* A frame type at the end stands.
LEMMA StandsNow ==
  ASSUME NEW q \in Seq(Commands), NEW m \in Commands, NEW f, m.k = "ftype"
  PROVE  Stands(Append(q, m), f, m.s, Len(Append(q, m)))
<1> DEFINE p == Append(q, m)
           n == Len(q)
<1>1. n \in Nat /\ Len(p) = n + 1 /\ p[n + 1] = m
  OBVIOUS
<1> HIDE DEF p, n
<1>2. /\ n + 1 \in 0..(n + 1) /\ n + 1 # 0
      /\ \A l \in ((n + 1) + 1)..(n + 1) : p[l].k # "ftype"
  BY <1>1
<1> QED BY <1>1, <1>2 DEF Stands, p

\* The driver takes up the first command.
After(q, f) == IF Head(q).k = "ftype" THEN Head(q).s ELSE f
LEMMA StandsTail ==
  ASSUME NEW q \in Seq(Commands), q # << >>, NEW f, NEW t, NEW i \in 1..Len(q), Stands(q, f, t, i)
  PROVE  Stands(Tail(q), After(q, f), t, i - 1)
<1> DEFINE p == Tail(q)
           n == Len(p)
<1>1. n \in Nat /\ Len(q) = n + 1 /\ Head(q) = q[1] /\ \A l \in 1..n : p[l] = q[l + 1]
  OBVIOUS
<1>2. PICK j \in 0..i : /\ j = 0 => f = t
                        /\ j # 0 => q[j].k = "ftype" /\ q[j].s = t
                        /\ \A l \in (j + 1)..i : q[l].k # "ftype"
  BY DEF Stands
<1> HIDE DEF p, n
<1>3. CASE j \in {0, 1}
  <2>1. After(q, f) = t
    <3>1. CASE j = 0
      <4>1. 1 \in (j + 1)..i
        BY <1>1, <3>1
      <4> QED BY <1>1, <1>2, <3>1, <4>1 DEF After
    <3>2. CASE j = 1
      BY <1>1, <1>2, <3>2 DEF After
    <3> QED BY <1>3, <3>1, <3>2
  <2>2. \A l \in 1..(i - 1) : p[l].k # "ftype"
    <3> TAKE l \in 1..(i - 1)
    <3>1. l + 1 \in (j + 1)..i /\ l \in 1..n
      BY <1>1, <1>3
    <3> QED BY <1>1, <1>2, <3>1
  <2>3. 0 \in 0..(i - 1) /\ 0 + 1 = 1
    BY <1>1
  <2> QED BY <2>1, <2>2, <2>3 DEF Stands, p
<1>4. CASE j \notin {0, 1}
  <2>1. j - 1 \in 0..(i - 1) /\ j - 1 # 0 /\ j # 0 /\ j - 1 \in 1..n /\ (j - 1) + 1 = j
    BY <1>1, <1>4
  <2>2. p[j - 1].k = "ftype" /\ p[j - 1].s = t
    BY <1>1, <1>2, <2>1
  <2>3. \A l \in ((j - 1) + 1)..(i - 1) : p[l].k # "ftype"
    <3> TAKE l \in ((j - 1) + 1)..(i - 1)
    <3>1. l + 1 \in (j + 1)..i /\ l \in 1..n
      BY <1>1, <2>1
    <3> QED BY <1>1, <1>2, <3>1
  <2> QED BY <2>1, <2>2, <2>3 DEF Stands, p
<1> QED BY <1>2, <1>3, <1>4

\* What a command at the end leaves alone.
LEMMA PipeAppend ==
  ASSUME NEW q \in Seq(Commands), NEW m \in Commands, NEW f, NEW w,
         OwnTypes(q, f), OneWindow(q, w),
         m.image.mine => Stands(Append(q, m), f, FrameType(Light(m.image.e)), Len(Append(q, m))),
         m.k = "win" /\ m.s # None => NoWindow(q) /\ Keeps(m.win, m.s, w)
  PROVE  OwnTypes(Append(q, m), f) /\ OneWindow(Append(q, m), w)
<1> DEFINE p == Append(q, m)
           n == Len(q)
<1>1. n \in Nat /\ Len(p) = n + 1 /\ p[n + 1] = m /\ \A l \in 1..n : p[l] = q[l]
  OBVIOUS
<1>2. \A i \in 1..n : \A t : Stands(q, f, t, i) => Stands(p, f, t, i)
  BY StandsAppend
<1>3. m.image.mine => Stands(p, f, FrameType(Light(m.image.e)), n + 1)
  BY <1>1
<1> HIDE DEF p
<1>4. OwnTypes(p, f)
  <2> SUFFICES ASSUME NEW i \in 1..(n + 1), p[i].image.mine
               PROVE  Stands(p, f, FrameType(Light(p[i].image.e)), i)
    BY <1>1 DEF OwnTypes
  <2>1. CASE i = n + 1
    BY <1>1, <1>3, <2>1
  <2>2. CASE i # n + 1
    <3>1. i \in 1..n
      BY <1>1, <2>2
    <3> QED BY <1>1, <1>2, <3>1 DEF OwnTypes
  <2> QED BY <2>1, <2>2
<1>5. OneWindow(p, w)
  <2> SUFFICES ASSUME NEW i \in 1..(n + 1), p[i].k = "win", p[i].s # None
               PROVE  Keeps(p[i].win, p[i].s, w) /\ \A j \in 1..(i - 1) : p[j].k # "win"
    BY <1>1 DEF OneWindow
  <2>1. CASE i = n + 1
    <3>1. \A j \in 1..(i - 1) : j \in 1..n /\ p[j] = q[j]
      BY <1>1, <2>1
    <3> QED BY <1>1, <2>1, <3>1 DEF NoWindow
  <2>2. CASE i # n + 1
    <3>1. i \in 1..n /\ \A j \in 1..(i - 1) : j \in 1..n /\ p[j] = q[j]
      BY <1>1, <2>2
    <3> QED BY <1>1, <3>1 DEF OneWindow
  <2> QED BY <2>1, <2>2
<1> QED BY <1>4, <1>5 DEF p

\* The rest of the pipe, when the driver has taken up a command; w is its window
\* before, v after it.
LEMMA PipeTail ==
  ASSUME NEW q \in Seq(Commands), q # << >>, NEW f, NEW w, NEW v,
         OwnTypes(q, f), OneWindow(q, w), Head(q).k # "win" => v = w
  PROVE  OwnTypes(Tail(q), After(q, f)) /\ OneWindow(Tail(q), v)
<1> DEFINE p == Tail(q)
           n == Len(p)
<1>1. n \in Nat /\ Len(q) = n + 1 /\ Head(q) = q[1] /\ \A l \in 1..n : p[l] = q[l + 1]
  OBVIOUS
<1>2. \A i \in 1..Len(q) : \A t : Stands(q, f, t, i) => Stands(p, After(q, f), t, i - 1)
  BY StandsTail
<1> HIDE DEF p, n
<1>3. OwnTypes(p, After(q, f))
  <2> SUFFICES ASSUME NEW i \in 1..n, p[i].image.mine
               PROVE  Stands(p, After(q, f), FrameType(Light(p[i].image.e)), i)
    BY DEF OwnTypes, n
  <2>1. i + 1 \in 1..Len(q) /\ (i + 1) - 1 = i /\ p[i] = q[i + 1]
    BY <1>1
  <2>2. Stands(q, f, FrameType(Light(p[i].image.e)), i + 1)
    BY <2>1 DEF OwnTypes
  <2>3. Stands(p, After(q, f), FrameType(Light(p[i].image.e)), (i + 1) - 1)
    BY <1>2, <2>1, <2>2
  <2> QED BY <2>1, <2>3
<1>4. OneWindow(p, v)
  <2> SUFFICES ASSUME NEW i \in 1..n, p[i].k = "win", p[i].s # None
               PROVE  Keeps(p[i].win, p[i].s, v) /\ \A j \in 1..(i - 1) : p[j].k # "win"
    BY DEF OneWindow, n
  <2>1. i + 1 \in 1..Len(q) /\ p[i] = q[i + 1]
    BY <1>1
  <2>2. Keeps(p[i].win, p[i].s, w) /\ \A j \in 1..((i + 1) - 1) : q[j].k # "win"
    BY <2>1 DEF OneWindow
  <2>3. v = w
    <3>1. 1 \in 1..((i + 1) - 1)
      BY <1>1
    <3> QED BY <1>1, <2>2, <3>1
  <2>4. \A j \in 1..(i - 1) : j + 1 \in 1..((i + 1) - 1) /\ p[j] = q[j + 1]
    BY <1>1
  <2> QED BY <2>2, <2>3, <2>4
<1> QED BY <1>3, <1>4 DEF p

(***************************************************************************)
(* What is on the wires.                                                    *)
(***************************************************************************)
LEMMA Listed ==
  /\ None \in Texts /\ "Ok" \in Texts /\ "Busy" \in Texts /\ "Alert" \in Texts /\ "fits" \in Texts
  /\ "bad" \in Texts /\ "X" \in Texts /\ "W" \in Texts /\ "FRAME_LIGHT" \in Texts
  /\ "FRAME_DARK" \in Texts /\ "CLIENT" \in Texts /\ \A x \in Workloads : x.saved \subseteq Texts
  /\ None \in Kinds /\ "exp" \in Kinds /\ "blob" \in Kinds /\ "win" \in Kinds /\ "upload" \in Kinds
  /\ "conn" \in Kinds /\ "ftype" \in Kinds /\ "temp" \in Kinds /\ "abort" \in Kinds /\ "expose" \in Kinds
  /\ None \in Pcs /\ "begin" \in Pcs /\ "has" \in Pcs /\ "ftype" \in Pcs /\ "clear" \in Pcs
  /\ "write" \in Pcs /\ "record" \in Pcs /\ "send" \in Pcs /\ "target" \in Pcs
  /\ None \in Reqs /\ "StartExposure" \in Reqs /\ "SetSetCCDTemperature" \in Reqs
  /\ "setFrame" \in Reqs /\ "AbortExposure" \in Reqs
BY DEF Texts, Kinds, Pcs, Reqs

LEMMA ImageTyped == NoImage \in Images /\ NoImage.e = 0 /\ ~NoImage.mine /\ Right(NoImage)
BY Listed DEF NoImage, Images, Right

LEMMA WindowTyped == Corner \in Window /\ NoWin \in Windows /\ Window \subseteq Windows
BY DEF Corner, Window, NoWin, Windows

LEMMA ElementTyped ==
  ASSUME NEW k \in Kinds, NEW s \in Texts
  PROVE  /\ Element(k, s) \in Elements /\ Element(k, s).k = k /\ Element(k, s).s = s
         /\ Element(k, s).image = NoImage
         /\ k # "win" => Element(k, s) \in Commands
<1>1. Element(k, s) \in Messages /\ Element(k, s).k = k /\ Element(k, s).s = s
      /\ Element(k, s).image = NoImage
  BY ImageTyped, WindowTyped DEF Element, Messages
<1> QED BY <1>1, ImageTyped DEF Elements, Commands

LEMMA SetWinTyped ==
  ASSUME NEW w \in Window, NEW s \in Texts
  PROVE  /\ SetWin(w, s) \in Elements /\ SetWin(w, s) \in Commands
         /\ SetWin(w, s).k = "win" /\ SetWin(w, s).s = s /\ SetWin(w, s).win = w
         /\ SetWin(w, s).image = NoImage
<1>1. /\ SetWin(w, s) \in Messages /\ SetWin(w, s).k = "win" /\ SetWin(w, s).s = s
      /\ SetWin(w, s).win = w /\ SetWin(w, s).image = NoImage
  BY Listed, ImageTyped, WindowTyped DEF SetWin, Messages
<1> QED BY <1>1, ImageTyped DEF Elements, Commands

LEMMA ExposeTyped ==
  ASSUME NEW e \in Nat, NEW mine \in BOOLEAN
  PROVE  /\ Expose(e, mine) \in Commands /\ Expose(e, mine).k = "expose"
         /\ Expose(e, mine).image.e = e /\ (Expose(e, mine).image.mine <=> mine)
<1>1. /\ Expose(e, mine) \in Messages /\ Expose(e, mine).k = "expose"
      /\ Expose(e, mine).image.e = e /\ (Expose(e, mine).image.mine <=> mine)
  BY Listed, WindowTyped DEF Expose, Messages, Images
<1> QED BY <1>1 DEF Commands

LEMMA BlobTyped ==
  ASSUME NEW i \in Images, Right(i), NEW s \in Texts
  PROVE  Blob(i, s) \in Elements /\ Blob(i, s).image = i
<1>1. Blob(i, s) \in Messages /\ Blob(i, s).k = "blob" /\ Blob(i, s).image = i
  BY Listed, WindowTyped DEF Blob, Messages
<1> QED BY <1>1 DEF Elements

LEMMA NoBlobTyped == NoBlob \in Elements /\ NoBlob.image = NoImage
<1>1. NoBlob \in Messages /\ NoBlob.k = None /\ NoBlob.image = NoImage
  BY Listed, ImageTyped, WindowTyped DEF NoBlob, Messages
<1> QED BY <1>1, ImageTyped DEF Elements

(***************************************************************************)
(* Steps of the driver.                                                     *)
(***************************************************************************)
\* What a request holds on to while the child is dead is nothing.
LEMMA HoldsDead ==
  ASSUME NEW r, NEW q, NEW d, Holds(r, q, d, FALSE), NEW p, NEW b, NEW up
  PROVE  Holds(r, p, b, up)
BY DEF Holds

LEMMA HoldsTail ==
  ASSUME NEW r, NEW q \in Seq(Commands), q # << >>, NEW d \in Drivers, NEW b \in Drivers, NEW up,
         Holds(r, q, d, up), b.ftype = After(q, d.ftype), Head(q).k # "win" => b.win = d.win
  PROVE  Holds(r, Tail(q), b, up)
<1>1. /\ Len(q) \in 1..Len(q) /\ Len(Tail(q)) = Len(q) - 1 /\ Head(q) = q[1] /\ 1 \in 1..Len(q)
      /\ \A l \in 1..Len(Tail(q)) : l + 1 \in 1..Len(q) /\ Tail(q)[l] = q[l + 1]
  OBVIOUS
<1>2. \A t : Stands(q, d.ftype, t, Len(q)) => Stands(Tail(q), b.ftype, t, Len(Tail(q)))
  BY <1>1, StandsTail
<1>3. NoWindow(q) => NoWindow(Tail(q)) /\ b.win = d.win
  BY <1>1 DEF NoWindow
<1> QED BY <1>2, <1>3 DEF Holds

LEMMA Quads ==
  ASSUME NEW a, NEW b, NEW x, NEW y
  PROVE  /\ <<a, b>> \o <<x, y>> \in Seq({a, b, x, y})
         /\ <<b, a>> \o <<x, y>> \in Seq({a, b, x, y})
<1> DEFINE S == {a, b, x, y}
<1>1. a \in S /\ b \in S /\ x \in S /\ y \in S
  OBVIOUS
<1> HIDE DEF S
<1>2. <<a, b>> \in Seq(S) /\ <<b, a>> \in Seq(S) /\ <<x, y>> \in Seq(S)
  BY <1>1
<1>3. \A p, q \in Seq(S) : p \o q \in Seq(S)
  OBVIOUS
<1>4. <<a, b>> \o <<x, y>> \in Seq(S) /\ <<b, a>> \o <<x, y>> \in Seq(S)
  BY <1>2, <1>3, Zenon
<1> QED BY <1>4 DEF S

LEMMA SpawnKeeps ==
  ASSUME IndInv, Spawn PROVE IndInv'
<1>1. /\ ~alive /\ alive' = TRUE /\ toDrv' = << >>
      /\ UNCHANGED <<work, snap, frame, frameErr, cur, clean, ingest, rec, cl, next>>
  BY DEF Spawn, imageVars
<1>2. PICK u \in work.saved : \E early \in BOOLEAN :
        /\ dev' = [upload |-> u, ftype |-> "FRAME_LIGHT", win |-> Corner, busy |-> NoImage]
        /\ LET defs == <<ExpState("Ok"), WinIs(Corner)>>
           IN toHost' = IF early THEN <<Element("upload", u), Element("conn", None)>> \o defs
                        ELSE <<Element("conn", None), Element("upload", u)>> \o defs
  BY DEF Spawn
<1>3. u \in Texts
  BY Listed DEF IndInv, TypedInv
<1>4. /\ dev' \in Drivers /\ dev'.busy = NoImage
  BY <1>2, <1>3, Listed, ImageTyped, WindowTyped DEF Drivers
<1> DEFINE a == Element("upload", u)
           b == Element("conn", None)
           x == Element("exp", "Ok")
           y == SetWin(Corner, None)
<1>5. ASSUME NEW m \in {a, b, x, y}
      PROVE  m \in Elements /\ m.image = NoImage
  BY <1>3, <1>5, Listed, ElementTyped, SetWinTyped, WindowTyped
<1>6. toHost' = <<a, b>> \o <<x, y>> \/ toHost' = <<b, a>> \o <<x, y>>
  BY <1>2 DEF ExpState, WinIs
<1> HIDE DEF a, b, x, y
<1>7. toHost' \in Seq({a, b, x, y})
  <2>1. /\ <<a, b>> \o <<x, y>> \in Seq({a, b, x, y})
        /\ <<b, a>> \o <<x, y>> \in Seq({a, b, x, y})
    BY Quads, Zenon
  <2> QED BY <1>6, <2>1, Zenon
<1>8. {a, b, x, y} \subseteq Elements /\ \A z : {a, b, x, y} \subseteq Of(z)
  BY <1>5, ImageTyped DEF Elements, Of
<1>9. toHost' \in Seq(Elements) /\ \A z : toHost' \in Seq(Of(z))
  BY <1>7, <1>8
<1>10. TypedInv'
  BY <1>1, <1>4, <1>9 DEF IndInv, TypedInv
<1>11. CleanInv'
  <2>1. toDrv' \in Seq(Of(cur)) /\ dev'.busy.e = 0
    BY <1>1, <1>4, ImageTyped
  <2> QED BY <1>1, <1>9, <2>1 DEF IndInv, CleanInv
<1>12. PipeInv'
  <2>1. Len(<< >>) = 0 /\ Right(dev'.busy)
    BY <1>4, ImageTyped
  <2> QED BY <1>1, <2>1 DEF IndInv, PipeInv, OwnTypes, OneWindow
<1>13. RequestInv'
  <2>1. alive = FALSE
    BY <1>1 DEF IndInv, TypedInv
  <2> QED BY <1>1, <2>1, HoldsDead DEF IndInv, RequestInv
<1> QED BY <1>10, <1>11, <1>12, <1>13 DEF IndInv

\* What the driver says for a command, and what it does.
LEMMA TakeEffect ==
  ASSUME IndInv, Take
  PROVE  /\ dev' \in Drivers /\ dev'.ftype = After(toDrv, dev.ftype)
         /\ Head(toDrv).k # "win" => dev'.win = dev.win
         /\ Right(dev'.busy)
         /\ dev'.busy.e \in {0, dev.busy.e, Head(toDrv).image.e}
         /\ toHost' = toHost \/ \E x \in Elements : x.image.e = 0 /\ toHost' = toHost \o <<x>>
<1> DEFINE m == Head(toDrv)
<1>1. toDrv \in Seq(Commands) /\ toDrv # << >> /\ m = toDrv[1] /\ 1 \in 1..Len(toDrv) /\ m \in Commands
  BY DEF IndInv, TypedInv, Take
<1>2. dev \in Drivers /\ Right(dev.busy)
  BY DEF IndInv, TypedInv, PipeInv
<1>3. /\ m.s \in Texts /\ m.image \in Images
      /\ m.k # "expose" => m.image.e = 0 /\ ~m.image.mine
      /\ m.k = "win" => m.win \in Window
  BY <1>1 DEF Commands, Messages
<1>4. \/ m.k = "ftype"  /\ dev' = [dev EXCEPT !.ftype = m.s] /\ UNCHANGED toHost
      \/ m.k = "upload" /\ dev' = [dev EXCEPT !.upload = m.s] /\ Says(<<m>>)
      \/ m.k = "temp"   /\ UNCHANGED <<dev, toHost>>
      \/ m.k = "win"    /\ dev' = [dev EXCEPT !.win = m.win] /\ Says(<<WinIs(m.win)>>)
      \/ m.k = "abort"  /\ dev' = [dev EXCEPT !.busy = NoImage] /\ Says(<<ExpState("Ok")>>)
      \/ /\ m.k = "expose"
         /\ dev' = [dev EXCEPT !.busy = [e |-> m.image.e, t |-> dev.ftype, mine |-> m.image.mine]]
         /\ Says(<<ExpState("Busy")>>)
      \/ m.k = "expose" /\ Says(<<ExpState("Alert")>>) /\ UNCHANGED dev
  BY DEF Take
<1>5. m.k = "expose" /\ m.image.mine => dev.ftype = FrameType(Light(m.image.e))
  <2> SUFFICES ASSUME m.k = "expose", m.image.mine PROVE dev.ftype = FrameType(Light(m.image.e))
    OBVIOUS
  <2>1. Stands(toDrv, dev.ftype, FrameType(Light(m.image.e)), 1)
    BY <1>1 DEF IndInv, PipeInv, OwnTypes
  <2>2. \A j \in 0..1 : j = 0 \/ j = 1
    OBVIOUS
  <2> HIDE DEF m
  <2> QED BY <1>1, <2>1, <2>2 DEF Stands
<1> HIDE DEF m
<1>6. dev' \in Drivers /\ (m.k # "win" => dev'.win = dev.win)
  BY <1>2, <1>3, <1>4, ImageTyped DEF Drivers, Images
<1>7. dev'.ftype = After(toDrv, dev.ftype)
  BY <1>2, <1>4 DEF Drivers, After, m
<1>8. Right(dev'.busy) /\ dev'.busy.e \in {0, dev.busy.e, m.image.e}
  <2>1. dev'.busy \in {dev.busy, NoImage, [e |-> m.image.e, t |-> dev.ftype, mine |-> m.image.mine]}
    BY <1>2, <1>4 DEF Drivers
  <2>2. CASE dev'.busy = [e |-> m.image.e, t |-> dev.ftype, mine |-> m.image.mine] /\ m.k = "expose"
    BY <1>5, <2>2 DEF Right
  <2>3. CASE dev'.busy = dev.busy \/ dev'.busy = NoImage
    BY <1>2, <2>3, ImageTyped
  <2>4. m.k # "expose" => dev'.busy = dev.busy \/ dev'.busy = NoImage
    BY <1>2, <1>4 DEF Drivers
  <2> QED BY <2>1, <2>2, <2>3, <2>4
<1>9. toHost' = toHost \/ \E x \in Elements : x.image.e = 0 /\ toHost' = toHost \o <<x>>
  <2>1. m.k = "upload" => m \in Elements /\ m.image.e = 0
    BY <1>1, <1>3 DEF Elements, Commands, Right
  <2>2. m.k = "win" => WinIs(m.win) \in Elements /\ WinIs(m.win).image.e = 0
    BY <1>3, Listed, SetWinTyped, ImageTyped DEF WinIs
  <2>3. \A x \in {"Ok", "Busy", "Alert"} : ExpState(x) \in Elements /\ ExpState(x).image.e = 0
    BY Listed, ElementTyped, ImageTyped DEF ExpState
  <2> QED BY <1>4, <2>1, <2>2, <2>3 DEF Says
<1> QED BY <1>6, <1>7, <1>8, <1>9 DEF m

LEMMA TakeKeeps ==
  ASSUME IndInv, Take PROVE IndInv'
<1>1. /\ toDrv \in Seq(Commands) /\ toDrv # << >> /\ toDrv' = Tail(toDrv) /\ alive
      /\ UNCHANGED <<work, alive, snap, frame, frameErr, cur, clean, ingest, rec, cl, next>>
  BY DEF Take, imageVars, IndInv, TypedInv
<1>2. /\ dev' \in Drivers /\ dev'.ftype = After(toDrv, dev.ftype)
      /\ Head(toDrv).k # "win" => dev'.win = dev.win
      /\ Right(dev'.busy)
      /\ dev'.busy.e \in {0, dev.busy.e, Head(toDrv).image.e}
      /\ toHost' = toHost \/ \E x \in Elements : x.image.e = 0 /\ toHost' = toHost \o <<x>>
  BY TakeEffect
<1>3. toHost' \in Seq(Elements) /\ \A z : toHost \in Seq(Of(z)) => toHost' \in Seq(Of(z))
  <2>1. toHost \in Seq(Elements)
    BY DEF IndInv, TypedInv
  <2>2. \A x \in Elements : x.image.e = 0 => \A z : x \in Of(z)
    BY DEF Elements, Of
  <2>3. CASE toHost' = toHost
    BY <2>1, <2>3
  <2>4. ASSUME NEW x \in Elements, x.image.e = 0, toHost' = toHost \o <<x>>
        PROVE  toHost' \in Seq(Elements) /\ \A z : toHost \in Seq(Of(z)) => toHost' \in Seq(Of(z))
    <3>1. \A z : x \in Of(z)
      BY <2>2, <2>4
    <3> QED BY <2>1, <2>4, <3>1
  <2> QED BY <1>2, <2>3, <2>4
<1>4. TypedInv'
  BY <1>1, <1>2, <1>3 DEF IndInv, TypedInv
<1>5. CleanInv'
  <2> SUFFICES ASSUME clean
               PROVE  /\ dev'.busy.e \in {0, cur}
                      /\ toDrv' \in Seq(Of(cur)) /\ toHost' \in Seq(Of(cur))
    BY <1>1 DEF IndInv, CleanInv
  <2>1. /\ dev.busy.e \in {0, cur} /\ toDrv \in Seq(Of(cur)) /\ toHost \in Seq(Of(cur))
    BY DEF IndInv, CleanInv
  <2>2. Head(toDrv) \in Of(cur) /\ Tail(toDrv) \in Seq(Of(cur))
    BY <1>1, <2>1
  <2>3. Head(toDrv).image.e \in {0, cur}
    BY <2>2 DEF Of
  <2> QED BY <1>1, <1>2, <1>3, <2>1, <2>2, <2>3
<1>6. PipeInv'
  <2>1. OwnTypes(toDrv, dev.ftype) /\ OneWindow(toDrv, dev.win)
    BY DEF IndInv, PipeInv
  <2>2. OwnTypes(Tail(toDrv), After(toDrv, dev.ftype)) /\ OneWindow(Tail(toDrv), dev'.win)
    BY <1>1, <1>2, <2>1, PipeTail
  <2> QED BY <1>1, <1>2, <2>2 DEF IndInv, PipeInv
<1>7. RequestInv'
  <2>1. dev \in Drivers
    BY DEF IndInv, TypedInv
  <2>2. \A c \in Clients : Holds(cl[c], Tail(toDrv), dev', alive)
    BY <1>1, <1>2, <2>1, HoldsTail DEF IndInv, RequestInv
  <2> QED BY <1>1, <2>2 DEF RequestInv
<1> QED BY <1>4, <1>5, <1>6, <1>7 DEF IndInv

\* A step of the driver or the read loop that sends the driver nothing: dev and
\* the elements change, images stay those of the current exposure.
LEMMA HoldsSame ==
  ASSUME NEW r, NEW q, NEW d, NEW b, NEW up, Holds(r, q, d, up), b.ftype = d.ftype, b.win = d.win
  PROVE  Holds(r, q, b, up)
BY DEF Holds

LEMMA ReadLoopKeeps ==
  ASSUME IndInv, UNCHANGED <<work, alive, toDrv, cl, next, cur, clean>>,
         dev' \in Drivers, dev'.ftype = dev.ftype, dev'.win = dev.win, Right(dev'.busy),
         toHost' \in Seq(Elements), ingest' \in Elements, frame' \in Images, Right(frame'),
         snap' \in [exp : Texts, ftype : Texts, upload : Texts, win : Windows],
         clean => /\ dev'.busy.e \in {0, cur} /\ toHost' \in Seq(Of(cur))
                  /\ ingest'.image.e \in {0, cur} /\ frame'.e \in {0, cur}
  PROVE  IndInv'
<1>1. TypedInv'
  BY DEF IndInv, TypedInv
<1>2. CleanInv'
  BY DEF IndInv, CleanInv
<1>3. PipeInv'
  BY DEF IndInv, PipeInv
<1>4. RequestInv'
  BY HoldsSame DEF IndInv, RequestInv
<1> QED BY <1>1, <1>2, <1>3, <1>4 DEF IndInv

LEMMA FinishKeeps ==
  ASSUME IndInv, Finish PROVE IndInv'
<1>1. UNCHANGED <<work, alive, toDrv, snap, frame, ingest, cl, next, cur, clean>>
  BY DEF Finish, imageVars
<1>2. dev \in Drivers /\ toHost \in Seq(Elements) /\ Right(dev.busy)
  BY DEF IndInv, TypedInv, PipeInv
<1>3. dev' \in Drivers /\ dev'.ftype = dev.ftype /\ dev'.win = dev.win /\ dev'.busy = NoImage
  BY <1>2, ImageTyped DEF Finish, Drivers
<1> DEFINE o == ExpState("Ok")
<1>4. o \in Elements /\ o.image = NoImage
  BY Listed, ElementTyped DEF ExpState
<1> DEFINE al == ExpState("Alert")
<1>13. al \in Elements /\ al.image = NoImage
  BY Listed, ElementTyped DEF ExpState
<1>5. PICK s \in {"fits", "bad"} :
        \/ toHost' = toHost \o <<al>>
        \/ \E blob \in {<< >>, <<Blob(dev.busy, s)>>} :
             toHost' = toHost \o (blob \o <<o>>) \/ toHost' = toHost \o (<<o>> \o blob)
  BY DEF Finish, Says
<1> DEFINE b == Blob(dev.busy, s)
<1>6. b \in Elements /\ b.image = dev.busy
  BY <1>2, <1>5, Listed, BlobTyped DEF Drivers
<1>7. PICK blob \in {<< >>, <<b>>} :
         \/ toHost' = toHost \o <<al>>
         \/ toHost' = toHost \o (blob \o <<o>>) \/ toHost' = toHost \o (<<o>> \o blob)
  BY <1>5
<1> HIDE DEF o, b, al
<1>8. ASSUME NEW S, toHost \in Seq(S), o \in S, b \in S, al \in S PROVE toHost' \in Seq(S)
  <2>0. << >> \in Seq(S) /\ <<o>> \in Seq(S) /\ <<b>> \in Seq(S) /\ <<al>> \in Seq(S)
    BY ONLY <1>8
  <2>1. blob \in Seq(S) /\ <<o>> \in Seq(S) /\ <<al>> \in Seq(S)
    BY <1>7, <2>0, Zenon
  <2>2. \A p, q \in Seq(S) : p \o q \in Seq(S)
    OBVIOUS
  <2> QED BY <1>7, <1>8, <2>1, <2>2, Zenon
<1>9. toHost' \in Seq(Elements)
  BY <1>2, <1>4, <1>6, <1>8, <1>13
<1>10. clean => toHost' \in Seq(Of(cur))
  <2>1. o \in Messages /\ b \in Messages /\ al \in Messages
    BY <1>4, <1>6, <1>13 DEF Elements
  <2>2. clean => /\ o \in Of(cur) /\ b \in Of(cur) /\ al \in Of(cur)
                 /\ toHost \in Seq(Of(cur))
    BY <1>4, <1>6, <1>13, <2>1, ImageTyped DEF IndInv, CleanInv, Of
  <2> QED BY <1>8, <2>2
<1>11. /\ ingest' \in Elements /\ frame' \in Images /\ Right(frame') /\ Right(dev'.busy)
       /\ snap' \in [exp : Texts, ftype : Texts, upload : Texts, win : Windows]
  BY <1>1, <1>3, ImageTyped DEF IndInv, TypedInv, PipeInv
<1>12. clean => /\ dev'.busy.e \in {0, cur} /\ ingest'.image.e \in {0, cur} /\ frame'.e \in {0, cur}
  BY <1>1, <1>3, ImageTyped DEF IndInv, CleanInv
<1> QED BY <1>1, <1>3, <1>9, <1>10, <1>11, <1>12, ReadLoopKeeps

LEMMA IngestKeeps ==
  ASSUME IndInv, IngestBlob PROVE IndInv'
<1>1. /\ UNCHANGED <<work, alive, dev, toDrv, snap, frame, cl, next, cur, clean>>
      /\ toHost # << >> /\ toHost' = Tail(toHost)
      /\ ingest' \in {Head(toHost), Skipped(Head(toHost))} /\ Head(toHost).k = "blob"
  BY DEF IngestBlob, imageVars
<1>2. \A S : toHost \in Seq(S) => Head(toHost) \in S /\ toHost' \in Seq(S)
  BY <1>1
<1>6. Head(toHost) \in Elements /\ "lost" \in Texts
  BY <1>2, Listed DEF IndInv, TypedInv, Texts
<1>7. ingest' \in Elements /\ ingest'.image = Head(toHost).image
  BY <1>1, <1>6 DEF Skipped, Elements, Messages
<1>3. /\ dev' \in Drivers /\ frame' \in Images /\ Right(frame') /\ Right(dev'.busy)
      /\ snap' \in [exp : Texts, ftype : Texts, upload : Texts, win : Windows]
      /\ ingest' \in Elements /\ toHost' \in Seq(Elements)
  BY <1>1, <1>2, <1>7 DEF IndInv, TypedInv, PipeInv
<1>4. clean => /\ dev'.busy.e \in {0, cur} /\ frame'.e \in {0, cur}
               /\ Head(toHost) \in Of(cur) /\ toHost' \in Seq(Of(cur))
  BY <1>1, <1>2 DEF IndInv, CleanInv
<1>5. clean => ingest'.image.e \in {0, cur}
  BY <1>4, <1>7 DEF Of
<1> QED BY <1>1, <1>3, <1>4, <1>5, ReadLoopKeeps

LEMMA StoreKeeps ==
  ASSUME IndInv, StoreBlob PROVE IndInv'
<1>1. /\ UNCHANGED <<work, alive, dev, toDrv, toHost, snap, cl, next, cur, clean>>
      /\ ingest' = NoBlob /\ frame' \in {frame, ingest.image}
  BY DEF StoreBlob, driverVars
<1>2. ingest.image \in Images /\ Right(ingest.image)
  BY DEF IndInv, TypedInv, Elements, Messages
<1>3. /\ dev' \in Drivers /\ frame' \in Images /\ Right(frame') /\ Right(dev'.busy)
      /\ snap' \in [exp : Texts, ftype : Texts, upload : Texts, win : Windows]
      /\ ingest' \in Elements /\ toHost' \in Seq(Elements)
  BY <1>1, <1>2, NoBlobTyped DEF IndInv, TypedInv, PipeInv
<1>4. clean => /\ dev'.busy.e \in {0, cur} /\ frame'.e \in {0, cur}
               /\ ingest'.image.e \in {0, cur} /\ toHost' \in Seq(Of(cur))
  BY <1>1, NoBlobTyped, ImageTyped DEF IndInv, CleanInv
<1> QED BY <1>1, <1>3, <1>4, ReadLoopKeeps

LEMMA EofKeeps ==
  ASSUME IndInv, Eof \/ GoDown PROVE IndInv'
<1>1. /\ UNCHANGED <<work, alive, dev, toDrv, toHost, ingest, frame, cl, next, cur, clean>>
      /\ snap' \in {snap, Invalid}
  BY DEF Eof, GoDown, imageVars
<1>2. Invalid \in [exp : Texts, ftype : Texts, upload : Texts, win : Windows]
  BY Listed, WindowTyped DEF Invalid
<1>3. /\ dev' \in Drivers /\ frame' \in Images /\ Right(frame') /\ Right(dev'.busy)
      /\ snap' \in [exp : Texts, ftype : Texts, upload : Texts, win : Windows]
      /\ ingest' \in Elements /\ toHost' \in Seq(Elements)
  BY <1>1, <1>2 DEF IndInv, TypedInv, PipeInv
<1>4. clean => /\ dev'.busy.e \in {0, cur} /\ frame'.e \in {0, cur}
               /\ ingest'.image.e \in {0, cur} /\ toHost' \in Seq(Of(cur))
  BY <1>1 DEF IndInv, CleanInv
<1> QED BY <1>1, <1>3, <1>4, ReadLoopKeeps

LEMMA DieKeeps ==
  ASSUME IndInv, Die PROVE IndInv'
<1>1. /\ UNCHANGED <<work, toHost, snap, frame, ingest, next, cur, clean>>
      /\ alive' = FALSE /\ toDrv' = << >> /\ dev' = [dev EXCEPT !.busy = NoImage]
  BY DEF Die, imageVars
<1>2. dev' \in Drivers /\ dev'.busy = NoImage
  BY <1>1, ImageTyped DEF IndInv, TypedInv, Drivers
<1>3. cl' = [c \in Clients |-> IF cl[c] = Idle THEN Idle
                               ELSE [cl[c] EXCEPT !.quiet = FALSE, !.mine = FALSE]]
  BY DEF Die
<1>4. ASSUME NEW c \in Clients
      PROVE  /\ cl'[c] \in Requests /\ Holds(cl'[c], << >>, dev', FALSE)
             /\ cl'[c].req = cl[c].req /\ cl'[c].pc = cl[c].pc /\ cl'[c].e = cl[c].e
  <2>1. cl[c] \in Requests /\ Holds(cl[c], toDrv, dev, alive)
    BY DEF IndInv, TypedInv, RequestInv
  <2>2. CASE cl[c] = Idle
    <3>1. cl'[c] = cl[c]
      BY <1>3, <2>2
    <3>2. Idle.req = None /\ ~Idle.mine
      BY DEF Idle
    <3> QED BY <2>1, <2>2, <3>1, <3>2 DEF Holds, None
  <2>3. CASE cl[c] # Idle
    <3>1. cl'[c] = [cl[c] EXCEPT !.quiet = FALSE, !.mine = FALSE]
      BY <1>3, <2>3
    <3>2. /\ cl'[c] \in Requests /\ ~cl'[c].mine /\ ~cl'[c].quiet /\ cl'[c].req = cl[c].req
          /\ cl'[c].pc = cl[c].pc /\ cl'[c].e = cl[c].e /\ cl'[c].w = cl[c].w
          /\ cl'[c].elem = cl[c].elem
      BY <2>1, <3>1 DEF Requests
    <3> QED BY <2>1, <3>2 DEF Holds
  <2> QED BY <2>2, <2>3
<1>5. cl' \in [Clients -> Requests]
  BY <1>3, <1>4
<1>6. TypedInv'
  <2>1. toDrv' \in Seq(Commands)
    <3>1. << >> \in Seq(Commands)
      OBVIOUS
    <3> QED BY <1>1, <3>1, Zenon
  <2> QED BY <1>1, <1>2, <1>5, <2>1 DEF IndInv, TypedInv
<1>7. CleanInv'
  <2>1. toDrv' \in Seq(Of(cur)) /\ dev'.busy.e = 0
    BY <1>1, <1>2, ImageTyped
  <2> QED BY <1>1, <1>4, <2>1 DEF IndInv, CleanInv
<1>8. PipeInv'
  <2>1. Len(<< >>) = 0 /\ Right(dev'.busy)
    BY <1>2, ImageTyped
  <2> QED BY <1>1, <2>1 DEF IndInv, PipeInv, OwnTypes, OneWindow
<1>9. RequestInv'
  BY <1>1, <1>4 DEF RequestInv
<1> QED BY <1>6, <1>7, <1>8, <1>9 DEF IndInv

(***************************************************************************)
(* Commands.                                                                *)
(***************************************************************************)
\* What holds of the pipe after a step that may have sent a command.
Carries ==
  /\ toDrv' \in Seq(Commands) /\ (~alive => toDrv' = << >>)
  /\ clean => toDrv' \in Seq(Of(cur))
  /\ OwnTypes(toDrv', dev.ftype) /\ OneWindow(toDrv', dev.win)

\* A command that sets neither the frame type nor the window leaves a request what
\* it holds.
LEMMA HoldsAppend ==
  ASSUME NEW r, NEW q \in Seq(Commands), NEW m \in Commands, NEW d, NEW up,
         m.k \notin {"ftype", "win"}, Holds(r, q, d, up)
  PROVE  Holds(r, Append(q, m), d, up)
<1>1. Len(q) \in 0..Len(q)
  OBVIOUS
<1>2. \A t : Stands(q, d.ftype, t, Len(q)) => Stands(Append(q, m), d.ftype, t, Len(Append(q, m)))
  BY <1>1, StandsAppend
<1>3. NoWindow(q) => NoWindow(Append(q, m))
  <2>1. /\ Len(Append(q, m)) = Len(q) + 1 /\ Append(q, m)[Len(q) + 1] = m
        /\ \A l \in 1..Len(q) : Append(q, m)[l] = q[l]
        /\ \A l \in 1..(Len(q) + 1) : l = Len(q) + 1 \/ l \in 1..Len(q)
    OBVIOUS
  <2> QED BY <2>1 DEF NoWindow
<1> QED BY <1>2, <1>3 DEF Holds

\* A command other than a frame type or a window, for an exposure only with the
\* frame type that stands and of the current number.
Fits(m) ==
  /\ m \in Commands /\ m.k \notin {"ftype", "win"}
  /\ m.image.mine => Stands(toDrv, dev.ftype, FrameType(Light(m.image.e)), Len(toDrv))
  /\ clean => m.image.e \in {0, cur}

LEMMA AppendCarries ==
  ASSUME IndInv, alive, NEW m, Fits(m), toDrv' = Append(toDrv, m)
  PROVE  Carries /\ \A r : Holds(r, toDrv, dev, alive) => Holds(r, toDrv', dev, alive)
<1>1. /\ toDrv \in Seq(Commands) /\ m \in Commands /\ m.k \notin {"ftype", "win"}
      /\ Len(toDrv) \in 0..Len(toDrv) /\ toDrv' \in Seq(Commands)
  BY DEF IndInv, TypedInv, Fits
<1>2. \A r : Holds(r, toDrv, dev, alive) => Holds(r, toDrv', dev, alive)
  BY <1>1, HoldsAppend
<1>3. m.image.mine => Stands(Append(toDrv, m), dev.ftype, FrameType(Light(m.image.e)), Len(Append(toDrv, m)))
  BY <1>1, StandsAppend DEF Fits
<1>4. OwnTypes(Append(toDrv, m), dev.ftype) /\ OneWindow(Append(toDrv, m), dev.win)
  BY <1>1, <1>3, PipeAppend DEF IndInv, PipeInv
<1>5. clean => m \in Of(cur) /\ toDrv \in Seq(Of(cur))
  BY <1>1 DEF Fits, Of, Commands, IndInv, CleanInv
<1>6. clean => toDrv' \in Seq(Of(cur))
  BY <1>5
<1> QED BY <1>1, <1>2, <1>4, <1>6 DEF Carries

LEMMA SameCarries ==
  ASSUME IndInv, UNCHANGED toDrv
  PROVE  Carries /\ \A r : Holds(r, toDrv, dev, alive) => Holds(r, toDrv', dev, alive)
BY DEF IndInv, TypedInv, CleanInv, PipeInv, Carries

LEMMA SentCarries ==
  ASSUME IndInv, NEW m, Fits(m), Sent(m)
  PROVE  Carries /\ \A r : Holds(r, toDrv, dev, alive) => Holds(r, toDrv', dev, alive)
<1>1. CASE alive /\ toDrv' = Append(toDrv, m)
  BY <1>1, AppendCarries
<1>2. CASE UNCHANGED toDrv
  BY <1>2, SameCarries
<1> QED BY <1>1, <1>2 DEF Sent

\* A command without an image fits.
LEMMA PlainFits ==
  ASSUME NEW k \in Kinds, NEW s \in Texts, k \notin {"ftype", "win"}
  PROVE  Fits(Element(k, s))
BY ElementTyped, ImageTyped DEF Fits

LEMMA ReadKeeps ==
  ASSUME IndInv, Read PROVE IndInv'
<1> DEFINE el == Head(toHost)
<1>1. /\ UNCHANGED <<work, alive, dev, ingest, frame, cl, next, cur, clean>>
      /\ toHost # << >> /\ toHost' = Tail(toHost)
  BY DEF Read, imageVars
<1>2. \A S : toHost \in Seq(S) => el \in S /\ toHost' \in Seq(S)
  BY <1>1
<1>3. el \in Elements /\ toHost' \in Seq(Elements)
  BY <1>2 DEF IndInv, TypedInv
<1>4. el.s \in Texts /\ el.win \in Windows
  BY <1>3 DEF Elements, Messages
<1>5. snap' = [exp    |-> IF el.k = "exp" THEN el.s ELSE snap.exp,
               upload |-> IF el.k = "upload" THEN el.s ELSE snap.upload,
               win    |-> IF el.k = "win" THEN el.win ELSE snap.win,
               ftype  |-> IF el.k = "win" THEN "FRAME_LIGHT" ELSE snap.ftype]
  BY DEF Read
<1> HIDE DEF el
<1>6. snap' \in [exp : Texts, ftype : Texts, upload : Texts, win : Windows]
  BY <1>4, <1>5, Listed DEF IndInv, TypedInv
<1>7. UNCHANGED toDrv \/ (alive /\ toDrv' = Append(toDrv, Element("upload", "CLIENT")))
  <2>1. toDrv \in Seq(Commands)
    BY DEF IndInv, TypedInv
  <2>2. toDrv \o << >> = toDrv
    BY <2>1
  <2>3. \A m : toDrv \o <<m>> = Append(toDrv, m)
    BY <2>1
  <2>4. \/ UNCHANGED toDrv \/ toDrv' = toDrv \o << >>
        \/ alive /\ toDrv' = toDrv \o <<Element("upload", "CLIENT")>>
    BY DEF Read, AssertUploadClient
  <2> QED BY <2>2, <2>3, <2>4, Zenon
<1>8. Carries /\ \A r : Holds(r, toDrv, dev, alive) => Holds(r, toDrv', dev, alive)
  <2>1. Fits(Element("upload", "CLIENT"))
    BY Listed, PlainFits
  <2> QED BY <1>7, <2>1, AppendCarries, SameCarries
<1>9. TypedInv'
  BY <1>1, <1>3, <1>6, <1>8 DEF IndInv, TypedInv, Carries
<1>10. CleanInv'
  BY <1>1, <1>2, <1>8 DEF IndInv, CleanInv, Carries
<1>11. PipeInv'
  BY <1>1, <1>8 DEF IndInv, PipeInv, Carries
<1>12. RequestInv'
  BY <1>1, <1>8 DEF IndInv, RequestInv
<1> QED BY <1>9, <1>10, <1>11, <1>12 DEF IndInv

(***************************************************************************)
(* Requests.                                                                *)
(***************************************************************************)
\* A step of a request that leaves the frame alone.
LEMMA StepKeeps ==
  ASSUME IndInv, Carries,
         UNCHANGED <<work, alive, dev, toHost, snap, ingest, frame>>,
         next' \in Nat, cur' \in Nat, clean' => clean /\ cur' = cur,
         cl' \in [Clients -> Requests],
         \A d \in Clients : Holds(cl'[d], toDrv', dev, alive),
         \A d \in Clients : clean' /\ cl'[d].req = "StartExposure" /\ cl'[d].pc = "write" => cl'[d].e = cur
  PROVE  IndInv'
<1>1. TypedInv'
  BY DEF IndInv, TypedInv, Carries
<1>2. CleanInv'
  BY DEF IndInv, CleanInv, Carries
<1>3. PipeInv'
  BY DEF IndInv, PipeInv, Carries
<1>4. RequestInv'
  BY DEF RequestInv
<1> QED BY <1>1, <1>2, <1>3, <1>4 DEF IndInv

LEMMA IdleTyped ==
  /\ Idle \in Requests /\ Idle.req = None /\ Idle.req # "StartExposure"
  /\ \A q, d, up : Holds(Idle, q, d, up)
<1>1. Idle \in Requests /\ Idle.req = None /\ ~Idle.mine
  BY Listed, WindowTyped DEF Idle, Requests
<1> QED BY <1>1 DEF Holds, None

\* One request changes and the others do not.
LEMMA OneKeeps ==
  ASSUME IndInv, Carries, \A r : Holds(r, toDrv, dev, alive) => Holds(r, toDrv', dev, alive),
         UNCHANGED <<work, alive, dev, toHost, snap, ingest, frame>>,
         next' \in Nat, cur' \in Nat, clean' => clean /\ cur' = cur,
         NEW c \in Clients, NEW r \in Requests, cl' = [cl EXCEPT ![c] = r],
         Holds(r, toDrv', dev, alive), r.req = "StartExposure" => r.pc # "write"
  PROVE  IndInv'
<1>1. cl \in [Clients -> Requests]
  BY DEF IndInv, TypedInv
<1>2. cl' \in [Clients -> Requests]
  BY <1>1
<1>3. \A d \in Clients : cl'[d] = cl[d] \/ cl'[d] = r
  BY <1>1
<1>4. \A d \in Clients : Holds(cl'[d], toDrv', dev, alive)
  BY <1>3 DEF IndInv, RequestInv
<1>5. \A d \in Clients : clean' /\ cl'[d].req = "StartExposure" /\ cl'[d].pc = "write" => cl'[d].e = cur
  BY <1>3 DEF IndInv, CleanInv
<1> QED BY <1>2, <1>4, <1>5, StepKeeps

LEMMA EndsKeeps ==
  ASSUME IndInv, Carries, \A r : Holds(r, toDrv, dev, alive) => Holds(r, toDrv', dev, alive),
         UNCHANGED <<work, alive, dev, toHost, snap, ingest, frame>>,
         next' \in Nat, cur' \in Nat, clean' => clean /\ cur' = cur,
         NEW c \in Clients, Ends(c)
  PROVE  IndInv'
BY IdleTyped, OneKeeps DEF Ends

\* A request that goes on, other than setFrame, holds what it held.
LEMMA GoesTo ==
  ASSUME cl \in [Clients -> Requests], NEW c \in Clients, NEW p \in Pcs, Goes(c, p),
         cl[c].req # "setFrame"
  PROVE  \E r \in Requests :
           /\ cl' = [cl EXCEPT ![c] = r] /\ r.req = cl[c].req /\ r.pc = p /\ r.e = cl[c].e
           /\ \A q, d, up : Holds(cl[c], q, d, up) => Holds(r, q, d, up)
<1> DEFINE r == [cl[c] EXCEPT !.pc = p]
<1>1. cl[c] \in Requests
  OBVIOUS
<1>2. /\ r \in Requests /\ r.pc = p /\ r.req = cl[c].req /\ r.e = cl[c].e /\ r.elem = cl[c].elem
      /\ r.w = cl[c].w /\ r.mine = cl[c].mine /\ r.quiet = cl[c].quiet
  BY <1>1 DEF Requests
<1>3. cl' = [cl EXCEPT ![c] = r]
  BY DEF Goes
<1> HIDE DEF r
<1>4. \A q, d, up : Holds(cl[c], q, d, up) => Holds(r, q, d, up)
  BY <1>2 DEF Holds
<1> QED BY <1>2, <1>3, <1>4

LEMMA GoesKeeps ==
  ASSUME IndInv, Carries, \A r : Holds(r, toDrv, dev, alive) => Holds(r, toDrv', dev, alive),
         UNCHANGED <<work, alive, dev, toHost, snap, ingest, frame>>,
         next' \in Nat, cur' \in Nat, clean' => clean /\ cur' = cur,
         NEW c \in Clients, NEW p \in Pcs, Goes(c, p), cl[c].req # "setFrame", p # "write"
  PROVE  IndInv'
<1>1. cl \in [Clients -> Requests] /\ Holds(cl[c], toDrv, dev, alive)
  BY DEF IndInv, TypedInv, RequestInv
<1>2. PICK r \in Requests :
           /\ cl' = [cl EXCEPT ![c] = r] /\ r.req = cl[c].req /\ r.pc = p /\ r.e = cl[c].e
           /\ \A q, d, up : Holds(cl[c], q, d, up) => Holds(r, q, d, up)
  BY <1>1, GoesTo
<1>3. Holds(r, toDrv', dev, alive)
  BY <1>1, <1>2
<1> QED BY <1>2, <1>3, OneKeeps

LEMMA BeginKeeps ==
  ASSUME IndInv, NEW c \in Clients, Begin(c) PROVE IndInv'
<1>1. /\ UNCHANGED <<work, alive, dev, toDrv, toHost, snap, ingest, frame, cur, clean>>
      /\ cur \in Nat /\ next \in Nat
  BY DEF Begin, driverVars, imageVars, IndInv, TypedInv
<1>2. Carries /\ \A r : Holds(r, toDrv, dev, alive) => Holds(r, toDrv', dev, alive)
  BY <1>1, SameCarries
<1>3. /\ next' \in Nat
      /\ \E r \in {"StartExposure", "SetSetCCDTemperature", "setFrame", "AbortExposure"}, e \in Nat,
            el \in {None, "X", "W"} :
           /\ cl' = [cl EXCEPT ![c] = Request(r, e, el)]
           /\ r = "setFrame" => el \in {"X", "W"}
           /\ r = "AbortExposure" => e = 0
  BY <1>1 DEF Begin
<1>4. ASSUME NEW r \in Reqs, NEW e \in Nat, NEW el \in Texts,
             r = "setFrame" => el \in {"X", "W"}, r = "AbortExposure" => e = 0,
             cl' = [cl EXCEPT ![c] = Request(r, e, el)]
      PROVE  IndInv'
  <2> DEFINE x == Request(r, e, el)
  <2>1. /\ x \in Requests /\ x.req = r /\ x.e = e /\ x.elem = el /\ x.pc = "begin" /\ ~x.mine
    BY Listed, WindowTyped DEF Request, Requests
  <2>2. cl' = [cl EXCEPT ![c] = x]
    BY <1>4
  <2> HIDE DEF x
  <2>3. Holds(x, toDrv', dev, alive)
    BY <1>4, <2>1 DEF Holds
  <2> QED BY <1>1, <1>2, <1>3, <2>1, <2>2, <2>3, OneKeeps
<1> QED BY <1>3, <1>4, Listed

LEMMA LookKeeps ==
  ASSUME IndInv, NEW c \in Clients, ExposureLook(c) PROVE IndInv'
<1>1. /\ UNCHANGED <<work, alive, dev, toDrv, toHost, snap, ingest, frame, cur, clean, next>>
      /\ cur \in Nat /\ next \in Nat
  BY DEF ExposureLook, driverVars, imageVars, IndInv, TypedInv
<1>2. Carries /\ \A r : Holds(r, toDrv, dev, alive) => Holds(r, toDrv', dev, alive)
  BY <1>1, SameCarries
<1>3. Ends(c) \/ \E p \in {"has", "ftype", "clear"} : Goes(c, p) /\ cl[c].req = "StartExposure"
  BY DEF ExposureLook, At
<1>4. CASE Ends(c)
  BY <1>1, <1>2, <1>4, EndsKeeps
<1>5. ASSUME NEW p \in {"has", "ftype", "clear"}, Goes(c, p), cl[c].req = "StartExposure"
      PROVE  IndInv'
  <2>1. p \in Pcs /\ p # "write" /\ cl[c].req # "setFrame"
    BY <1>5, Listed
  <2> QED BY <1>1, <1>2, <1>5, <2>1, GoesKeeps
<1> QED BY <1>3, <1>4, <1>5

LEMMA TypeKeeps ==
  ASSUME IndInv, NEW c \in Clients, ExposureType(c) PROVE IndInv'
<1>1. /\ UNCHANGED <<work, alive, dev, toHost, snap, ingest, frame, cur, clean, next>>
      /\ cur \in Nat /\ next \in Nat /\ toDrv \in Seq(Commands) /\ cl \in [Clients -> Requests]
      /\ alive \in BOOLEAN
  BY DEF ExposureType, imageVars, IndInv, TypedInv
<1> DEFINE t == FrameType(Light(cl[c].e))
           m == Element("ftype", t)
<1>2. /\ m \in Commands /\ m.k = "ftype" /\ m.s = t /\ ~m.image.mine /\ m.image.e = 0
  BY Listed, ElementTyped, ImageTyped DEF FrameType
<1>3. \/ /\ Sent(m)
         /\ cl' = [d \in Clients |-> IF d = c THEN [cl[c] EXCEPT !.pc = "clear", !.mine = alive]
                                     ELSE [cl[d] EXCEPT !.mine = FALSE]]
         /\ cl[c].req = "StartExposure"
      \/ UNCHANGED toDrv /\ Ends(c)
  BY DEF ExposureType, SendFails, At
<1> HIDE DEF m
<1>4. CASE UNCHANGED toDrv /\ Ends(c)
  BY <1>1, <1>4, SameCarries, EndsKeeps
<1>5. CASE /\ Sent(m)
           /\ cl' = [d \in Clients |-> IF d = c THEN [cl[c] EXCEPT !.pc = "clear", !.mine = alive]
                                       ELSE [cl[d] EXCEPT !.mine = FALSE]]
           /\ cl[c].req = "StartExposure"
  <2>1. (alive /\ toDrv' = Append(toDrv, m)) \/ (~alive /\ UNCHANGED toDrv)
    BY <1>5 DEF Sent
  <2>2. /\ Carries
        /\ alive => Stands(toDrv', dev.ftype, t, Len(toDrv'))
        /\ NoWindow(toDrv) => NoWindow(toDrv')
    <3>1. CASE alive /\ toDrv' = Append(toDrv, m)
      <4>1. OwnTypes(Append(toDrv, m), dev.ftype) /\ OneWindow(Append(toDrv, m), dev.win)
        BY <1>1, <1>2, PipeAppend DEF IndInv, PipeInv
      <4>2. clean => m \in Of(cur) /\ toDrv \in Seq(Of(cur))
        BY <1>2 DEF Of, Commands, IndInv, CleanInv
      <4>3. toDrv' \in Seq(Commands) /\ (clean => toDrv' \in Seq(Of(cur)))
        BY <1>1, <1>2, <3>1, <4>2
      <4>4. Stands(Append(toDrv, m), dev.ftype, t, Len(Append(toDrv, m)))
        BY <1>1, <1>2, StandsNow
      <4>5. NoWindow(toDrv) => NoWindow(Append(toDrv, m))
        <5>1. /\ Len(Append(toDrv, m)) = Len(toDrv) + 1 /\ Append(toDrv, m)[Len(toDrv) + 1] = m
              /\ \A l \in 1..Len(toDrv) : Append(toDrv, m)[l] = toDrv[l]
              /\ \A l \in 1..(Len(toDrv) + 1) : l = Len(toDrv) + 1 \/ l \in 1..Len(toDrv)
          BY <1>1
        <5> QED BY <1>2, <5>1 DEF NoWindow
      <4> HIDE DEF t
      <4> QED BY <3>1, <4>1, <4>3, <4>4, <4>5 DEF Carries
    <3>2. CASE ~alive /\ UNCHANGED toDrv
      BY <3>2, SameCarries
    <3> QED BY <2>1, <3>1, <3>2
  <2>3. ASSUME NEW d \in Clients, d # c
        PROVE  /\ cl'[d] \in Requests /\ Holds(cl'[d], toDrv', dev, alive)
               /\ cl'[d].req = cl[d].req /\ cl'[d].pc = cl[d].pc /\ cl'[d].e = cl[d].e
    <3>1. cl'[d] = [cl[d] EXCEPT !.mine = FALSE]
      BY <1>5, <2>3
    <3>2. cl[d] \in Requests /\ Holds(cl[d], toDrv, dev, alive)
      BY <1>1 DEF IndInv, RequestInv
    <3>3. /\ cl'[d] \in Requests /\ ~cl'[d].mine /\ cl'[d].quiet = cl[d].quiet /\ cl'[d].req = cl[d].req
          /\ cl'[d].pc = cl[d].pc /\ cl'[d].e = cl[d].e /\ cl'[d].w = cl[d].w
          /\ cl'[d].elem = cl[d].elem
      BY <3>1, <3>2 DEF Requests
    <3> QED BY <2>2, <3>2, <3>3 DEF Holds
  <2>4. /\ cl'[c] \in Requests /\ Holds(cl'[c], toDrv', dev, alive) /\ cl'[c].pc # "write"
    <3>1. cl'[c] = [cl[c] EXCEPT !.pc = "clear", !.mine = alive] /\ cl[c] \in Requests
      BY <1>1, <1>5
    <3>2. /\ cl'[c] \in Requests /\ (cl'[c].mine => alive) /\ cl'[c].req = "StartExposure"
          /\ cl'[c].pc = "clear" /\ cl'[c].e = cl[c].e
      BY <1>1, <1>5, <3>1, Listed DEF Requests
    <3> QED BY <2>2, <3>2 DEF Holds
  <2>5. cl' \in [Clients -> Requests]
    <3>1. \A d \in Clients : cl'[d] \in Requests
      BY <2>3, <2>4
    <3> QED BY <1>5, <3>1
  <2>6. \A d \in Clients : Holds(cl'[d], toDrv', dev, alive)
    BY <2>3, <2>4
  <2>7. \A d \in Clients : clean' /\ cl'[d].req = "StartExposure" /\ cl'[d].pc = "write" => cl'[d].e = cur
    BY <1>1, <2>3, <2>4 DEF IndInv, CleanInv
  <2> QED BY <1>1, <2>2, <2>5, <2>6, <2>7, StepKeeps
<1> QED BY <1>3, <1>4, <1>5

\* The frame is cleared: from now on it is the image of this exposure that counts.
LEMMA WipeKeeps ==
  ASSUME IndInv, NEW c \in Clients, Wipe(c), Goes(c, "write"), cl[c].req # "setFrame",
         UNCHANGED <<work, alive, dev, toDrv, toHost, snap, ingest, next>>
  PROVE  IndInv'
<1>1. /\ cl \in [Clients -> Requests] /\ cl[c] \in Requests /\ cl[c].e \in Nat
      /\ toDrv \in Seq(Commands) /\ toHost \in Seq(Elements)
  BY DEF IndInv, TypedInv, Requests
<1>2. PICK r \in Requests :
           /\ cl' = [cl EXCEPT ![c] = r] /\ r.req = cl[c].req /\ r.pc = "write" /\ r.e = cl[c].e
           /\ \A q, d, up : Holds(cl[c], q, d, up) => Holds(r, q, d, up)
  BY <1>1, GoesTo, Listed
<1>3. /\ cl' \in [Clients -> Requests] /\ cl'[c] = r /\ \A d \in Clients : d # c => cl'[d] = cl[d]
  BY <1>1, <1>2
<1>4. frame' = NoImage /\ cur' = cl[c].e /\ clean' = NothingUnderWay(c)
  BY DEF Wipe
<1>5. TypedInv'
  BY <1>1, <1>3, <1>4, ImageTyped DEF IndInv, TypedInv
<1>6. CleanInv'
  <2> SUFFICES ASSUME NothingUnderWay(c)
               PROVE  /\ NoImage.e \in {0, cur'} /\ dev.busy.e \in {0, cur'}
                      /\ ingest.image.e \in {0, cur'}
                      /\ toDrv \in Seq(Of(cur')) /\ toHost \in Seq(Of(cur'))
                      /\ \A d \in Clients : cl'[d].req = "StartExposure" /\ cl'[d].pc = "write"
                                             => cl'[d].e = cur'
    BY <1>4 DEF CleanInv
  <2>1. NoImage.e = 0 /\ dev.busy.e = 0 /\ ingest.image.e = 0
    BY ImageTyped, NoBlobTyped DEF NothingUnderWay
  <2>2. \A i \in 1..Len(toDrv) : toDrv[i] \in Of(cur')
    <3> TAKE i \in 1..Len(toDrv)
    <3>1. toDrv[i] \in Commands /\ toDrv[i].k # "expose"
      BY <1>1 DEF NothingUnderWay, NoneUnderWay
    <3> QED BY <3>1 DEF Commands, Of
  <2>3. \A i \in 1..Len(toHost) : toHost[i] \in Of(cur')
    <3> TAKE i \in 1..Len(toHost)
    <3>1. toHost[i] \in Elements /\ toHost[i].k # "blob"
      BY <1>1 DEF NothingUnderWay
    <3> QED BY <3>1 DEF Elements, Of
  <2>4. ASSUME NEW A, NEW B, NEW q \in Seq(A), \A i \in 1..Len(q) : q[i] \in B
        PROVE  q \in Seq(B)
    BY <2>4
  <2>5. toDrv \in Seq(Of(cur')) /\ toHost \in Seq(Of(cur'))
    BY <1>1, <2>2, <2>3, <2>4
  <2>6. \A d \in Clients : cl'[d].req = "StartExposure" /\ cl'[d].pc = "write" => cl'[d].e = cur'
    BY <1>2, <1>3, <1>4 DEF NothingUnderWay
  <2> QED BY <2>1, <2>5, <2>6
<1>7. PipeInv'
  BY <1>4, ImageTyped DEF IndInv, PipeInv
<1>8. RequestInv'
  BY <1>2, <1>3 DEF IndInv, RequestInv
<1> QED BY <1>5, <1>6, <1>7, <1>8 DEF IndInv

LEMMA ClearKeeps ==
  ASSUME IndInv, NEW c \in Clients, ExposureClear(c) \/ AbortClear(c) PROVE IndInv'
<1>1. /\ UNCHANGED <<work, alive, dev, toDrv, toHost, snap, ingest, next>>
      /\ Wipe(c) /\ Goes(c, "write") /\ cl[c].req # "setFrame"
  BY DEF ExposureClear, AbortClear, ClearFrame, At, driverVars
<1> QED BY <1>1, WipeKeeps

LEMMA WriteKeeps ==
  ASSUME IndInv, NEW c \in Clients, ExposureWrite(c) PROVE IndInv'
<1>1. /\ UNCHANGED <<work, alive, dev, toHost, snap, ingest, frame, cur, clean, next>>
      /\ cur \in Nat /\ next \in Nat /\ cl[c] \in Requests
      /\ cl[c].req = "StartExposure" /\ cl[c].pc = "write" /\ cl[c].req # "setFrame"
      /\ "record" \in Pcs
  BY Listed DEF ExposureWrite, At, imageVars, IndInv, TypedInv
<1> DEFINE m == Expose(cl[c].e, cl[c].mine)
<1>2. Fits(m)
  <2>1. cl[c].e \in Nat /\ cl[c].mine \in BOOLEAN
    BY <1>1 DEF Requests
  <2>2. /\ m \in Commands /\ m.k = "expose" /\ m.image.e = cl[c].e /\ (m.image.mine <=> cl[c].mine)
    BY <2>1, ExposeTyped
  <2>3. cl[c].mine => Stands(toDrv, dev.ftype, FrameType(Light(cl[c].e)), Len(toDrv))
    BY DEF IndInv, RequestInv, Holds
  <2>4. clean => cl[c].e = cur
    BY <1>1 DEF IndInv, CleanInv
  <2> HIDE DEF m
  <2> QED BY <2>2, <2>3, <2>4 DEF Fits
<1>3. \/ Sent(m) /\ Goes(c, "record")
      \/ Ends(c) /\ UNCHANGED toDrv
  BY DEF ExposureWrite
<1> HIDE DEF m
<1>4. CASE Sent(m) /\ Goes(c, "record")
  <2>1. Carries /\ \A r : Holds(r, toDrv, dev, alive) => Holds(r, toDrv', dev, alive)
    BY <1>2, <1>4, SentCarries
  <2> QED BY <1>1, <1>4, <2>1, GoesKeeps
<1>5. CASE Ends(c) /\ UNCHANGED toDrv
  BY <1>1, <1>5, SameCarries, EndsKeeps
<1> QED BY <1>3, <1>4, <1>5

LEMMA RecordKeeps ==
  ASSUME IndInv, NEW c \in Clients, ExposureRecord(c) PROVE IndInv'
<1>1. /\ UNCHANGED <<work, alive, dev, toDrv, toHost, snap, ingest, frame, cur, clean, next>>
      /\ cur \in Nat /\ next \in Nat /\ Ends(c)
  BY DEF ExposureRecord, driverVars, imageVars, IndInv, TypedInv
<1> QED BY <1>1, SameCarries, EndsKeeps

LEMMA AbortKeeps ==
  ASSUME IndInv, NEW c \in Clients, AbortWrite(c) PROVE IndInv'
<1>1. /\ UNCHANGED <<work, alive, dev, toHost, snap, ingest, frame, next>>
      /\ next \in Nat /\ Ends(c) /\ cur' = 0 /\ clean' = (clean /\ cur = 0)
      /\ Sent(Element("abort", None)) \/ UNCHANGED toDrv
  BY DEF AbortWrite, IndInv, TypedInv
<1>2. Carries /\ \A r : Holds(r, toDrv, dev, alive) => Holds(r, toDrv', dev, alive)
  <2>1. Fits(Element("abort", None))
    BY Listed, PlainFits
  <2> QED BY <1>1, <2>1, SentCarries, SameCarries
<1>3. cur' \in Nat /\ (clean' => clean /\ cur' = cur)
  BY <1>1
<1> QED BY <1>1, <1>2, <1>3, EndsKeeps

LEMMA TemperatureKeeps ==
  ASSUME IndInv, NEW c \in Clients, SetSetCCDTemperature(c) PROVE IndInv'
<1>1. /\ UNCHANGED <<work, alive, dev, toHost, snap, ingest, frame, cur, clean, next>>
      /\ cur \in Nat /\ next \in Nat /\ cl[c].req # "setFrame" /\ "target" \in Pcs
      /\ \/ Sent(Element("temp", None)) /\ Goes(c, "target")
         \/ Ends(c) /\ UNCHANGED toDrv
  BY Listed DEF SetSetCCDTemperature, At, imageVars, IndInv, TypedInv
<1>2. CASE Sent(Element("temp", None)) /\ Goes(c, "target")
  <2>1. Fits(Element("temp", None))
    BY Listed, PlainFits
  <2>2. Carries /\ \A r : Holds(r, toDrv, dev, alive) => Holds(r, toDrv', dev, alive)
    BY <1>2, <2>1, SentCarries
  <2> QED BY <1>1, <1>2, <2>2, GoesKeeps
<1>3. CASE Ends(c) /\ UNCHANGED toDrv
  BY <1>1, <1>3, SameCarries, EndsKeeps
<1> QED BY <1>1, <1>2, <1>3

\* setFrame looks: it knows the driver's window when nothing that changes it is
\* under way.
LEMMA FrameLooks ==
  ASSUME IndInv, NEW c \in Clients, At(c, "setFrame", "begin"), snap.win # NoWin, NEW val \in {0, 1},
         cl' = [cl EXCEPT ![c].pc = "send", ![c].w = Resend(snap.win, cl[c].elem, val),
                          ![c].quiet = (alive /\ snap.win = dev.win /\ NoneUnderWay("win"))],
         UNCHANGED <<work, alive, dev, toDrv, toHost, snap, ingest, frame, cur, clean, next>>
  PROVE  IndInv'
<1> DEFINE knows == alive /\ snap.win = dev.win /\ NoneUnderWay("win")
           v == Resend(snap.win, cl[c].elem, val)
           r == [cl[c] EXCEPT !.pc = "send", !.w = v, !.quiet = knows]
<1>1. /\ cl \in [Clients -> Requests] /\ cl[c] \in Requests /\ Holds(cl[c], toDrv, dev, alive)
      /\ cl[c].req = "setFrame" /\ snap.win \in Window /\ cur \in Nat /\ next \in Nat
      /\ dev \in Drivers /\ knows \in BOOLEAN
  BY DEF IndInv, TypedInv, RequestInv, At, Windows
<1>2. cl' = [cl EXCEPT ![c] = r]
  BY <1>1
<1>3. cl[c].elem \in {"X", "W"}
  BY <1>1 DEF Holds
<1>4. v \in Window /\ (snap.win = dev.win => Keeps(v, cl[c].elem, dev.win))
  BY <1>1, <1>3 DEF Resend, Window, Keeps
<1>5. knows => alive /\ snap.win = dev.win /\ NoWindow(toDrv)
  BY DEF NoneUnderWay, NoWindow
<1> HIDE DEF v, knows
<1>6. /\ r \in Requests /\ r.req = "setFrame" /\ r.pc = "send" /\ r.w = v /\ (r.quiet <=> knows)
      /\ r.elem = cl[c].elem /\ (r.mine <=> cl[c].mine) /\ r.e = cl[c].e
  BY <1>1, <1>4, Listed, WindowTyped DEF Requests
<1> HIDE DEF r
<1>7. Holds(r, toDrv', dev, alive)
  BY <1>1, <1>3, <1>4, <1>5, <1>6 DEF Holds
<1> QED BY <1>1, <1>2, <1>6, <1>7, SameCarries, OneKeeps

\* setFrame sends: every other request loses its knowledge of the window.
LEMMA FrameSends ==
  ASSUME IndInv, NEW c \in Clients, At(c, "setFrame", "send"),
         Sent(SetWin(cl[c].w, IF cl[c].quiet THEN cl[c].elem ELSE None)),
         cl' = [d \in Clients |-> IF d = c THEN Idle ELSE [cl[d] EXCEPT !.quiet = cl[d] = Idle]],
         UNCHANGED <<work, alive, dev, toHost, snap, ingest, frame, cur, clean, next>>
  PROVE  IndInv'
<1> DEFINE el == IF cl[c].quiet THEN cl[c].elem ELSE None
           m == SetWin(cl[c].w, el)
<1>1. /\ cl \in [Clients -> Requests] /\ cl[c] \in Requests /\ Holds(cl[c], toDrv, dev, alive)
      /\ toDrv \in Seq(Commands) /\ cur \in Nat /\ next \in Nat
  BY DEF IndInv, TypedInv, RequestInv
<1>2. /\ cl[c].w \in Window /\ cl[c].elem \in {"X", "W"}
      /\ cl[c].quiet => NoWindow(toDrv) /\ Keeps(cl[c].w, cl[c].elem, dev.win)
  BY <1>1 DEF At, Holds
<1>3. el \in Texts /\ (el # None => NoWindow(toDrv) /\ Keeps(cl[c].w, el, dev.win))
  BY <1>2, Listed
<1>4. (alive /\ toDrv' = Append(toDrv, m)) \/ (~alive /\ UNCHANGED toDrv)
  BY DEF Sent
<1> HIDE DEF el
<1>5. m \in Commands /\ m.k = "win" /\ m.s = el /\ m.win = cl[c].w /\ ~m.image.mine /\ m.image.e = 0
  BY <1>2, <1>3, SetWinTyped, ImageTyped
<1> HIDE DEF m
<1>6. /\ Carries
      /\ \A t : alive /\ Stands(toDrv, dev.ftype, t, Len(toDrv)) => Stands(toDrv', dev.ftype, t, Len(toDrv'))
  <2>1. CASE alive /\ toDrv' = Append(toDrv, m)
    <3>1. OwnTypes(Append(toDrv, m), dev.ftype) /\ OneWindow(Append(toDrv, m), dev.win)
      <4>1. OwnTypes(toDrv, dev.ftype) /\ OneWindow(toDrv, dev.win)
        BY DEF IndInv, PipeInv
      <4> QED BY <1>1, <1>3, <1>5, <4>1, PipeAppend
    <3>2. clean => m \in Of(cur) /\ toDrv \in Seq(Of(cur))
      BY <1>5 DEF Of, Commands, IndInv, CleanInv
    <3>3. toDrv' \in Seq(Commands) /\ (clean => toDrv' \in Seq(Of(cur)))
      BY <1>1, <1>5, <2>1, <3>2
    <3>4. \A t : Stands(toDrv, dev.ftype, t, Len(toDrv)) =>
                   Stands(Append(toDrv, m), dev.ftype, t, Len(Append(toDrv, m)))
      <4>1. Len(toDrv) \in 0..Len(toDrv)
        BY <1>1
      <4> QED BY <1>1, <1>5, <4>1, StandsAppend
    <3> QED BY <2>1, <3>1, <3>3, <3>4 DEF Carries
  <2>2. CASE ~alive /\ UNCHANGED toDrv
    BY <2>2, SameCarries
  <2> QED BY <1>4, <2>1, <2>2
<1>7. ASSUME NEW d \in Clients, d # c
      PROVE  /\ cl'[d] \in Requests /\ Holds(cl'[d], toDrv', dev, alive)
             /\ cl'[d].req = cl[d].req /\ cl'[d].pc = cl[d].pc /\ cl'[d].e = cl[d].e
  <2> DEFINE idle == cl[d] = Idle
  <2>1. /\ cl'[d] = [cl[d] EXCEPT !.quiet = idle] /\ idle \in BOOLEAN
        /\ cl[d] \in Requests /\ Holds(cl[d], toDrv, dev, alive)
    BY <1>1, <1>7 DEF IndInv, RequestInv
  <2>2. idle => cl[d].req = None
    BY IdleTyped
  <2> HIDE DEF idle
  <2>3. /\ cl'[d] \in Requests /\ (cl'[d].quiet <=> idle) /\ cl'[d].req = cl[d].req
        /\ cl'[d].pc = cl[d].pc /\ cl'[d].e = cl[d].e /\ cl'[d].w = cl[d].w
        /\ cl'[d].elem = cl[d].elem /\ cl'[d].mine = cl[d].mine
    BY <2>1 DEF Requests
  <2> QED BY <1>6, <2>1, <2>2, <2>3 DEF Holds, None
<1>8. cl'[c] = Idle
  OBVIOUS
<1>9. cl' \in [Clients -> Requests]
  <2>1. \A d \in Clients : cl'[d] \in Requests
    BY <1>7, <1>8, IdleTyped
  <2> QED BY <2>1
<1>10. \A d \in Clients : Holds(cl'[d], toDrv', dev, alive)
  BY <1>7, <1>8, IdleTyped
<1>11. \A d \in Clients : clean' /\ cl'[d].req = "StartExposure" /\ cl'[d].pc = "write" => cl'[d].e = cur
  BY <1>7, <1>8, IdleTyped DEF IndInv, CleanInv
<1> QED BY <1>1, <1>6, <1>9, <1>10, <1>11, StepKeeps

LEMMA FrameKeeps ==
  ASSUME IndInv, NEW c \in Clients, SetFrame(c) PROVE IndInv'
<1>1. /\ UNCHANGED <<work, alive, dev, toHost, snap, ingest, frame, cur, clean, next>>
      /\ cur \in Nat /\ next \in Nat
  BY DEF SetFrame, imageVars, IndInv, TypedInv
<1>2. CASE Ends(c) /\ UNCHANGED toDrv
  BY <1>1, <1>2, SameCarries, EndsKeeps
<1>3. CASE /\ At(c, "setFrame", "begin") /\ UNCHANGED toDrv /\ snap.win # NoWin
           /\ \E val \in {0, 1} :
                  cl' = [cl EXCEPT ![c].pc = "send", ![c].w = Resend(snap.win, cl[c].elem, val),
                                   ![c].quiet = (alive /\ snap.win = dev.win /\ NoneUnderWay("win"))]
  BY <1>1, <1>3, FrameLooks
<1>4. CASE /\ At(c, "setFrame", "send")
           /\ Sent(SetWin(cl[c].w, IF cl[c].quiet THEN cl[c].elem ELSE None))
           /\ cl' = [d \in Clients |-> IF d = c THEN Idle ELSE [cl[d] EXCEPT !.quiet = cl[d] = Idle]]
  BY <1>1, <1>4, FrameSends
<1> QED BY <1>2, <1>3, <1>4 DEF SetFrame, SendFails

(***************************************************************************)
(* The theorems.                                                            *)
(***************************************************************************)
LEMMA InitIndInv == Init => IndInv
<1> SUFFICES ASSUME Init PROVE IndInv
  OBVIOUS
<1>1. /\ work \in Workloads /\ alive = FALSE /\ toDrv = << >> /\ toHost = << >> /\ snap = Invalid
      /\ dev = [upload |-> "CLIENT", ftype |-> "FRAME_LIGHT", win |-> Corner, busy |-> NoImage]
      /\ ingest = NoBlob /\ frame = NoImage /\ cl = [c \in Clients |-> Idle] /\ next = 1 /\ cur = 0
  BY DEF Init
<1>2. dev \in Drivers /\ dev.busy = NoImage
  BY <1>1, Listed, ImageTyped, WindowTyped DEF Drivers
<1>3. snap \in [exp : Texts, ftype : Texts, upload : Texts, win : Windows]
  BY <1>1, Listed, WindowTyped DEF Invalid
<1>4. \A S : << >> \in Seq(S)
  OBVIOUS
<1>5. cl \in [Clients -> Requests] /\ \A c \in Clients : cl[c] = Idle
  BY <1>1, IdleTyped
<1>6. TypedInv
  BY <1>1, <1>2, <1>3, <1>4, <1>5, NoBlobTyped, ImageTyped DEF TypedInv
<1>7. CleanInv
  BY <1>1, <1>2, <1>4, <1>5, NoBlobTyped, ImageTyped, IdleTyped DEF CleanInv
<1>8. PipeInv
  <2>1. Len(<< >>) = 0
    OBVIOUS
  <2> QED BY <1>1, <1>2, <2>1, ImageTyped DEF PipeInv, OwnTypes, OneWindow
<1>9. RequestInv
  BY <1>5, IdleTyped DEF RequestInv
<1> QED BY <1>6, <1>7, <1>8, <1>9 DEF IndInv

LEMMA NextIndInv == IndInv /\ [Next]_vars => IndInv'
<1> SUFFICES ASSUME IndInv, [Next]_vars PROVE IndInv'
  OBVIOUS
<1>1. CASE UNCHANGED vars
  BY <1>1 DEF vars, driverVars, imageVars, IndInv, TypedInv, CleanInv, PipeInv, RequestInv
<1>2. CASE Driver
  BY <1>2, TakeKeeps, FinishKeeps DEF Driver
<1>3. CASE ReadLoop
  BY <1>3, ReadKeeps, IngestKeeps, StoreKeeps, EofKeeps DEF ReadLoop
<1>4. CASE Spawn
  BY <1>4, SpawnKeeps
<1>5. CASE Die
  BY <1>5, DieKeeps
<1>6. ASSUME NEW c \in Clients, Begin(c) PROVE IndInv'
  BY <1>6, BeginKeeps
<1>7. ASSUME NEW c \in Clients, Step(c) PROVE IndInv'
  BY <1>7, LookKeeps, TypeKeeps, ClearKeeps, WriteKeeps, RecordKeeps, AbortKeeps, FrameKeeps,
     TemperatureKeeps DEF Step
<1> QED BY <1>1, <1>2, <1>3, <1>4, <1>5, <1>6, <1>7 DEF Next

\* The inductive invariant: what is on its way in the pipes, in IngestBlob and in
\* the requests was asked with what it is thought to have been asked with.
THEOREM CameraInductive == Spec => []IndInv
BY InitIndInv, NextIndInv, PTL DEF Spec

\* Spec => []NoStaleImage: the frame that StartExposure cleared shows an earlier
\* exposure's image only when that image was under way as it was cleared.
THEOREM ImageIsCurrent == Spec => []NoStaleImage
<1>1. IndInv => NoStaleImage
  BY DEF IndInv, CleanInv, NoStaleImage
<1> QED BY <1>1, CameraInductive, PTL

LEMMA TypeSaysLight ==
  ASSUME NEW light \in BOOLEAN, NEW t, t = FrameType(light)
  PROVE  (t = "FRAME_LIGHT") = light
BY DEF FrameType

\* Spec => []ImageAsAsked: the frame type an exposure sent first is the one its image
\* was taken with, however commands, echoes and other requests interleave.
THEOREM ImageHasItsType == Spec => []ImageAsAsked
<1>1. IndInv => ImageAsAsked
  <2> SUFFICES ASSUME IndInv, frame.mine PROVE (frame.t = "FRAME_LIGHT") = Light(frame.e)
    BY DEF ImageAsAsked
  <2>1. frame.t = FrameType(Light(frame.e))
    BY DEF IndInv, PipeInv, Right
  <2>2. Light(frame.e) \in BOOLEAN
    BY DEF Light
  <2> QED BY <2>1, <2>2, TypeSaysLight
<1> QED BY <1>1, CameraInductive, PTL

\* Only a window command of a running child, or a new child, changes the window.
LEMMA WindowStep ==
  ASSUME IndInv, Next, dev'.win # dev.win
  PROVE  Take \/ Spawn
<1>1. CASE Finish
  BY <1>1 DEF Finish, IndInv, TypedInv, Drivers
<1>2. CASE Die
  BY <1>2 DEF Die, IndInv, TypedInv, Drivers
<1>3. CASE ReadLoop
  BY <1>3 DEF ReadLoop, Read, IngestBlob, StoreBlob, Eof, GoDown, driverVars
<1>4. ASSUME NEW c \in Clients, Begin(c) \/ Step(c) PROVE dev' = dev
  BY <1>4 DEF Begin, Step, ExposureLook, ExposureType, ExposureClear, ExposureWrite, ExposureRecord,
     AbortClear, AbortWrite, SetFrame, SetSetCCDTemperature, driverVars
<1> QED BY <1>1, <1>2, <1>3, <1>4 DEF Next, Driver

\* Spec => WindowKeepsOthers: a window command whose request saw the driver's window
\* with nothing under way, and no other window command sent between its look and its
\* own send, changes only its own member, whatever is sent before it is taken up.
THEOREM WindowMembersKept == Spec => WindowKeepsOthers
<1> DEFINE A == \A el \in {"X", "W"} :
                  dev.win'[el] # dev.win[el] /\ toDrv # << >> /\ Head(toDrv).k = "win" =>
                    Head(toDrv).s \in {el, None}
<1>1. ASSUME IndInv, [Next]_vars PROVE [A]_<<dev, toDrv>>
  <2> SUFFICES ASSUME NEW el \in {"X", "W"}, dev'.win[el] # dev.win[el], toDrv # << >>,
                      Head(toDrv).k = "win", Head(toDrv).s # None
               PROVE  Head(toDrv).s = el
    OBVIOUS
  <2>1. dev'.win # dev.win
    OBVIOUS
  <2>2. Take
    <3>1. Next
      BY <1>1, <2>1 DEF vars, driverVars
    <3>2. ~Spawn
      BY <1>1 DEF Spawn, IndInv, TypedInv
    <3> QED BY <1>1, <2>1, <3>1, <3>2, WindowStep
  <2>3. dev'.win = Head(toDrv).win
    BY <1>1, <2>2 DEF Take, IndInv, TypedInv, Drivers
  <2>4. Keeps(Head(toDrv).win, Head(toDrv).s, dev.win)
    <3>1. toDrv \in Seq(Commands) /\ OneWindow(toDrv, dev.win)
      BY <1>1 DEF IndInv, TypedInv, PipeInv
    <3>2. Head(toDrv) = toDrv[1] /\ 1 \in 1..Len(toDrv)
      BY <3>1
    <3> QED BY <3>1, <3>2 DEF OneWindow
  <2> QED BY <2>3, <2>4 DEF Keeps
<1>2. [][A]_<<dev, toDrv>> => WindowKeepsOthers
  BY PTL DEF WindowKeepsOthers
<1> HIDE DEF A
<1> QED BY <1>1, <1>2, CameraInductive, PTL DEF Spec
=============================================================================
