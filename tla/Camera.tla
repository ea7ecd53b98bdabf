------------------------------- MODULE Camera -------------------------------
(***************************************************************************)
(* The Alpaca camera (devtype/camera/device.go) between its requests and    *)
(* the read loop of its driver.                                             *)
(*                                                                          *)
(* Commands go to the driver through one pipe and elements come back        *)
(* through another.  The read loop hands a BLOB to IngestBlob, which        *)
(* transcodes it and only then takes the camera's lock; meanwhile requests  *)
(* clear the frame, start and abort exposures.  Nothing on the wire says    *)
(* which exposure an image belongs to.  (The in-flight marker of the        *)
(* exposure and CameraState, which reads it, are in Motion.)                *)
(*                                                                          *)
(* An exposure is a number, its duration, which is how the model tells      *)
(* exposures apart; an image carries the exposure and the frame type it was *)
(* taken with.  The driver is external: it executes commands in order, a    *)
(* new exposure replaces the running one, an aborted one has no image.      *)
(***************************************************************************)
EXTENDS Integers, Sequences, FiniteSets

CONSTANTS
  Clients,    \* Alpaca requests in progress
  Workloads,  \* the requests made (reqs), how many at a time (n), how many changes (max),
              \* the upload modes a driver may have saved (saved) and whether it may die
              \* (dies); one in a behaviour
  MaxExp,     \* bound: exposures, cooler targets or window changes asked for
  MaxPipe     \* bound: commands, and elements after the definitions, in a pipe

ASSUME CameraAssumption ==
  MaxExp \in Nat \ {0} /\ MaxPipe \in Nat \ {0} /\ \A w \in Workloads : w.max \in 0..MaxExp

VARIABLES
  work,     \* the workload of this behaviour, never changes
  conn,     \* "none", "acquiring", "up" (Serving), "gone" (snapshot invalid, phase not changed)
  alive,    \* the child runs
  dev,      \* the driver: upload, ftype, win, busy (the exposure, or NoImage)
  toDrv,    \* commands the driver has not taken up
  toHost,   \* elements the read loop has not read
  snap,     \* snapshot: exp, ftype, upload, win; None when not defined
  ingest,   \* the BLOB in IngestBlob, or NoBlob
  frame, frameErr,                  \* Camera.frame, Camera.frameErr
  rec,      \* Camera.expTotal and Camera.coolTarget, 0 when never set
  cl,       \* the requests
  next,     \* the number of the next change
  cur,      \* history: the exposure the frame was last cleared for, 0 after an abort
  clean,    \* history: no other image was on its way at that moment
  known     \* history: UPLOAD_MODE was known, or right, when this child came to serve

driverVars == <<conn, alive, dev, toDrv, toHost, snap, known>>
imageVars  == <<frame, frameErr, cur, clean>>
vars == <<work, driverVars, imageVars, ingest, rec, cl, next>>

None   == "-"
\* Exposures are asked for dark and light in turn.
Light(e) == e % 2 = 0
Window == [{"X", "W"} -> {0, 1}]
Corner == [m \in {"X", "W"} |-> 0]
NoWin  == [m \in {"X", "W"} |-> -1]
NoImage == [e |-> 0, t |-> None, mine |-> FALSE]
Idle   == [req |-> None, pc |-> None, e |-> 0, elem |-> None, w |-> NoWin,
           quiet |-> TRUE, mine |-> FALSE]
NoBlob  == [k |-> None, s |-> None, image |-> NoImage, win |-> NoWin]
Invalid == [exp |-> None, ftype |-> None, upload |-> None, win |-> NoWin]

TypeOK ==
  /\ conn \in {"none", "acquiring", "up", "gone"} /\ alive \in BOOLEAN
  /\ snap.exp \in {None, "Ok", "Busy", "Alert"} /\ snap.win \in Window \cup {NoWin}
  /\ dev.win \in Window /\ dev.busy.e \in 0..MaxExp
  /\ {ingest.image.e, frame.e, cur} \subseteq 0..MaxExp /\ next \in 1..(MaxExp + 1)
  /\ Len(toDrv) <= MaxPipe

Init ==
  /\ work \in Workloads
  /\ conn = "none" /\ alive = FALSE /\ toDrv = << >> /\ toHost = << >> /\ snap = Invalid
  /\ dev = [upload |-> "CLIENT", ftype |-> "FRAME_LIGHT", win |-> Corner,
            busy |-> NoImage]
  /\ ingest = NoBlob /\ frame = NoImage /\ frameErr = FALSE
  /\ rec = [exp |-> 0, temp |-> 0]
  /\ cl = [c \in Clients |-> Idle] /\ next = 1
  /\ cur = 0 /\ clean = TRUE /\ known = TRUE

(***************************************************************************)
(* The driver and its pipes.                                                *)
(***************************************************************************)
Element(k, s)   == [k |-> k, s |-> s, image |-> NoImage, win |-> NoWin]
ExpState(s)     == Element("exp", s)
Blob(i, s)      == [k |-> "blob", s |-> s, image |-> i, win |-> NoWin]
SetWin(w, s)    == [k |-> "win", s |-> s, image |-> NoImage, win |-> w]
WinIs(w)        == SetWin(w, None)
Expose(e, mine) == [k |-> "expose", s |-> None, image |-> [e |-> e, t |-> None, mine |-> mine],
                    win |-> NoWin]

\* A child starts with its saved upload mode and defines its properties, the
\* upload mode before or after it is connected, the frame type with the window.
Spawn ==
  /\ conn = "none" /\ ~alive
  /\ \E u \in work.saved, early \in BOOLEAN :
       /\ u = "CLIENT" => early
       /\ dev' = [upload |-> u, ftype |-> "FRAME_LIGHT", win |-> Corner,
                  busy |-> NoImage]
       /\ LET defs == <<ExpState("Ok"), WinIs(Corner)>>
          IN toHost' = IF early THEN <<Element("upload", u), Element("conn", None)>> \o defs
                       ELSE <<Element("conn", None), Element("upload", u)>> \o defs
       /\ known' = (early \/ u = "CLIENT")
  /\ alive' = TRUE /\ conn' = "acquiring" /\ toDrv' = << >>
  /\ UNCHANGED <<work, snap, imageVars, ingest, rec, cl, next>>

\* The driver takes up its next command.
Room(n) == Len(toHost) + n <= MaxPipe
Says(s) == toHost' = toHost \o s
Take ==
  /\ alive /\ toDrv # << >> /\ Room(1)
  /\ toDrv' = Tail(toDrv)
  /\ LET m == Head(toDrv) IN
       \/ m.k = "ftype"  /\ dev' = [dev EXCEPT !.ftype = m.s] /\ UNCHANGED toHost
       \/ m.k = "upload" /\ dev' = [dev EXCEPT !.upload = m.s] /\ Says(<<m>>)
       \/ m.k = "temp"   /\ UNCHANGED <<dev, toHost>>
       \/ m.k = "win"    /\ dev' = [dev EXCEPT !.win = m.win] /\ Says(<<WinIs(m.win)>>)
       \/ m.k = "abort"  /\ dev' = [dev EXCEPT !.busy = NoImage] /\ Says(<<ExpState("Ok")>>)
       \/ /\ m.k = "expose"
          /\ \/ /\ dev' = [dev EXCEPT !.busy = [e |-> m.image.e, t |-> dev.ftype, mine |-> m.image.mine]]
                /\ Says(<<ExpState("Busy")>>)
             \/ Says(<<ExpState("Alert")>>) /\ UNCHANGED dev
  /\ UNCHANGED <<work, conn, alive, snap, known, imageVars, ingest, rec, cl, next>>

\* The exposure ends: its image, unless it is kept on the driver's side, and Ok;
\* or it fails, with Alert and no image.
Finish ==
  /\ alive /\ dev.busy # NoImage /\ Room(2)
  /\ dev' = [dev EXCEPT !.busy = NoImage]
  /\ \/ Says(<<ExpState("Alert")>>)
     \/ \E good \in BOOLEAN :
          LET blob == IF dev.upload = "LOCAL" THEN << >>
                      ELSE <<Blob(dev.busy, IF good THEN "fits" ELSE "bad")>>
          IN Says(blob \o <<ExpState("Ok")>>) \/ Says(<<ExpState("Ok")>> \o blob)
  /\ UNCHANGED <<work, conn, alive, toDrv, snap, known, imageVars, ingest, rec, cl, next>>

\* The child dies; what it has written can still be read.
Die ==
  /\ work.dies /\ alive /\ alive' = FALSE /\ toDrv' = << >>
  /\ dev' = [dev EXCEPT !.busy = NoImage]
  /\ cl' = [c \in Clients |-> IF cl[c] = Idle THEN Idle
                             ELSE [cl[c] EXCEPT !.quiet = FALSE, !.mine = FALSE]]
  /\ UNCHANGED <<work, conn, toHost, snap, known, imageVars, ingest, rec, next>>

(***************************************************************************)
(* The read loop.                                                           *)
(***************************************************************************)
\* Mutant of AssertUploadClient: the setting is left alone.
NoAssert(s) == << >>

\* assertUploadClient, when the device comes to serve: as far as the snapshot knows.
AssertUploadClient(s) == IF s.upload = "LOCAL" THEN <<Element("upload", "CLIENT")>> ELSE << >>

\* The next element is applied; a BLOB is only taken into IngestBlob.
Read ==
  /\ conn \in {"acquiring", "up"} /\ toHost # << >> /\ ingest = NoBlob
  /\ LET el == Head(toHost) IN
       /\ el.k # "blob"
       /\ snap' = [exp    |-> IF el.k = "exp" THEN el.s ELSE snap.exp,
                   upload |-> IF el.k = "upload" THEN el.s ELSE snap.upload,
                   win    |-> IF el.k = "win" THEN el.win ELSE snap.win,
                   ftype  |-> IF el.k = "win" THEN "FRAME_LIGHT" ELSE snap.ftype]
       /\ conn'  = IF el.k = "conn" THEN "up" ELSE conn
       /\ toDrv' = IF el.k = "conn" /\ alive THEN toDrv \o AssertUploadClient(snap) ELSE toDrv
  /\ toHost' = Tail(toHost)
  /\ UNCHANGED <<work, alive, dev, known, imageVars, ingest, rec, cl, next>>

\* deliverBlobs skips a BLOB without a descriptor, one that cannot be mapped and an
\* empty one; onBlob and IngestBlob drop one of another device or property.
Skipped(blob) == [blob EXCEPT !.s = "lost"]

\* A BLOB is delivered.  What IngestBlob does outside the lock follows: inflate,
\* the format, Transcode.
IngestBlob ==
  /\ conn \in {"acquiring", "up"} /\ toHost # << >> /\ ingest = NoBlob
  /\ Head(toHost).k = "blob"
  /\ ingest' \in {Head(toHost), Skipped(Head(toHost))}
  /\ toHost' = Tail(toHost)
  /\ UNCHANGED <<work, conn, alive, dev, toDrv, snap, known, imageVars, rec, cl, next>>

\* IngestBlob under the lock: the image, or why there is none; nothing is recorded
\* of a BLOB that was skipped.
StoreBlob ==
  /\ ingest # NoBlob
  /\ frame' = IF ingest.s = "fits" THEN ingest.image ELSE frame
  /\ frameErr' = IF ingest.s = "lost" THEN frameErr ELSE ingest.s # "fits"
  /\ ingest' = NoBlob
  /\ UNCHANGED <<work, driverVars, cur, clean, rec, cl, next>>

\* End of stream: the snapshot is invalid first, the phase changes next.
Eof ==
  /\ ~alive /\ toHost = << >> /\ ingest = NoBlob /\ conn \in {"acquiring", "up"}
  /\ conn' = "gone" /\ snap' = Invalid
  /\ UNCHANGED <<work, alive, dev, toDrv, toHost, known, imageVars, ingest, rec, cl, next>>
GoDown ==
  /\ conn = "gone" /\ conn' = "none"
  /\ UNCHANGED <<work, alive, dev, toDrv, toHost, snap, known, imageVars, ingest, rec, cl, next>>

(***************************************************************************)
(* The requests.  A call of the kit, or a turn under a lock, is one step.   *)
(***************************************************************************)
Avail   == conn \in {"up", "gone"}
At(c, r, p) == cl[c].req = r /\ cl[c].pc = p
Goes(c, p)  == cl' = [cl EXCEPT ![c].pc = p]
Ends(c)     == cl' = [cl EXCEPT ![c] = Idle]

\* What a write does: the driver gets the command; or the child is gone and the
\* pipe still takes it; or it fails.
Sent(cmd) ==
  /\ Avail
  /\ \/ alive /\ Len(toDrv) < MaxPipe /\ toDrv' = Append(toDrv, cmd)
     \/ ~alive /\ UNCHANGED toDrv
SendFails == ~(alive /\ Avail) /\ UNCHANGED toDrv

Request(r, e, el) == [req |-> r, pc |-> "begin", e |-> e, elem |-> el, w |-> NoWin,
                      quiet |-> TRUE, mine |-> FALSE]

\* Exposures, targets and window changes are numbered, up to the bound.
Begin(c) ==
  /\ cl[c] = Idle /\ Cardinality({d \in Clients : cl[d] # Idle}) < work.n
  /\ \/ /\ next <= work.max /\ next' = next + 1
        /\ \E r \in work.reqs \cap {"StartExposure", "SetSetCCDTemperature", "setFrame"},
              el \in {"X", "W"} :
             /\ r # "setFrame" => el = "X"
             /\ cl' = [cl EXCEPT ![c] = Request(r, next, el)]
     \/ /\ "AbortExposure" \in work.reqs /\ UNCHANGED next
        /\ cl' = [cl EXCEPT ![c] = Request("AbortExposure", 0, None)]
  /\ UNCHANGED <<work, driverVars, imageVars, ingest, rec>>

\* StartExposure: Avail, then Has(CCD_FRAME_TYPE).
ExposureLook(c) ==
  /\ \/ /\ At(c, "StartExposure", "begin")
        /\ IF Avail THEN Goes(c, "has") ELSE Ends(c)
     \/ /\ At(c, "StartExposure", "has")
        /\ Goes(c, IF Avail /\ snap.ftype # None THEN "ftype" ELSE "clear")
  /\ UNCHANGED <<work, driverVars, imageVars, ingest, rec, next>>

\* Mutant of FrameType: every frame is a light frame.
LightAlways(light) == "FRAME_LIGHT"

FrameType(light) == IF light THEN "FRAME_LIGHT" ELSE "FRAME_DARK"

\* The frame type goes out; every other exposure loses its hold of it.
ExposureType(c) ==
  /\ At(c, "StartExposure", "ftype")
  /\ \/ /\ Sent(Element("ftype", FrameType(Light(cl[c].e))))
        /\ cl' = [d \in Clients |-> IF d = c THEN [cl[c] EXCEPT !.pc = "clear", !.mine = alive]
                                   ELSE [cl[d] EXCEPT !.mine = FALSE]]
     \/ SendFails /\ Ends(c)
  /\ UNCHANGED <<work, conn, alive, dev, toHost, snap, known, imageVars, ingest, rec, next>>

NoneUnderWay(k) == \A i \in 1..Len(toDrv) : toDrv[i].k # k

\* No image but that of exposure e can arrive from now on.
NothingUnderWay(c) ==
  /\ dev.busy = NoImage /\ ingest = NoBlob
  /\ \A i \in 1..Len(toHost) : toHost[i].k # "blob"
  /\ NoneUnderWay("expose")
  /\ \A d \in Clients \ {c} : ~(cl[d].req = "StartExposure" /\ cl[d].pc = "write")

Wipe(c) ==
  /\ frame' = NoImage /\ frameErr' = FALSE
  /\ cur' = cl[c].e /\ clean' = NothingUnderWay(c)

\* Mutant of ClearFrame: the image of the exposure before stays.
KeepFrame(c) ==
  /\ cur' = cl[c].e /\ clean' = NothingUnderWay(c)
  /\ UNCHANGED <<frame, frameErr>>

ClearFrame(c) == Wipe(c)

ExposureClear(c) ==
  /\ At(c, "StartExposure", "clear")
  /\ ClearFrame(c) /\ Goes(c, "write")
  /\ UNCHANGED <<work, driverVars, ingest, rec, next>>

\* WriteNumber: the property, the range, the write.
ExposureWrite(c) ==
  /\ At(c, "StartExposure", "write")
  /\ \/ /\ snap.exp # None
        /\ Sent(Expose(cl[c].e, cl[c].mine))
        /\ Goes(c, "record")
     \/ Ends(c) /\ UNCHANGED toDrv
  /\ UNCHANGED <<work, conn, alive, dev, toHost, snap, known, imageVars, ingest, rec, next>>

ExposureRecord(c) ==
  /\ At(c, "StartExposure", "record")
  /\ rec' = [rec EXCEPT !.exp = cl[c].e] /\ Ends(c)
  /\ UNCHANGED <<work, driverVars, imageVars, ingest, next>>

AbortClear(c) ==
  /\ At(c, "AbortExposure", "begin")
  /\ Wipe(c) /\ Goes(c, "write")
  /\ UNCHANGED <<work, driverVars, ingest, rec, next>>

\* WriteSwitch: sent, or the property is missing or the write fails.
AbortWrite(c) ==
  /\ At(c, "AbortExposure", "write")
  /\ Sent(Element("abort", None)) \/ UNCHANGED toDrv
  /\ cur' = 0 /\ clean' = (clean /\ cur = 0)
  /\ Ends(c)
  /\ UNCHANGED <<work, conn, alive, dev, toHost, snap, known, frame, frameErr, ingest,
                 rec, next>>

\* Mutant of Resend: the other members are sent as zero.
ResendZero(w, elem, val) == [Corner EXCEPT ![elem] = val]

\* setFrame sends every member, the others as the snapshot has them; a value out of
\* the member's range is refused.
Resend(w, elem, val) == [w EXCEPT ![elem] = val]

SetFrame(c) ==
  /\ \/ /\ At(c, "setFrame", "begin") /\ UNCHANGED toDrv
        /\ \/ Ends(c)
           \/ /\ Avail /\ snap.win # NoWin
              /\ \E val \in {0, 1} :
                  cl' = [cl EXCEPT ![c].pc = "send", ![c].w = Resend(snap.win, cl[c].elem, val),
                                   ![c].quiet = (alive /\ snap.win = dev.win /\ NoneUnderWay("win"))]
     \/ /\ At(c, "setFrame", "send")
        /\ Sent(SetWin(cl[c].w, IF cl[c].quiet THEN cl[c].elem ELSE None))
        /\ cl' = [d \in Clients |-> IF d = c THEN Idle ELSE [cl[d] EXCEPT !.quiet = cl[d] = Idle]]
     \/ At(c, "setFrame", "send") /\ SendFails /\ Ends(c)
  /\ UNCHANGED <<work, conn, alive, dev, toHost, snap, known, imageVars, ingest, rec, next>>

SetSetCCDTemperature(c) ==
  /\ \/ /\ At(c, "SetSetCCDTemperature", "begin") /\ UNCHANGED rec
        /\ \/ Sent(Element("temp", None)) /\ Goes(c, "target")
           \/ Ends(c) /\ UNCHANGED toDrv
     \/ /\ At(c, "SetSetCCDTemperature", "target") /\ Ends(c)
        /\ rec' = [rec EXCEPT !.temp = cl[c].e] /\ UNCHANGED toDrv
  /\ UNCHANGED <<work, conn, alive, dev, toHost, snap, known, imageVars, ingest, next>>

(***************************************************************************)
(* The specification.                                                       *)
(***************************************************************************)
Driver   == Take \/ Finish
ReadLoop == Read \/ IngestBlob \/ StoreBlob \/ Eof \/ GoDown

Step(c) ==
  \/ ExposureLook(c) \/ ExposureType(c) \/ ExposureClear(c) \/ ExposureWrite(c)
  \/ ExposureRecord(c) \/ AbortClear(c) \/ AbortWrite(c) \/ SetFrame(c) \/ SetSetCCDTemperature(c)

Next == Driver \/ ReadLoop \/ Spawn \/ Die \/ \E c \in Clients : Begin(c) \/ Step(c)

\* The driver executes commands, the read loop reads, requests go on: none of
\* them waits for anything but the others.
Fairness == WF_vars(Driver) /\ WF_vars(ReadLoop) /\ \A c \in Clients : WF_vars(Step(c))

Spec == Init /\ [][Next]_vars /\ Fairness

(***************************************************************************)
(* Properties.                                                              *)
(***************************************************************************)
\* The image shown is the image of the exposure asked for last: one of an
\* earlier exposure is shown only when it was still on its way at the moment the
\* request cleared the frame.
NoStaleImage == clean => frame.e \in {0, cur}

\* Its frame type is the one that exposure asked for, unless another request
\* sent a frame type in between or the driver had not defined CCD_FRAME_TYPE.
ImageAsAsked == frame.mine => (frame.t = "FRAME_LIGHT") = Light(frame.e)

\* A command that sets one member of CCD_FRAME changes another one at the driver
\* only when an earlier command had not been echoed as the request looked, another
\* request sent a window between its look and its command, or the child has been
\* replaced since.
WindowKeepsOthers ==
  [][\A el \in {"X", "W"} :
       dev.win'[el] # dev.win[el] /\ toDrv # << >> /\ Head(toDrv).k = "win" =>
         Head(toDrv).s \in {el, None}]_<<dev, toDrv>>

\* An exposure the driver executes ends in an image, in an error that ImageFrame
\* reports, or in the Alert that CameraState reports as an error, unless it is
\* aborted, replaced or lost with the child, a BLOB is skipped by deliverBlobs on
\* the way (which is logged and leaves ImageReady false), or the driver keeps images to
\* itself since it defined UPLOAD_MODE only after assertUploadClient had looked.
ExposureDelivers ==
  \A e \in 1..MaxExp :
    (dev.busy.e = e /\ cur = e /\ known) ~>
      \/ frame.e # 0 \/ frameErr \/ snap.exp = "Alert"
      \/ cur # e \/ ~alive
      \/ ingest.s = "lost"

\* No image is shown for an exposure that was aborted.
AbortedStaysAborted ==
  (cur = 0 /\ \A c \in Clients : cl[c].req # "StartExposure") => frame = NoImage
=============================================================================
