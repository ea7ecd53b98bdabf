----------------------------- MODULE MCIncoming -----------------------------
(* Incoming with a driver that mixes BLOBs with strays and one that sends anything. *)
EXTENDS Incoming

Vec(n, body) == <<Open(n)>> \o body \o <<CloseTag(n)>>
AttBlob  == <<AttachedEmpty("oneBLOB")>>
InBlob   == <<Open("oneBLOB"), Text, CloseTag("oneBLOB")>>
Stray(b) == <<Open("other")>> \o b \o <<CloseTag("other")>>

\* BLOBs in every form, between other traffic.
Mixed ==
  {Vec("setBLOBVector", InBlob \o AttBlob \o AttBlob), Vec("defBLOBVector", << >>),
   Vec("setTextVector", <<Open("oneText"), Text, CloseTag("oneText")>>),
   Vec("message", Stray(<<Text>>))}
\* Descriptors that nobody claims, and then BLOBs that claim them.
Leaves == {Vec("setBLOBVector", AttBlob), Vec("setBLOBVector", Stray(AttBlob)), <<Empty("pingRequest")>>}
Crowd  == {Vec("setBLOBVector", AttBlob \o AttBlob \o AttBlob), Vec("newBLOBVector", AttBlob \o AttBlob)}

\* Every element of at most five tags over a small alphabet.
Tags == {Open("oneBLOB"), AttachedEmpty("oneBLOB"), CloseTag("oneBLOB"), Open("other"), CloseTag("other"),
         Text, BadText, Pi}
Balanced(s) == Depth(s, Len(s) + 1) <= 0 /\ \A i \in 2..Len(s) : Depth(s, i) > 0
Bodies(n) == UNION {[1..k -> Tags] : k \in 0..n}
Anything ==
  {s \in {<<Open("setBLOBVector")>> \o b \o <<CloseTag("setBLOBVector")>> : b \in Bodies(3)}
         \cup {<<Open(n)>> \o b \o <<CloseTag("message")>> :
                 n \in {"setBLOBVector", "message", "enableBLOB", "other"}, b \in Bodies(2)}
         \cup {<<Open("enableBLOB"), Text, CloseTag("enableBLOB")>>}
         \cup {<<t>> : t \in {CloseTag("other"), BadText, Pi, Empty("setBLOBVector"), Empty("other")}} :
     Balanced(s)}

Menu(items, max) == [items |-> items, max |-> max]
MCMenus == [mixed |-> Menu(Mixed, 2), leaves |-> Menu(Leaves, 3), crowd |-> Menu(Crowd, 2),
            any |-> Menu(Anything, 1)]
=============================================================================
