-------------------------------- MODULE Wire --------------------------------
(***************************************************************************)
(* The vocabulary of a driver's stream, as indiwire/parser.go tells it      *)
(* apart: start tags, empty tags, close tags, text and processing           *)
(* instructions.  "Text" stands for the vector types that are not BLOB,     *)
(* "other" for every tag the parser does not know.  Attribute values other  *)
(* than attached='true' are left out.                                       *)
(***************************************************************************)
EXTENDS Integers, Sequences, FiniteSets

\* att: attached='true'; ok: the text decodes (entities, whole base64 quads).
Tok(t, n, att, ok) == [t |-> t, n |-> n, att |-> att, ok |-> ok]
Open(n)      == Tok("open", n, FALSE, TRUE)
Empty(n)     == Tok("empty", n, FALSE, TRUE)
Attached(n)  == Tok("open", n, TRUE, TRUE)
AttachedEmpty(n) == Tok("empty", n, TRUE, TRUE)
CloseTag(n)  == Tok("close", n, FALSE, TRUE)
Text         == Tok("text", "-", FALSE, TRUE)
BadText      == Tok("text", "-", FALSE, FALSE)
Pi           == Tok("pi", "-", FALSE, TRUE)

\* The tag of a vector's members.
Child == [defBLOBVector |-> "defBLOB", setBLOBVector |-> "oneBLOB",
          newBLOBVector |-> "oneBLOB", setTextVector |-> "oneText"]
Vectors == DOMAIN Child
Skipped == {"message", "pingRequest"}   \* as delProperty, getProperties, pingReply
Known   == Vectors \cup Skipped \cup {"enableBLOB"}
BlobVectors == {"defBLOBVector", "setBLOBVector", "newBLOBVector"}
Delivered   == {"defBLOBVector", "setBLOBVector"}

\* "-" is the name of what has none.
TagNames == Known \cup {"defBLOB", "oneBLOB", "oneText", "other", "-"}
Tokens == [t : {"open", "empty", "close", "text", "pi"}, n : TagNames, att : BOOLEAN, ok : BOOLEAN]

\* How many tags are open before token i.
Depth(s, i) == Cardinality({j \in 1..(i - 1) : s[j].t = "open"})
               - Cardinality({j \in 1..(i - 1) : s[j].t = "close"})

\* The members of an element, by the nesting of its tags alone, and how many
\* descriptors they claim.
Members(s) == {i \in 2..Len(s) : /\ s[i].t \in {"open", "empty"} /\ Depth(s, i) = 1
                                 /\ s[1].n \in Vectors /\ s[i].n = Child[s[1].n]}
Claims(s) == IF s[1].n \in Delivered THEN Cardinality({i \in Members(s) : s[i].att}) ELSE 0

\* The attached BLOBs that a stretch of the stream declares.
Attachments(s) == Cardinality({i \in DOMAIN s : s[i].att})
=============================================================================
