---------------------------- MODULE MCIndiServe ----------------------------
(***************************************************************************)
(* Small instances of IndiServe for TLC.                                    *)
(***************************************************************************)
EXTENDS IndiServe

CONSTANT a

\* The device of each child.
OwnDevice == [ch \in Children |-> "da"]

\* The management exposes the child or does not.
OffOrOn   == {<<>>, <<a>>}
FirstOnly == {<<a>>}

=============================================================================
