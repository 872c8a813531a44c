--------------------------- MODULE MCCorrections ---------------------------
(* Instances of the corrections model for TLC. *)
EXTENDS Corrections, TLC

CONSTANTS p1, p2

TwoPatches == {p1, p2}
TwoFields == {"title", "document_date"}
DateOnly == {"document_date"}
Title == [field |-> "title", valid |-> TRUE]
Date == [field |-> "document_date", valid |-> TRUE]
BadDate == [field |-> "document_date", valid |-> FALSE]
GoodBodies == {<<Title>>, <<Date>>, <<Title, Date>>}
AllBodies == GoodBodies \cup {<<BadDate>>, <<Title, BadDate>>}
Requests == Permutations(TwoPatches)
=============================================================================
