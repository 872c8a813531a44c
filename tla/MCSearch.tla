------------------------------ MODULE MCSearch ------------------------------
(* Three documents; smaller cuts stand for 100 and 200.  The distances lie *)
(* on the evidence threshold of store.py:21-23, and on and beyond the      *)
(* margin of one another.                                                  *)
EXTENDS Search

ThreeDocs == 1 .. 3
SomeDistances == {50, 55, 59}
NoDistances == {}
SomeLimits == {0, 9}
=============================================================================
