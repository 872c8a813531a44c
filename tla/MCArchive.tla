------------------------------ MODULE MCArchive -----------------------------
(***************************************************************************)
(* An instance for TLC of what corrects documents and what finds them.     *)
(* The two models share no variable (of a search, a correction is one      *)
(* step that changes a document), so a behaviour is one of the             *)
(* corrections, while one search has yet to take its first step, or one    *)
(* of a search, no PATCH having been made.                                 *)
(***************************************************************************)
EXTENDS MCCorrections, MCSearch

\* The one initial state of a search in which nothing was left to choose: a
\* list of the newest documents, without a filter.
Waiting == SearchInit /\ request = [query |-> FALSE, filter |-> FALSE, limit |-> 0]

ArchiveInit == Init /\ SearchInit

ArchiveNext ==
    \/ Waiting /\ Next /\ UNCHANGED searchVars
    \/ Init /\ SearchNext /\ UNCHANGED vars

ArchiveSpec == ArchiveInit /\ [][ArchiveNext]_<<vars, searchVars>>
=============================================================================
