------------------------------ MODULE MCStores ------------------------------
(***************************************************************************)
(* An instance for TLC of the two stores that more than one process opens: *)
(* tokens.json and the database while it is created or migrated.  They     *)
(* share nothing, so a behaviour is one of the token store, the database   *)
(* being new and untouched, or one of the database, no request having been *)
(* made of the token store.                                                *)
(***************************************************************************)
EXTENDS TokenStore, Migration

CONSTANTS n1, n2, a1, a2, cli, c1, c2, c3, d1, d2

TwoNames == {n1, n2}
TwoAndCli == {a1, a2, cli}
OneCli == {cli}
ThreeConns == {c1, c2, c3}
TwoDocs == {d1, d2}

StoresInit == Init /\ MigrationInit

StoresNext ==
    \/ MigrationInit /\ db.version = 0 /\ Next /\ UNCHANGED migrationVars
    \/ Init /\ MigrationNext /\ UNCHANGED vars

StoresSpec ==
    /\ StoresInit /\ [][StoresNext]_<<vars, migrationVars>>
    /\ Fairness /\ MigrationFairness
=============================================================================
