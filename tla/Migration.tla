----------------------------- MODULE Migration ------------------------------
(***************************************************************************)
(* connect() and the schema (server/db.py:22-201).  Every request and the  *)
(* worker open a connection of their own; each reads user_version and, if  *)
(* it is old, creates the schema statement by statement (version 0) or     *)
(* migrates it in one transaction (version 1).  Connections race, any      *)
(* statement may raise, and the process may crash between two.             *)
(***************************************************************************)
EXTENDS Naturals, Sequences

CONSTANTS
    Conns,      \* calls of connect(); each is made at most once
    Unlocked,   \* the write lock is held by nobody
    Docs,       \* documents of a version 1 database
    MaxFaults,  \* bound: statements that raise
    MaxCrashes  \* bound: crashes of the process

ASSUME MigrationAssumption ==
    /\ Unlocked \notin Conns
    /\ MaxFaults \in Nat
    /\ MaxCrashes \in Nat

VARIABLES
    db,       \* the committed database
    draft,    \* the database as the transaction that holds the lock sees it
    writer,   \* SQLite's write lock
    conn,     \* the connections
    faults,   \* statements that raised for a reason of their own
    crashes,  \* crashes so far
    wasDone   \* history: documents that version 1 had processed

migrationVars == <<db, draft, writer, conn, faults, crashes, wasDone>>

SchemaVersion == 2

\* The documents table, the full-text and the vector table; of each document
\* its status, whether it has a summary, and how many jobs were added.
Database == [version : 0 .. SchemaVersion, table : {"none", "v1", "dropped", "v2"},
             fts : {"none", "v1", "v2"}, vec : BOOLEAN,
             status : [Docs -> {"done", "failed", "queued"}], summary : [Docs -> BOOLEAN],
             jobs : [Docs -> Nat]]

\* The statements of _SCHEMA and its companions, and those of the migration.
Creation == <<"create", "createFts", "createVec", "bump">>
Script == <<"drop", "add", "dropFts", "addJobs", "requeue", "createFts", "bump">>

Pc == {"idle", "create", "migrate", "commit", "open", "failed"}
Conn == [pc : Pc, at : 1 .. Len(Script)]

Wanting(d, base) == base.status[d] = "done" /\ ~base.summary[d]

\* What a statement does to the database.
Effect(s, base) ==
    CASE s = "create"    -> IF base.table = "none" THEN [base EXCEPT !.table = "v2"] ELSE base
      [] s = "createFts" -> IF base.fts = "none" THEN [base EXCEPT !.fts = "v2"] ELSE base
      [] s = "createVec" -> [base EXCEPT !.vec = TRUE]
      [] s = "bump"      -> [base EXCEPT !.version = SchemaVersion]
      [] s = "drop"      -> [base EXCEPT !.table = "dropped"]
      [] s = "add"       -> [base EXCEPT !.table = "v2"]
      [] s = "dropFts"   -> [base EXCEPT !.fts = "none"]
      [] s = "addJobs"   -> [base EXCEPT !.jobs =
             [d \in Docs |-> IF Wanting(d, base) THEN base.jobs[d] + 1 ELSE base.jobs[d]]]
      [] s = "requeue"   -> [base EXCEPT !.status =
             [d \in Docs |-> IF Wanting(d, base) THEN "queued" ELSE base.status[d]]]

\* The columns that DROP COLUMN names must be there.
Raises(s, base) == s = "drop" /\ base.table # "v1"

SetConn(c, pc) == conn' = [conn EXCEPT ![c] = [pc |-> pc, at |-> 1]]

-----------------------------------------------------------------------------
Old(version) == version < SchemaVersion

\* PRAGMA user_version, outside any transaction.
Connect(c) ==
    /\ conn[c].pc = "idle"
    /\ SetConn(c, IF ~Old(db.version) THEN "open"
                  ELSE IF db.version = 0 THEN "create" ELSE "migrate")
    /\ UNCHANGED <<db, draft, writer, faults, crashes, wasDone>>

\* executescript commits each statement of the creation.
Create(c) ==
    LET n == conn[c].at IN
    /\ conn[c].pc = "create" /\ writer = Unlocked
    /\ db' = Effect(Creation[n], db)
    /\ IF n < Len(Creation) THEN conn' = [conn EXCEPT ![c].at = n + 1] ELSE SetConn(c, "open")
    /\ UNCHANGED <<draft, writer, faults, crashes, wasDone>>

\* (broken) documents are requeued before their jobs are added.
Swapped(n) == IF n \in {4, 5} THEN Script[9 - n] ELSE Script[n]
Statement(n) == Script[n]

\* The database as a connection sees it.
Seen(c) == IF writer = c THEN draft ELSE db

Advance(c) ==
    IF conn[c].at < Len(Script) THEN conn' = [conn EXCEPT ![c].at = @ + 1] ELSE SetConn(c, "commit")

\* (broken) without BEGIN every statement is committed.
MigrateCommitting(c) ==
    /\ conn[c].pc = "migrate" /\ writer = Unlocked
    /\ ~Raises(Statement(conn[c].at), db)
    /\ db' = Effect(Statement(conn[c].at), db)
    /\ Advance(c)
    /\ UNCHANGED <<draft, writer, faults, crashes, wasDone>>

\* One statement of the migration.  BEGIN locks nothing; the first write does.
Migrate(c) ==
    /\ conn[c].pc = "migrate" /\ writer \in {Unlocked, c}
    /\ ~Raises(Statement(conn[c].at), Seen(c))
    /\ writer' = c
    /\ draft' = Effect(Statement(conn[c].at), Seen(c))
    /\ Advance(c)
    /\ UNCHANGED <<db, faults, crashes, wasDone>>

Commit(c) ==
    /\ conn[c].pc = "commit" /\ writer \in {Unlocked, c}
    /\ db' = Seen(c)
    /\ writer' = Unlocked
    /\ SetConn(c, "open")
    /\ UNCHANGED <<draft, faults, crashes, wasDone>>

\* Another connection has migrated meanwhile: DROP COLUMN raises, before the
\* transaction has written.
TooLate(c) ==
    /\ conn[c].pc = "migrate" /\ writer = Unlocked
    /\ Raises(Statement(conn[c].at), db)
    /\ SetConn(c, "failed")
    /\ UNCHANGED <<db, draft, writer, faults, crashes, wasDone>>

\* (broken) the exception leaves the transaction open.
Unreleased(c) == writer
\* conn.rollback() and close().
RolledBack(c) == IF writer = c THEN Unlocked ELSE writer

\* A statement raises: a full disk, or a lock that is not had within 30 s.
Fail(c) ==
    /\ faults < MaxFaults
    /\ conn[c].pc \in {"create", "migrate", "commit"}
    /\ faults' = faults + 1
    /\ writer' = RolledBack(c)
    /\ SetConn(c, "failed")
    /\ UNCHANGED <<db, draft, crashes, wasDone>>

\* The process ends; SQLite drops what was not committed.
Crash ==
    /\ crashes < MaxCrashes
    /\ crashes' = crashes + 1
    /\ writer' = Unlocked
    /\ conn' = [c \in Conns |->
          IF conn[c].pc = "idle" THEN conn[c] ELSE [pc |-> "failed", at |-> 1]]
    /\ UNCHANGED <<db, draft, faults, wasDone>>

\* The worker files a document that was queued, with a summary.
File(d) ==
    /\ db.version = SchemaVersion /\ writer = Unlocked
    /\ db.status[d] = "queued" /\ db.jobs[d] > 0
    /\ db' = [db EXCEPT !.status[d] = "done", !.summary[d] = TRUE]
    /\ UNCHANGED <<draft, writer, conn, faults, crashes, wasDone>>

-----------------------------------------------------------------------------
Start(version, shape) ==
    [version |-> version, table |-> shape, fts |-> shape, vec |-> version # 0,
     status |-> [d \in Docs |-> IF d \in wasDone THEN "done" ELSE "failed"],
     summary |-> [d \in Docs |-> FALSE], jobs |-> [d \in Docs |-> 0]]

\* A new database, one of version 1, or one of this version.
MigrationInit ==
    /\ wasDone \in SUBSET Docs
    /\ \/ db = Start(0, "none") /\ wasDone = {}
       \/ db = Start(1, "v1")
       \/ db = Start(2, "v2") /\ wasDone = {}
    /\ draft = db
    /\ writer = Unlocked
    /\ conn = [c \in Conns |-> [pc |-> "idle", at |-> 1]]
    /\ faults = 0 /\ crashes = 0

ConnStep(c) == Create(c) \/ Migrate(c) \/ Commit(c) \/ TooLate(c) \/ Fail(c)

MigrationNext ==
    \/ \E c \in Conns : Connect(c) \/ ConnStep(c)
    \/ \E d \in Docs : File(d)
    \/ Crash

\* Threads go on; whoever holds the lock releases it.
MigrationFairness == \A c \in Conns : WF_migrationVars(ConnStep(c))
MigrationSpec == MigrationInit /\ [][MigrationNext]_migrationVars /\ MigrationFairness

-----------------------------------------------------------------------------
(* Properties *)

\* Variables have their types; the holder of the lock is migrating.
MigrationTypeOK ==
    /\ db \in Database /\ draft \in Database
    /\ writer \in Conns \cup {Unlocked}
    /\ writer # Unlocked => conn[writer].pc \in {"migrate", "commit"}
    /\ conn \in [Conns -> Conn]
    /\ faults \in 0 .. MaxFaults /\ crashes \in 0 .. MaxCrashes
    /\ wasDone \subseteq Docs

\* What is committed is a whole version 1 or a whole version 2, or a creation
\* that the next connection completes, whatever raises and whenever the
\* process dies (db.py:112-117, 195-200).
NeverBricked ==
    /\ db.version = 1 => db.table = "v1" /\ db.fts = "v1" /\ \A d \in Docs : db.jobs[d] = 0
    /\ db.version = 2 => db.table = "v2" /\ db.fts = "v2" /\ db.vec
    /\ db.version = 0 => db.table # "v1" /\ db.fts # "v1"

\* The migration gives each document that version 1 had processed one job,
\* and other documents none, however many connections start it, and however
\* often (db.py:146-151).
RequeuedOnce ==
    db.version = SchemaVersion =>
        \A d \in Docs :
            /\ db.jobs[d] = IF d \in wasDone THEN 1 ELSE 0
            /\ d \in wasDone => db.status[d] = "queued" \/ db.summary[d]

\* Of itself connect() only raises when another connection has migrated, so
\* the next call succeeds (db.py:196-197).
FailureMeansDone ==
    faults = 0 /\ crashes = 0 /\ (\E c \in Conns : conn[c].pc = "failed") =>
        db.version = SchemaVersion

\* Every call ends: none waits for a lock that an exception left behind
\* (db.py:195-200).
ConnectEnds ==
    \A c \in Conns : conn[c].pc \in {"create", "migrate"} ~> conn[c].pc \in {"open", "failed"}
=============================================================================
