-------------------------- MODULE MigrationProofs ---------------------------
(***************************************************************************)
(* Whatever connections race, whatever statement raises and whenever the   *)
(* process dies, the committed database is a whole version, and each       *)
(* document that version 1 had processed gets one job.                     *)
(***************************************************************************)
EXTENDS Migration, TLAPS

\* The statements of the transaction that its connection has executed.
Stage(c) == IF conn[c].pc = "commit" THEN Len(Script) + 1 ELSE conn[c].at

\* What the migration will find in a version that precedes it.
Untouched ==
    /\ db.version = 1 =>
         db.vec /\ \A d \in Docs : ~db.summary[d] /\ (db.status[d] = "done") = (d \in wasDone)
    /\ db.version = 0 => wasDone = {} /\ db.table # "dropped" /\ \A d \in Docs : db.jobs[d] = 0

\* The creation only goes forward, and never beside a migration.
Creating ==
    \A c \in Conns : conn[c].pc = "create" =>
        /\ db.version # 1 /\ wasDone = {}
        /\ conn[c].at >= 2 => db.table = "v2"
        /\ conn[c].at >= 3 => db.fts = "v2"
        /\ conn[c].at >= 4 => db.vec

\* A transaction that has written holds the lock, and sees exactly what the
\* statements before its place have made of version 1.
Holding ==
    \A c \in Conns :
        (writer = c) = (conn[c].pc = "commit" \/ (conn[c].pc = "migrate" /\ conn[c].at > 1))
Drafted(n) ==
    /\ draft.version = IF n = 8 THEN 2 ELSE 1
    /\ draft.table = IF n = 2 THEN "dropped" ELSE "v2"
    /\ draft.fts = IF n <= 3 THEN "v1" ELSE IF n <= 6 THEN "none" ELSE "v2"
    /\ draft.vec
    /\ \A d \in Docs :
         /\ ~draft.summary[d]
         /\ draft.jobs[d] = IF d \in wasDone /\ n >= 5 THEN 1 ELSE 0
         /\ d \in wasDone => draft.status[d] = IF n >= 6 THEN "queued" ELSE "done"
         /\ d \notin wasDone => draft.status[d] # "done"
Drafting == \A c \in Conns : writer = c => db.version = 1 /\ Drafted(Stage(c))

Places == \A c \in Conns : conn[c].pc = "create" => conn[c].at \in 1 .. Len(Creation)

VersionInv ==
    /\ MigrationTypeOK /\ Places /\ Holding
    /\ NeverBricked /\ RequeuedOnce /\ Untouched
    /\ Creating /\ Drafting

-----------------------------------------------------------------------------
(* Frames *)

LEMMA Lengths == Len(Script) = 7 /\ Len(Creation) = 4
  BY DEF Script, Creation

LEMMA SetConnFrame ==
    ASSUME conn \in [Conns -> Conn], NEW c \in Conns, NEW pc \in Pc, SetConn(c, pc)
    PROVE  /\ conn' \in [Conns -> Conn]
           /\ conn'[c].pc = pc /\ conn'[c].at = 1
           /\ \A b \in Conns \ {c} : conn'[b] = conn[b]
  BY Lengths DEF SetConn, Conn

\* A step that leaves the databases alone: connections stay, end without the
\* lock, or begin where the version sends them.
LEMMA FramesOnly ==
    ASSUME VersionInv, UNCHANGED <<db, draft, wasDone>>,
           conn' \in [Conns -> Conn], writer' \in Conns \cup {Unlocked},
           faults' \in 0 .. MaxFaults, crashes' \in 0 .. MaxCrashes,
           \A c \in Conns :
             \/ conn'[c] = conn[c] /\ ((writer' = c) = (writer = c))
             \/ conn'[c].pc \in {"idle", "open", "failed"} /\ writer' # c
             \/ /\ conn'[c].pc \in {"create", "migrate"} /\ conn'[c].at = 1 /\ writer' # c
                /\ conn'[c].pc = "create" => db.version = 0
    PROVE  VersionInv'
  <1>1. Holding' /\ Places'
    BY Lengths DEF VersionInv, Holding, Places
  <1>2. NeverBricked' /\ RequeuedOnce' /\ Untouched'
    BY DEF VersionInv, NeverBricked, RequeuedOnce, Untouched
  <1>3. Creating'
    BY DEF VersionInv, Creating, Untouched
  <1>4. Drafting'
    BY DEF VersionInv, Drafting, Drafted, Stage
  <1>5. MigrationTypeOK'
    BY <1>1, MigrationAssumption DEF VersionInv, MigrationTypeOK, Holding
  <1> QED
    BY <1>1, <1>2, <1>3, <1>4, <1>5 DEF VersionInv

LEMMA ConnectKeeps ==
    ASSUME VersionInv, NEW c \in Conns, Connect(c)
    PROVE  VersionInv'
  <1> DEFINE pc == IF ~Old(db.version) THEN "open"
                   ELSE IF db.version = 0 THEN "create" ELSE "migrate"
  <1>1. /\ conn' \in [Conns -> Conn]
        /\ conn'[c].pc = pc /\ conn'[c].at = 1
        /\ \A b \in Conns \ {c} : conn'[b] = conn[b]
    BY SetConnFrame DEF Connect, VersionInv, MigrationTypeOK, Pc
  <1>2. writer # c
    BY DEF Connect, VersionInv, Holding
  <1>3. UNCHANGED <<db, draft, writer, faults, crashes, wasDone>>
    BY DEF Connect
  <1> QED
    BY <1>1, <1>2, <1>3, FramesOnly DEF VersionInv, MigrationTypeOK

LEMMA TooLateKeeps ==
    ASSUME VersionInv, NEW c \in Conns, TooLate(c)
    PROVE  VersionInv'
  <1>1. /\ conn' \in [Conns -> Conn]
        /\ conn'[c].pc = "failed"
        /\ \A b \in Conns \ {c} : conn'[b] = conn[b]
    BY SetConnFrame DEF TooLate, VersionInv, MigrationTypeOK, Pc
  <1>2. writer = Unlocked /\ UNCHANGED <<db, draft, writer, faults, crashes, wasDone>>
    BY DEF TooLate
  <1> QED
    BY <1>1, <1>2, FramesOnly, MigrationAssumption DEF VersionInv, MigrationTypeOK

LEMMA FailKeeps ==
    ASSUME VersionInv, NEW c \in Conns, Fail(c)
    PROVE  VersionInv'
  <1>1. /\ conn' \in [Conns -> Conn]
        /\ conn'[c].pc = "failed"
        /\ \A b \in Conns \ {c} : conn'[b] = conn[b]
    BY SetConnFrame DEF Fail, VersionInv, MigrationTypeOK, Pc
  <1>2. /\ UNCHANGED <<db, draft, wasDone>>
        /\ faults' \in 0 .. MaxFaults /\ crashes' \in 0 .. MaxCrashes
    BY MigrationAssumption DEF Fail, VersionInv, MigrationTypeOK
  <1>3. /\ writer' \in Conns \cup {Unlocked} /\ writer' # c
        /\ \A b \in Conns \ {c} : (writer' = b) = (writer = b)
    BY MigrationAssumption DEF Fail, RolledBack, VersionInv, MigrationTypeOK
  <1> QED
    BY <1>1, <1>2, <1>3, FramesOnly

LEMMA CrashKeeps ==
    ASSUME VersionInv, Crash
    PROVE  VersionInv'
  <1>1. conn' \in [Conns -> Conn] /\ \A c \in Conns : conn'[c].pc \in {"idle", "failed"}
    BY Lengths DEF Crash, VersionInv, MigrationTypeOK, Conn, Pc
  <1>2. /\ UNCHANGED <<db, draft, wasDone>>
        /\ faults' \in 0 .. MaxFaults /\ crashes' \in 0 .. MaxCrashes
    BY MigrationAssumption DEF Crash, VersionInv, MigrationTypeOK
  <1>3. writer' \in Conns \cup {Unlocked} /\ \A c \in Conns : writer' # c
    BY MigrationAssumption DEF Crash
  <1> QED
    BY <1>1, <1>2, <1>3, FramesOnly

-----------------------------------------------------------------------------
(* Statements *)

\* What each statement of the creation leaves.
LEMMA CreationEffects ==
    ASSUME NEW base \in Database
    PROVE  /\ Effect("create", base) =
                IF base.table = "none" THEN [base EXCEPT !.table = "v2"] ELSE base
           /\ Effect("createFts", base) =
                IF base.fts = "none" THEN [base EXCEPT !.fts = "v2"] ELSE base
           /\ Effect("createVec", base) = [base EXCEPT !.vec = TRUE]
           /\ Effect("bump", base) = [base EXCEPT !.version = 2]
  BY DEF Effect, SchemaVersion

LEMMA MigrationEffects ==
    ASSUME NEW base \in Database
    PROVE  /\ Effect("drop", base) = [base EXCEPT !.table = "dropped"]
           /\ Effect("add", base) = [base EXCEPT !.table = "v2"]
           /\ Effect("dropFts", base) = [base EXCEPT !.fts = "none"]
           /\ Effect("addJobs", base) = [base EXCEPT !.jobs =
                [d \in Docs |-> IF Wanting(d, base) THEN base.jobs[d] + 1 ELSE base.jobs[d]]]
           /\ Effect("requeue", base) = [base EXCEPT !.status =
                [d \in Docs |-> IF Wanting(d, base) THEN "queued" ELSE base.status[d]]]
  BY DEF Effect

\* A statement of the creation goes forward on each table and on the version,
\* and touches nothing else.
LEMMA CreationForward ==
    ASSUME NEW base \in Database, NEW n \in 1 .. 4
    PROVE  LET new == Effect(Creation[n], base) IN
           /\ new \in Database
           /\ new.status = base.status /\ new.summary = base.summary /\ new.jobs = base.jobs
           /\ new.version = IF n = 4 THEN 2 ELSE base.version
           /\ new.table = IF n = 1 /\ base.table = "none" THEN "v2" ELSE base.table
           /\ new.fts = IF n = 2 /\ base.fts = "none" THEN "v2" ELSE base.fts
           /\ n = 3 => new.vec
           /\ n # 3 => new.vec = base.vec
  <1>1. CASE n = 1
    <2>1. Creation[n] = "create"
      BY <1>1 DEF Creation
    <2> QED
      BY <1>1, <2>1, CreationEffects DEF Database, SchemaVersion
  <1>2. CASE n = 2
    <2>1. Creation[n] = "createFts"
      BY <1>2 DEF Creation
    <2> QED
      BY <1>2, <2>1, CreationEffects DEF Database, SchemaVersion
  <1>3. CASE n = 3
    <2>1. Creation[n] = "createVec"
      BY <1>3 DEF Creation
    <2> DEFINE new == Effect(Creation[n], base)
    <2>2. new = [base EXCEPT !.vec = TRUE]
      BY <2>1, CreationEffects
    <2>3. /\ new \in Database
          /\ new.status = base.status /\ new.summary = base.summary /\ new.jobs = base.jobs
          /\ new.version = base.version /\ new.table = base.table /\ new.fts = base.fts
      BY <2>2 DEF Database
    <2>4. new.vec = TRUE
      BY <2>2 DEF Database
    <2> HIDE DEF new
    <2> QED
      BY <1>3, <2>3, <2>4 DEF new
  <1>4. CASE n = 4
    <2>1. Creation[n] = "bump"
      BY <1>4 DEF Creation
    <2> QED
      BY <1>4, <2>1, CreationEffects DEF Database, SchemaVersion
  <1> QED
    BY <1>1, <1>2, <1>3, <1>4

LEMMA CreateKeeps ==
    ASSUME VersionInv, NEW c \in Conns, Create(c)
    PROVE  VersionInv'
  <1> DEFINE n == conn[c].at
  <1>1. /\ conn[c].pc = "create" /\ n \in 1 .. 4 /\ writer = Unlocked /\ db \in Database
        /\ db' = Effect(Creation[n], db)
        /\ UNCHANGED <<draft, writer, faults, crashes, wasDone>>
    BY Lengths DEF Create, VersionInv, Places, MigrationTypeOK
  <1>2. /\ conn' \in [Conns -> Conn]
        /\ \/ n < 4 /\ conn'[c].pc = "create" /\ conn'[c].at = n + 1
           \/ n = 4 /\ conn'[c].pc = "open"
        /\ \A b \in Conns \ {c} : conn'[b] = conn[b]
    <2>1. CASE n < 4
      BY <1>1, <2>1, Lengths DEF Create, VersionInv, MigrationTypeOK, Conn
    <2>2. CASE n = 4
      BY <1>1, <2>2, Lengths, SetConnFrame DEF Create, VersionInv, MigrationTypeOK, Pc
    <2> QED
      BY <1>1, <2>1, <2>2
  <1>3. /\ db' \in Database
        /\ db'.status = db.status /\ db'.summary = db.summary /\ db'.jobs = db.jobs
        /\ db'.version = IF n = 4 THEN 2 ELSE db.version
        /\ db'.table = IF n = 1 /\ db.table = "none" THEN "v2" ELSE db.table
        /\ db'.fts = IF n = 2 /\ db.fts = "none" THEN "v2" ELSE db.fts
        /\ n = 3 => db'.vec
        /\ n # 3 => db'.vec = db.vec
    BY <1>1, CreationForward
  <1>4. /\ db.version \in {0, 2} /\ wasDone = {}
        /\ n >= 2 => db.table = "v2"
        /\ n >= 3 => db.fts = "v2"
        /\ n >= 4 => db.vec
    BY <1>1 DEF VersionInv, Creating, Database, SchemaVersion
  <1>5. /\ db.table \in {"none", "v2"} /\ db.fts \in {"none", "v2"}
        /\ \A d \in Docs : db.jobs[d] = 0
    BY <1>1, <1>4 DEF VersionInv, NeverBricked, RequeuedOnce, Untouched, Database, SchemaVersion
  <1>6. MigrationTypeOK' /\ Places' /\ Holding'
    BY <1>1, <1>2, <1>3, Lengths, MigrationAssumption
       DEF VersionInv, MigrationTypeOK, Places, Holding
  <1>7. NeverBricked'
    BY <1>1, <1>3, <1>4, <1>5 DEF VersionInv, NeverBricked
  <1>8. RequeuedOnce' /\ Untouched'
    BY <1>1, <1>3, <1>4, <1>5 DEF RequeuedOnce, Untouched
  <1>9. Creating'
    BY <1>1, <1>2, <1>3, <1>4, <1>5 DEF VersionInv, Creating
  <1>10. Drafting'
    BY <1>1, MigrationAssumption DEF Drafting
  <1> QED
    BY <1>6, <1>7, <1>8, <1>9, <1>10 DEF VersionInv

LEMMA FileKeeps ==
    ASSUME VersionInv, NEW d \in Docs, File(d)
    PROVE  VersionInv'
  <1>1. /\ db.version = 2 /\ writer = Unlocked /\ db \in Database
        /\ db' = [db EXCEPT !.status[d] = "done", !.summary[d] = TRUE]
        /\ UNCHANGED <<draft, writer, conn, faults, crashes, wasDone>>
    BY DEF File, SchemaVersion, VersionInv, MigrationTypeOK
  <1>2. /\ db' \in Database
        /\ db'.version = db.version /\ db'.table = db.table /\ db'.fts = db.fts
        /\ db'.vec = db.vec /\ db'.jobs = db.jobs
        /\ db'.summary[d] /\ \A e \in Docs \ {d} : db'.status[e] = db.status[e]
                                                   /\ db'.summary[e] = db.summary[e]
    BY <1>1 DEF Database
  <1>3. MigrationTypeOK' /\ Places' /\ Holding'
    BY <1>1, <1>2 DEF VersionInv, MigrationTypeOK, Places, Holding
  <1>4. NeverBricked' /\ RequeuedOnce' /\ Untouched'
    BY <1>1, <1>2 DEF VersionInv, NeverBricked, RequeuedOnce, Untouched, SchemaVersion
  <1>5. Creating'
    BY <1>1, <1>2 DEF VersionInv, Creating
  <1>6. Drafting'
    BY <1>1, MigrationAssumption DEF Drafting
  <1> QED
    BY <1>3, <1>4, <1>5, <1>6 DEF VersionInv

-----------------------------------------------------------------------------
(* The migration *)

\* One statement of the script takes what n - 1 statements made of version 1
\* to what n of them make.
LEMMA ScriptStep ==
    ASSUME VersionInv, NEW c \in Conns, NEW n \in 1 .. 7,
           conn[c].pc = "migrate", conn[c].at = n, writer \in {Unlocked, c},
           ~Raises(Statement(n), Seen(c)),
           draft' = Effect(Statement(n), Seen(c)), UNCHANGED <<db, wasDone>>
    PROVE  db.version = 1 /\ draft' \in Database /\ Drafted(n + 1)'
  <1>1. db \in Database /\ draft \in Database
    BY DEF VersionInv, MigrationTypeOK
  <1>2. CASE n = 1
    <2>1. writer = Unlocked /\ Seen(c) = db
      BY <1>2, MigrationAssumption DEF VersionInv, Holding, Seen
    <2>2. Statement(n) = "drop"
      BY <1>2 DEF Statement, Script
    <2>3. db.table = "v1" /\ draft' = [db EXCEPT !.table = "dropped"]
      BY <1>1, <2>1, <2>2, MigrationEffects DEF Raises
    <2>4. db.version = 1 /\ db.fts = "v1" /\ \A d \in Docs : db.jobs[d] = 0
      BY <1>1, <2>3 DEF VersionInv, NeverBricked, Database, SchemaVersion
    <2>5. /\ draft' \in Database /\ draft'.table = "dropped" /\ draft'.version = 1
          /\ draft'.fts = "v1" /\ draft'.vec = db.vec /\ draft'.status = db.status
          /\ draft'.summary = db.summary /\ draft'.jobs = db.jobs
      BY <1>1, <2>3, <2>4 DEF Database
    <2>6. db.vec /\ \A d \in Docs : ~db.summary[d] /\ (db.status[d] = "done") = (d \in wasDone)
      BY <2>4 DEF VersionInv, Untouched
    <2>7. draft'.vec /\ \A d \in Docs :
             ~draft'.summary[d] /\ (draft'.status[d] = "done") = (d \in wasDone)
      BY <2>5, <2>6
    <2> QED
      BY <1>2, <2>4, <2>5, <2>7 DEF Drafted
  <1>3. CASE n > 1
    <2>1. writer = c /\ Seen(c) = draft /\ db.version = 1 /\ Drafted(n)
      BY <1>1, <1>3 DEF VersionInv, Holding, Drafting, Stage, Seen
    <2>2. CASE n = 2
      <3>1. draft' = [draft EXCEPT !.table = "v2"]
        BY <1>1, <2>1, <2>2, MigrationEffects DEF Statement, Script
      <3> QED
        BY <1>1, <2>1, <2>2, <3>1 DEF Drafted, Database
    <2>3. CASE n = 3
      <3>1. draft' = [draft EXCEPT !.fts = "none"]
        BY <1>1, <2>1, <2>3, MigrationEffects DEF Statement, Script
      <3> QED
        BY <1>1, <2>1, <2>3, <3>1 DEF Drafted, Database
    <2>4. CASE n = 4
      <3> DEFINE jobs == [d \in Docs |->
                            IF Wanting(d, draft) THEN draft.jobs[d] + 1 ELSE draft.jobs[d]]
      <3>1. draft' = [draft EXCEPT !.jobs = jobs]
        BY <1>1, <2>1, <2>4, MigrationEffects DEF Statement, Script
      <3>2. \A d \in Docs : Wanting(d, draft) = (d \in wasDone)
        BY <2>1, <2>4 DEF Drafted, Wanting
      <3>3. jobs \in [Docs -> Nat] /\ \A d \in Docs : jobs[d] = IF d \in wasDone THEN 1 ELSE 0
        BY <1>1, <2>1, <2>4, <3>2 DEF Drafted, Database
      <3> HIDE DEF jobs
      <3> QED
        BY <1>1, <2>1, <2>4, <3>1, <3>3 DEF Drafted, Database
    <2>5. CASE n = 5
      <3> DEFINE status == [d \in Docs |-> IF Wanting(d, draft) THEN "queued" ELSE draft.status[d]]
      <3>1. draft' = [draft EXCEPT !.status = status]
        BY <1>1, <2>1, <2>5, MigrationEffects DEF Statement, Script
      <3>2. \A d \in Docs : Wanting(d, draft) = (d \in wasDone)
        BY <2>1, <2>5 DEF Drafted, Wanting
      <3>3. /\ status \in [Docs -> {"done", "failed", "queued"}]
            /\ \A d \in Docs : status[d] = IF d \in wasDone THEN "queued" ELSE draft.status[d]
        BY <1>1, <3>2 DEF Database
      <3> HIDE DEF status
      <3> QED
        BY <1>1, <2>1, <2>5, <3>1, <3>3 DEF Drafted, Database
    <2>6. CASE n = 6
      <3>1. draft' = [draft EXCEPT !.fts = "v2"]
        BY <1>1, <2>1, <2>6, CreationEffects DEF Statement, Script, Drafted
      <3> QED
        BY <1>1, <2>1, <2>6, <3>1 DEF Drafted, Database
    <2>7. CASE n = 7
      <3>1. draft' = [draft EXCEPT !.version = 2]
        BY <1>1, <2>1, <2>7, CreationEffects DEF Statement, Script
      <3> QED
        BY <1>1, <2>1, <2>7, <3>1 DEF Drafted, Database, SchemaVersion
    <2> QED
      BY <1>1, <1>3, <2>2, <2>3, <2>4, <2>5, <2>6, <2>7
  <1> QED
    BY <1>1, <1>2, <1>3

LEMMA MigrateKeeps ==
    ASSUME VersionInv, NEW c \in Conns, Migrate(c)
    PROVE  VersionInv'
  <1>0. PICK n \in 1 .. 7 : conn[c].at = n
    BY Lengths DEF VersionInv, MigrationTypeOK, Conn
  <1>1. /\ conn[c].pc = "migrate" /\ writer \in {Unlocked, c} /\ writer' = c
        /\ UNCHANGED <<db, faults, crashes, wasDone>>
    BY DEF Migrate
  <1>2. db.version = 1 /\ draft' \in Database /\ Drafted(n + 1)'
    BY <1>0, ScriptStep DEF Migrate
  <1>3. /\ conn' \in [Conns -> Conn]
        /\ \/ n < 7 /\ conn'[c].pc = "migrate" /\ conn'[c].at = n + 1
           \/ n = 7 /\ conn'[c].pc = "commit"
        /\ \A b \in Conns \ {c} : conn'[b] = conn[b]
    <2>1. CASE n < 7
      BY <1>0, <1>1, <2>1, Lengths DEF Migrate, Advance, VersionInv, MigrationTypeOK, Conn
    <2>2. CASE n = 7
      BY <1>0, <1>1, <2>2, Lengths, SetConnFrame DEF Migrate, Advance, VersionInv, MigrationTypeOK, Pc
    <2> QED
      BY <1>0, <1>1, <2>1, <2>2
  <1>4. \A b \in Conns \ {c} : writer # b
    BY <1>1, MigrationAssumption
  <1>5. Holding' /\ Places'
    BY <1>0, <1>1, <1>3, <1>4 DEF VersionInv, Holding, Places
  <1>6. MigrationTypeOK'
    BY <1>0, <1>1, <1>2, <1>3 DEF VersionInv, MigrationTypeOK
  <1>7. NeverBricked' /\ RequeuedOnce' /\ Untouched'
    BY <1>1 DEF VersionInv, NeverBricked, RequeuedOnce, Untouched
  <1>8. Creating'
    BY <1>1, <1>3 DEF VersionInv, Creating
  <1>9. Drafting'
    <2>1. Stage(c)' = n + 1
      BY <1>0, <1>1, <1>3, Lengths DEF Stage
    <2> QED
      BY <1>0, <1>1, <1>2, <2>1 DEF Drafting, Drafted
  <1> QED
    BY <1>5, <1>6, <1>7, <1>8, <1>9 DEF VersionInv

LEMMA CommitKeeps ==
    ASSUME VersionInv, NEW c \in Conns, Commit(c)
    PROVE  VersionInv'
  <1>1. /\ conn[c].pc = "commit" /\ writer = c /\ writer' = Unlocked /\ db' = draft
        /\ UNCHANGED <<draft, faults, crashes, wasDone>>
    BY DEF Commit, Seen, VersionInv, Holding
  <1>2. db.version = 1 /\ Drafted(8)
    BY <1>1, Lengths DEF VersionInv, Drafting, Stage
  <1>3. /\ conn' \in [Conns -> Conn]
        /\ conn'[c].pc = "open"
        /\ \A b \in Conns \ {c} : conn'[b] = conn[b]
    BY SetConnFrame DEF Commit, VersionInv, MigrationTypeOK, Pc
  <1>4. MigrationTypeOK' /\ Places'
    BY <1>1, <1>3 DEF VersionInv, MigrationTypeOK, Places
  <1>5. Holding' /\ Drafting'
    BY <1>1, <1>3, MigrationAssumption DEF VersionInv, Holding, Drafting
  <1>6. NeverBricked' /\ Untouched'
    BY <1>1, <1>2 DEF NeverBricked, Untouched, Drafted
  <1>7. RequeuedOnce'
    BY <1>1, <1>2 DEF RequeuedOnce, Drafted
  <1>8. Creating'
    BY <1>2, <1>3 DEF VersionInv, Creating
  <1> QED
    BY <1>4, <1>5, <1>6, <1>7, <1>8 DEF VersionInv

LEMMA InitKeeps == MigrationInit => VersionInv
  <1> SUFFICES ASSUME MigrationInit PROVE VersionInv
    OBVIOUS
  <1>1. /\ draft = db /\ writer = Unlocked /\ wasDone \subseteq Docs /\ faults = 0 /\ crashes = 0
        /\ conn \in [Conns -> Conn] /\ \A c \in Conns : conn[c].pc = "idle"
    BY Lengths DEF MigrationInit, Conn, Pc
  <1>2. db \in Database /\ NeverBricked /\ RequeuedOnce /\ Untouched
    <2>1. ASSUME NEW version \in {0, 1, 2}, NEW shape \in {"none", "v1", "v2"},
                 db = Start(version, shape)
          PROVE  /\ db \in Database
                 /\ db.version = version /\ db.table = shape /\ db.fts = shape
                 /\ version # 0 => db.vec
                 /\ \A d \in Docs : /\ db.status[d] = IF d \in wasDone THEN "done" ELSE "failed"
                                    /\ ~db.summary[d] /\ db.jobs[d] = 0
      <3>1. /\ db \in Database
            /\ db.version = version /\ db.table = shape /\ db.fts = shape
            /\ \A d \in Docs : /\ db.status[d] = IF d \in wasDone THEN "done" ELSE "failed"
                               /\ db.jobs[d] = 0
        BY <2>1 DEF Start, Database, SchemaVersion
      <3>2. db.vec = (version # 0) /\ \A d \in Docs : db.summary[d] = FALSE
        BY <2>1 DEF Start
      <3> QED
        BY <3>1, <3>2
    <2>2. CASE db = Start(0, "none") /\ wasDone = {}
      BY <2>1, <2>2 DEF NeverBricked, RequeuedOnce, Untouched, SchemaVersion
    <2>3. CASE db = Start(1, "v1")
      BY <2>1, <2>3 DEF NeverBricked, RequeuedOnce, Untouched, SchemaVersion
    <2>4. CASE db = Start(2, "v2") /\ wasDone = {}
      BY <2>1, <2>4 DEF NeverBricked, RequeuedOnce, Untouched, SchemaVersion
    <2> QED
      BY <2>2, <2>3, <2>4 DEF MigrationInit
  <1>3. MigrationTypeOK
    BY <1>1, <1>2, MigrationAssumption DEF MigrationTypeOK
  <1>4. Places /\ Holding /\ Creating /\ Drafting
    BY <1>1, MigrationAssumption DEF Places, Holding, Creating, Drafting
  <1> QED
    BY <1>2, <1>3, <1>4 DEF VersionInv

LEMMA VersionInvariant == MigrationSpec => []VersionInv
  <1>1. VersionInv /\ [MigrationNext]_migrationVars => VersionInv'
    <2> SUFFICES ASSUME VersionInv, [MigrationNext]_migrationVars PROVE VersionInv'
      OBVIOUS
    <2>1. CASE UNCHANGED migrationVars
      BY <2>1, FramesOnly DEF migrationVars, VersionInv, MigrationTypeOK
    <2>2. ASSUME NEW c \in Conns, Connect(c) \/ ConnStep(c)
          PROVE  VersionInv'
      BY <2>2, ConnectKeeps, CreateKeeps, MigrateKeeps, CommitKeeps, TooLateKeeps, FailKeeps
         DEF ConnStep
    <2> QED
      BY <2>1, <2>2, FileKeeps, CrashKeeps DEF MigrationNext
  <1> QED
    BY InitKeeps, <1>1, PTL DEF MigrationSpec

\* Whatever raises and whenever the process dies, what is committed is a whole
\* version, or a creation that the next connection completes (db.py:112-117).
THEOREM NeverBrickedHolds == MigrationSpec => []NeverBricked
  <1>1. VersionInv => NeverBricked
    BY DEF VersionInv
  <1> QED
    BY VersionInvariant, <1>1, PTL

\* However many connections start the migration, a document that version 1 had
\* processed is given exactly one job, others none (db.py:146-151).
THEOREM RequeuedOnceHolds == MigrationSpec => []RequeuedOnce
  <1>1. VersionInv => RequeuedOnce
    BY DEF VersionInv
  <1> QED
    BY VersionInvariant, <1>1, PTL

-----------------------------------------------------------------------------
(* Failures *)

\* Only a database that has a version is migrated.
Begun == \A c \in Conns : conn[c].pc = "migrate" => db.version # 0

LEMMA VersionsGrow ==
    ASSUME VersionInv, [MigrationNext]_migrationVars
    PROVE  db'.version = db.version \/ db'.version = 2
  <1>1. ASSUME NEW c \in Conns, Create(c)
        PROVE  db'.version = db.version \/ db'.version = 2
    BY <1>1, Lengths, CreationForward DEF Create, VersionInv, Places, MigrationTypeOK
  <1>2. ASSUME NEW c \in Conns, Commit(c)
        PROVE  db'.version = 2
    BY <1>2, Lengths DEF Commit, Seen, VersionInv, Holding, Drafting, Drafted, Stage
  <1>3. ASSUME NEW d \in Docs, File(d)
        PROVE  db'.version = db.version
    BY <1>3 DEF File, VersionInv, MigrationTypeOK, Database
  <1>4. CASE db' = db
    BY <1>4
  <1> QED
    BY <1>1, <1>2, <1>3, <1>4
       DEF MigrationNext, migrationVars, ConnStep, Connect, Migrate, TooLate, Fail, Crash

LEMMA BegunKept ==
    ASSUME VersionInv, Begun, [MigrationNext]_migrationVars
    PROVE  Begun'
  <1>1. \A c \in Conns : conn'[c].pc = "migrate" => conn[c].pc = "migrate" \/ db.version # 0
    <2>1. ASSUME NEW c \in Conns, Connect(c) \/ ConnStep(c),
                 NEW b \in Conns, conn'[b].pc = "migrate"
          PROVE  conn[b].pc = "migrate" \/ db.version # 0
      BY <2>1 DEF Connect, ConnStep, Create, Migrate, Advance, Commit, TooLate, Fail, SetConn,
                  VersionInv, MigrationTypeOK, Conn
    <2>2. ASSUME NEW b \in Conns, conn'[b].pc = "migrate", Crash \/ UNCHANGED conn
          PROVE  conn[b].pc = "migrate"
      BY <2>2 DEF Crash
    <2> QED
      BY <2>1, <2>2 DEF MigrationNext, migrationVars, File
  <1> QED
    BY <1>1, VersionsGrow DEF Begun, VersionInv, MigrationTypeOK, Database

LEMMA FailuresKept ==
    ASSUME VersionInv, Begun, FailureMeansDone, [MigrationNext]_migrationVars
    PROVE  FailureMeansDone'
  <1> SUFFICES ASSUME faults' = 0, crashes' = 0, NEW c \in Conns, conn'[c].pc = "failed"
               PROVE  db'.version = 2
    BY DEF FailureMeansDone, SchemaVersion
  <1>0. faults \in Nat /\ crashes \in Nat
    BY MigrationAssumption DEF VersionInv, MigrationTypeOK
  <1>1. ~Crash /\ \A b \in Conns : ~Fail(b)
    BY <1>0 DEF Crash, Fail
  <1>2. /\ faults = 0 /\ crashes = 0
        /\ conn[c].pc = "failed" \/ TooLate(c)
    <2>1. ASSUME NEW b \in Conns, Connect(b) \/ Create(b) \/ Migrate(b) \/ Commit(b)
          PROVE  faults' = faults /\ crashes' = crashes /\ conn[c].pc = "failed"
      BY <2>1
         DEF Connect, Create, Migrate, Advance, Commit, SetConn, VersionInv, MigrationTypeOK, Conn
    <2>2. ASSUME NEW b \in Conns, TooLate(b)
          PROVE  faults' = faults /\ crashes' = crashes /\ (b = c \/ conn[c].pc = "failed")
      BY <2>2 DEF TooLate, SetConn, VersionInv, MigrationTypeOK
    <2>3. ASSUME UNCHANGED migrationVars \/ \E d \in Docs : File(d)
          PROVE  faults' = faults /\ crashes' = crashes /\ conn[c].pc = "failed"
      BY <2>3 DEF migrationVars, File
    <2> QED
      BY <1>1, <2>1, <2>2, <2>3 DEF MigrationNext, ConnStep
  <1>3. CASE conn[c].pc = "failed"
    BY <1>2, <1>3, VersionsGrow DEF FailureMeansDone, SchemaVersion
  <1>4. CASE TooLate(c)
    <2>1. db.table # "v1" /\ conn[c].pc = "migrate" /\ db \in Database
      BY <1>4 DEF TooLate, Raises, VersionInv, MigrationTypeOK
    <2>2. db.version = 2
      BY <2>1 DEF VersionInv, NeverBricked, Begun, Database, SchemaVersion
    <2> QED
      BY <2>2, VersionsGrow
  <1> QED
    BY <1>2, <1>3, <1>4

\* Without a fault or a crash, connect() only raises when another connection
\* has brought the database up to date, so the next call succeeds
\* (db.py:196-197).
THEOREM FailureMeansDoneHolds == MigrationSpec => []FailureMeansDone
  <1>1. MigrationInit => Begun /\ FailureMeansDone
    BY DEF MigrationInit, Begun, FailureMeansDone
  <1> QED
    BY <1>1, VersionInvariant, BegunKept, FailuresKept, PTL DEF MigrationSpec
=============================================================================
