----------------------------- MODULE Migration -----------------------------
(***************************************************************************)
(* The migrate command of the ingest service: migrateRun                   *)
(* (server/cmd/ingest-service/daemon/migrate.go) takes over a database     *)
(* that golang-migrate managed, in BootstrapFromGolangMigrate              *)
(* (server/internal/ingest/migration/bootstrap.go), and lets goose apply   *)
(* the migrations that are missing, each of which creates one table.       *)
(*                                                                         *)
(* Several hosts may run the command at the same time.  PostgreSQL makes a *)
(* transaction that creates or drops a table wait for another that did so  *)
(* before; both tables are in the same transaction here, so one lock       *)
(* stands for both.                                                        *)
(***************************************************************************)
EXTENDS Integers, FiniteSets

CONSTANTS Migrators,   \* processes that run the command
          Last,        \* the newest migration of the directory
          Expected,    \* the length of expectedTables
          MaxFaults    \* bound: errors of the database, and kills

VARIABLES tables,      \* the migrations whose table exists
          old,         \* schema_migrations: version and dirty, or NoOld
          goose,       \* the versions in goose_db_version; {} when there is none
          pc,          \* where each process is
          version,     \* the version it has read
          lock,        \* the process whose transaction holds the lock, or NoLock
          faults,
          start        \* history: what the database was at first

state == <<tables, old, goose>>
migration == <<state, pc, version, lock, faults, start>>

Versions == 1 .. Last
NoOld == [version |-> -1, dirty |-> FALSE]
NoLock == "none"
InTx == {"count", "commit"}

\* A fresh database, one golang-migrate left (perhaps dirty, or with a table
\* somebody dropped), one goose manages, and one that has both version tables.
Starts ==
    {[tables |-> {}, old |-> NoOld, goose |-> {}]}
    \cup [tables : SUBSET Versions,
          old : [version : 0 .. Last, dirty : BOOLEAN], goose : {{}}]
    \cup {[tables |-> 1 .. v, old |-> o, goose |-> 0 .. v] :
             v \in 0 .. Last, o \in {NoOld}}
    \cup {[tables |-> 1 .. v, old |-> [version |-> v, dirty |-> FALSE],
           goose |-> 0 .. v] : v \in 0 .. Last}

MigrationTypeOK ==
    /\ tables \in SUBSET Versions
    /\ old \in [version : -1 .. Last, dirty : BOOLEAN]
    /\ goose \in SUBSET (0 .. Last)
    /\ pc \in [Migrators -> {"idle", "check", "read", "verify", "begin", "up",
                             "done", "failed"} \cup InTx]
    /\ version \in [Migrators -> 0 .. Last]
    /\ lock \in Migrators \cup {NoLock}
    /\ lock # NoLock => pc[lock] \in InTx
    /\ faults \in 0 .. MaxFaults
    /\ start \in Starts

MigrationInit ==
    /\ start \in Starts
    /\ tables = start.tables
    /\ old = start.old
    /\ goose = start.goose
    /\ pc = [m \in Migrators |-> "idle"]
    /\ version = [m \in Migrators |-> 0]
    /\ lock = NoLock
    /\ faults = 0

-----------------------------------------------------------------------------
Goto(m, l) == pc' = [pc EXCEPT ![m] = l]
Free(m) == IF lock = m THEN NoLock ELSE lock

\* The command is started, for the first time or after it failed.
Run(m) ==
    /\ pc[m] \in {"idle", "failed"}
    /\ Goto(m, "check")
    /\ UNCHANGED <<state, version, lock, faults, start>>

\* Without schema_migrations there is nothing to take over.
Check(m) ==
    /\ pc[m] = "check"
    /\ Goto(m, IF old = NoOld THEN "up" ELSE "read")
    /\ UNCHANGED <<state, version, lock, faults, start>>

\* The version is read; the query fails if the table has gone meanwhile.
ReadVersion(m) ==
    /\ pc[m] = "read"
    /\ IF old = NoOld \/ old.dirty
         THEN Goto(m, "failed") /\ UNCHANGED version
         ELSE Goto(m, "verify") /\ version' = [version EXCEPT ![m] = old.version]
    /\ UNCHANGED <<state, lock, faults, start>>

\* The tables looked for at version v: those of the migrations up to it, as far
\* as expectedTables goes.
ExpectedTables(v) == {x \in 1 .. Expected : x <= v}

\* Mutant of VerifyExpectedTables: one table too few is looked for.
VerifyAllButLast(m) ==
    /\ pc[m] = "verify"
    /\ Goto(m, IF ExpectedTables(version[m] - 1) \subseteq tables THEN "begin" ELSE "failed")
    /\ UNCHANGED <<state, version, lock, faults, start>>

\* verifyExpectedTables
VerifyExpectedTables(m) ==
    /\ pc[m] = "verify"
    /\ Goto(m, IF ExpectedTables(version[m]) \subseteq tables THEN "begin" ELSE "failed")
    /\ UNCHANGED <<state, version, lock, faults, start>>

\* The transaction begins with CREATE TABLE IF NOT EXISTS.  When the table is
\* not there the statement waits for a transaction that makes it.
Create(m) ==
    /\ pc[m] = "begin"
    /\ goose = {} => lock = NoLock
    /\ Goto(m, "count")
    /\ lock' = IF goose = {} THEN m ELSE lock
    /\ UNCHANGED <<state, version, faults, start>>

\* A statement that waited may fail although it says IF NOT EXISTS.
CreateFails(m) ==
    /\ pc[m] = "begin"
    /\ goose # {}
    /\ start.goose = {}
    /\ Goto(m, "failed")
    /\ UNCHANGED <<state, version, lock, faults, start>>

\* COUNT and DROP TABLE: the DROP waits for the lock, and fails when another
\* process has dropped the table.  The deferred Rollback ends the transaction.
Drop(m) ==
    /\ pc[m] = "count"
    /\ lock \in {NoLock, m}
    /\ IF old = NoOld
         THEN Goto(m, "failed") /\ lock' = Free(m)
         ELSE Goto(m, "commit") /\ lock' = m
    /\ UNCHANGED <<state, version, faults, start>>

\* Mutant of Commit: the current version is left out of the seed.
CommitShort(m) ==
    /\ pc[m] = "commit"
    /\ goose' = IF goose = {} THEN 0 .. (version[m] - 1) ELSE goose
    /\ old' = NoOld
    /\ lock' = Free(m)
    /\ Goto(m, "up")
    /\ UNCHANGED <<tables, version, faults, start>>

\* Commit makes the seed and the DROP visible at once.  Nothing is seeded when
\* there were rows already.
Commit(m) ==
    /\ pc[m] = "commit"
    /\ goose' = IF goose = {} THEN 0 .. version[m] ELSE goose
    /\ old' = NoOld
    /\ lock' = Free(m)
    /\ Goto(m, "up")
    /\ UNCHANGED <<tables, version, faults, start>>

\* goose makes its table, then applies what is missing, one transaction each:
\* the table of the migration and the row that says so.
Up(m) ==
    /\ pc[m] = "up"
    /\ lock = NoLock
    /\ LET missing == Versions \ goose
       IN  IF goose = {} THEN goose' = {0} /\ UNCHANGED <<tables, pc>>
           ELSE IF missing = {} THEN Goto(m, "done") /\ UNCHANGED <<tables, goose>>
           ELSE \E v \in missing :
                  /\ \A x \in missing : v <= x
                  /\ IF v \in tables
                       THEN Goto(m, "failed") /\ UNCHANGED <<tables, goose>>
                       ELSE /\ tables' = tables \cup {v}
                            /\ goose' = goose \cup {v}
                            /\ UNCHANGED pc
    /\ UNCHANGED <<old, version, lock, faults, start>>

\* Two processes apply the same migration: the later one fails.
UpFails(m) ==
    /\ pc[m] = "up"
    /\ \E n \in Migrators \ {m} : pc[n] \in {"up", "done"}
    /\ Goto(m, "failed")
    /\ UNCHANGED <<state, version, lock, faults, start>>

\* Mutant of Fault: the transaction is left open.
FaultNoRollback(m) ==
    /\ faults < MaxFaults
    /\ pc[m] \notin {"idle", "done", "failed"}
    /\ faults' = faults + 1
    /\ Goto(m, "failed")
    /\ UNCHANGED <<state, version, lock, start>>

\* Any statement fails, or the process is killed: what was not committed is
\* rolled back.
Fault(m) ==
    /\ faults < MaxFaults
    /\ pc[m] \notin {"idle", "done", "failed"}
    /\ faults' = faults + 1
    /\ Goto(m, "failed")
    /\ lock' = Free(m)
    /\ UNCHANGED <<state, version, start>>

Migrate(m) ==
    \/ Run(m) \/ Check(m) \/ ReadVersion(m) \/ VerifyExpectedTables(m)
    \/ Create(m) \/ Drop(m) \/ Commit(m) \/ Up(m)

MigrationNext ==
    \E m \in Migrators : Migrate(m) \/ CreateFails(m) \/ UpFails(m) \/ Fault(m)

\* A command that failed is run again; the database answers.
MigrationSpec ==
    /\ MigrationInit
    /\ [][MigrationNext]_migration
    /\ \A m \in Migrators : WF_migration(Migrate(m)) /\ SF_migration(Up(m))

-----------------------------------------------------------------------------
\* What a database says of itself is true at the start.
Consistent ==
    /\ ~start.old.dirty
    /\ start.tables = 1 .. Cardinality(start.tables)
    /\ start.old # NoOld => start.old.version = Cardinality(start.tables)

\* At every step, also between a crash and the next try, one of the two version
\* tables tells which tables exist, and no table is lost (bootstrap.go:28-36).
VersionTold ==
    Consistent =>
        /\ start.tables \subseteq tables
        /\ IF goose = {} THEN tables = start.tables /\ old = start.old
           ELSE tables = goose \ {0}

\* A database that is dirty, or lacks an expected table of the version it claims,
\* is left exactly as it is, however often and by however many the command is
\* run (bootstrap.go:63-71).
UnsureUntouched ==
    /\ start.old # NoOld
    /\ start.old.dirty \/ ~(ExpectedTables(start.old.version) \subseteq start.tables)
    => tables = start.tables /\ old = start.old /\ goose = start.goose

\* Run until it succeeds, the command brings a consistent database to the
\* newest migration and removes the old version table, although processes
\* race, statements fail and processes are killed (migrate.go:55-84).
EventuallyMigrated ==
    Consistent => <>(tables = Versions /\ old = NoOld /\ goose = 0 .. Last)

=============================================================================
