----------------------------- MODULE Migrations ------------------------------
(***************************************************************************)
(* Start-up of several processes on one database: Open of each backend with *)
(* its migrations.  A process knows the migrations 1..Known[p] of its       *)
(* binary; old and new binaries start at once, fail, die and are started    *)
(* again by whoever supervises them.                                        *)
(*                                                                          *)
(* SQLite reads the history first and applies each migration in a           *)
(* transaction of its own.  PostgreSQL does everything in one transaction   *)
(* under an advisory lock.  MongoDB creates what is missing and then        *)
(* records it, without a transaction.  The backend is a variable that no    *)
(* step changes.                                                            *)
(***************************************************************************)
EXTENDS Integers, FiniteSetsExt

CONSTANTS Processes, NULL,
          Known,       \* number of migrations each process's binary has
          MaxFaults    \* bound: crashes, timeouts and failed statements

ASSUME MigrationAssumption ==
    /\ Known \in [Processes -> Nat \ {0}]    \* validateMigrations
    /\ NULL \notin Processes
    /\ MaxFaults \in Nat

VARIABLES backend,
          schema,    \* how often each migration's statements have taken effect
          history,   \* versions in schema_migrations
          lock,      \* who has the advisory lock, or SQLite's write lock
          proc,      \* what each process is doing
          faults

migrationVars == <<backend, schema, history, lock, proc, faults>>

Versions == UNION {1..Known[p] : p \in Processes}

Newest == Max(history \cup {0})

\* version: applied versions the process has read or reached; done: versions
\* applied in its open transaction; found: newest version in the history when
\* the process started or last looked at it.
Starting == [pc |-> "start", version |-> 0, done |-> {}, found |-> Newest]

Down == [pc |-> "down", version |-> 0, done |-> {}, found |-> 0]

MigrationInit ==
    /\ backend \in {"sqlite", "postgres", "mongodb"}
    /\ schema = [i \in Versions |-> 0]
    /\ history = {}
    /\ lock = NULL
    /\ proc = [p \in Processes |-> Down]
    /\ faults = 0

Set(p, state) == proc' = [proc EXCEPT ![p] = state]

Go(p, pc) == Set(p, [proc[p] EXCEPT !.pc = pc])

On(b, p, pc) == backend = b /\ proc[p].pc = pc

Start(p) ==
    /\ proc[p].pc = "down"
    /\ Set(p, Starting)
    /\ UNCHANGED <<backend, schema, history, lock, faults>>

\* The deferred Rollback and Close, or the server noticing that the client is
\* gone.  A transaction-scoped lock goes with the transaction.
Release(p) == lock' = IF lock = p THEN NULL ELSE lock

\* Mutant: a session-scoped lock, which nobody gives back.
StopKeepingLock(p) == Set(p, Down) /\ UNCHANGED <<backend, schema, history, lock>>

\* Open returns an error or the process dies.
Stop(p) == Set(p, Down) /\ Release(p) /\ UNCHANGED <<backend, schema, history>>

Fault(p) ==
    /\ proc[p].pc # "down"
    /\ faults < MaxFaults
    /\ faults' = faults + 1
    /\ Stop(p)

\* validateMigrationHistory and migrationVersion: versions without a gap, none
\* beyond the binary's.
Contiguous(versions) == versions = 1..Max(versions \cup {0})

Supported(p) == Contiguous(history) /\ Newest <= Known[p]

\* Reads the history, or gives up on one it does not support.
Inspect(p, next) ==
    \/ /\ Supported(p)
       /\ Set(p, [proc[p] EXCEPT !.pc = next, !.version = Newest, !.found = Newest])
       /\ UNCHANGED <<backend, schema, history, lock, faults>>
    \/ ~Supported(p) /\ Stop(p) /\ UNCHANGED faults

Finish(p) == Go(p, "open") /\ UNCHANGED <<backend, schema, history, lock, faults>>

-----------------------------------------------------------------------------
(* SQLite *)

\* tableExists and the read that follows are two statements; a history that
\* appears in between is one that the second sees.
SqliteInspect(p) == On("sqlite", p, "start") /\ Inspect(p, "apply")

\* Mutant: the statements run on the connection, before the transaction.
SqliteExecuteOutside(p) ==
    LET i == proc[p].version + 1 IN
    /\ On("sqlite", p, "apply")
    /\ proc[p].version < Known[p]
    /\ lock = NULL
    /\ \/ schema[i] > 0 /\ Stop(p) /\ UNCHANGED faults
       \/ /\ schema[i] = 0
          /\ schema' = [schema EXCEPT ![i] = 1]
          /\ Go(p, "commit")
          /\ UNCHANGED <<backend, lock, history, faults>>

\* The statements of a migration wait for the write lock; the tables may be
\* there by then.
SqliteExecute(p) ==
    LET i == proc[p].version + 1 IN
    /\ On("sqlite", p, "apply")
    /\ proc[p].version < Known[p]
    /\ lock = NULL
    /\ \/ schema[i] > 0 /\ Stop(p) /\ UNCHANGED faults
       \/ /\ schema[i] = 0
          /\ lock' = p
          /\ Go(p, "commit")
          /\ UNCHANGED <<backend, schema, history, faults>>

\* The insert into the history and the commit.
SqliteCommit(p) ==
    LET i == proc[p].version + 1 IN
    /\ On("sqlite", p, "commit")
    /\ schema' = [schema EXCEPT ![i] = @ + 1]
    /\ history' = history \cup {i}
    /\ Set(p, [proc[p] EXCEPT !.pc = "apply", !.version = i])
    /\ Release(p)
    /\ UNCHANGED <<backend, faults>>

SqliteOpen(p) == On("sqlite", p, "apply") /\ proc[p].version >= Known[p] /\ Finish(p)

-----------------------------------------------------------------------------
(* PostgreSQL *)

\* pg_advisory_xact_lock; waiting longer than lock_timeout is a Fault.
PostgresLock(p) ==
    /\ On("postgres", p, "start")
    /\ lock = NULL
    /\ lock' = p
    /\ Go(p, "inspect")
    /\ UNCHANGED <<backend, schema, history, faults>>

PostgresInspect(p) == On("postgres", p, "inspect") /\ Inspect(p, "apply")

\* A migration and its row in the history.
PostgresApply(p) ==
    LET i == proc[p].version + 1 IN
    /\ On("postgres", p, "apply")
    /\ i <= Known[p]
    /\ \/ schema[i] > 0 /\ Stop(p) /\ UNCHANGED faults
       \/ /\ schema[i] = 0
          /\ Set(p, [proc[p] EXCEPT !.version = i, !.done = @ \cup {i}])
          /\ UNCHANGED <<backend, schema, history, lock, faults>>

\* The commit; its answer may be lost, and the process gives up although the
\* migrations are applied.
PostgresCommit(p) ==
    LET done == proc[p].done IN
    /\ On("postgres", p, "apply")
    /\ proc[p].version >= Known[p]
    /\ schema' = [i \in Versions |-> schema[i] + IF i \in done THEN 1 ELSE 0]
    /\ history' = history \cup done
    /\ \/ Set(p, [proc[p] EXCEPT !.pc = "open", !.done = {}]) /\ UNCHANGED faults
       \/ Set(p, Down) /\ faults < MaxFaults /\ faults' = faults + 1
    /\ Release(p)
    /\ UNCHANGED backend

-----------------------------------------------------------------------------
(* MongoDB *)

\* One of the collections and indexes the binary needs: created, or already
\* there.
MongoEnsure(p) ==
    LET i == proc[p].version + 1 IN
    /\ On("mongodb", p, "start")
    /\ \/ /\ i <= Known[p]
          /\ schema' = [schema EXCEPT ![i] = 1]
          /\ Set(p, [proc[p] EXCEPT !.version = i])
       \/ /\ i > Known[p]
          /\ Go(p, "inspect")
          /\ UNCHANGED schema
    /\ UNCHANGED <<backend, history, lock, faults>>

MongoInspect(p) == On("mongodb", p, "inspect") /\ Inspect(p, "record")

\* Mutant: a duplicate key counts as success without another look.
MongoRecordBlind(p) ==
    LET i == proc[p].version + 1 IN
    /\ On("mongodb", p, "record")
    /\ i <= Known[p]
    /\ history' = history \cup {i}
    /\ Set(p, [proc[p] EXCEPT !.version = i, !.found = Max(history \cup {i})])
    /\ UNCHANGED <<backend, schema, lock, faults>>

\* Records a migration; a duplicate key means that another process was faster,
\* perhaps a newer binary.
MongoRecord(p) ==
    LET i == proc[p].version + 1 IN
    /\ On("mongodb", p, "record")
    /\ i <= Known[p]
    /\ \/ i \in history /\ Inspect(p, "record")
       \/ /\ i \notin history
          /\ history' = history \cup {i}
          /\ Set(p, [proc[p] EXCEPT !.version = i, !.found = Max(history \cup {i})])
          /\ UNCHANGED <<backend, schema, lock, faults>>

MongoOpen(p) == On("mongodb", p, "record") /\ proc[p].version >= Known[p] /\ Finish(p)

-----------------------------------------------------------------------------

Work(p) ==
    \/ SqliteInspect(p) \/ SqliteExecute(p) \/ SqliteCommit(p) \/ SqliteOpen(p)
    \/ PostgresInspect(p) \/ PostgresApply(p) \/ PostgresCommit(p)
    \/ MongoEnsure(p) \/ MongoInspect(p) \/ MongoRecord(p) \/ MongoOpen(p)

MigrationNext == \E p \in Processes : Start(p) \/ PostgresLock(p) \/ Work(p) \/ Fault(p)

\* A stopped process is started again and a started one goes on.  Those that
\* wait for the advisory lock are served in turn.
MigrationFairness ==
    \A p \in Processes :
        /\ WF_migrationVars(Start(p))
        /\ WF_migrationVars(Work(p))
        /\ SF_migrationVars(PostgresLock(p))

MigrationSpec == MigrationInit /\ [][MigrationNext]_migrationVars /\ MigrationFairness

-----------------------------------------------------------------------------
(* Properties *)

\* The history is true after every crash and every race: with the SQL
\* backends a migration is recorded exactly when it was applied, and it was
\* applied once; with MongoDB what is recorded is there.  Versions have no
\* gap, or no binary would start again.
HistoryIsTrue ==
    /\ Contiguous(history)
    /\ \A i \in Versions :
           IF backend = "mongodb" THEN i \in history => schema[i] = 1
           ELSE schema[i] = IF i \in history THEN 1 ELSE 0

\* A process that opens the store has everything its binary needs, and the
\* database was not newer than its binary when it started or last read or
\* wrote the history: also not when a newer binary migrates while an old one
\* is about to record its own migration.
OpenMeansSupported ==
    \A p \in Processes : proc[p].pc = "open" =>
        /\ \A i \in 1..Known[p] : schema[i] > 0 /\ i \in history
        /\ proc[p].found <= Known[p]

\* Whoever dies or times out, and whatever old binaries keep trying, every
\* process of the newest binary opens the store in the end, and one of an
\* older binary does unless the database is too new for it.
EveryoneSettles ==
    \A p \in Processes : <>[](proc[p].pc = "open" \/ Newest > Known[p])
=============================================================================
