--------------------------- MODULE StoreLifecycle ---------------------------
(***************************************************************************)
(* The life of one authority-store file: AuthorityStore.initialize_new,    *)
(* open_existing and the versioned migrations, run by processes that race  *)
(* each other and may die at any step.                                     *)
(*                                                                         *)
(* Schema version v holds the first v of the five tables; version 0 is a   *)
(* path that was reserved but never initialized.  The rows of all tables   *)
(* are counted, since no step may lose one.                                *)
(***************************************************************************)
EXTENDS Naturals

CONSTANTS
  Process,
  MaxRows,  \* bound on the rows written
  None

Current == 5           \* _SCHEMA_VERSION
HistoricalOrCurrent == 1..Current  \* a variant: one migration too many
Historical == 1..4     \* versions a migration starts from
Tables(v) == 1..v

ASSUME LifecycleAssumption == MaxRows \in Nat /\ None \notin Process

VARIABLES
  file,  \* what is on disk
  lock,  \* the process that holds SQLite's write lock
  at,    \* what each process is doing
  from   \* the version a migrating process started from

vars == <<file, lock, at, from>>

File == [exists : BOOLEAN, version : 0..Current, tables : SUBSET (1..Current),
         rows : 0..MaxRows]

\* Every variable keeps its type.
TypeOK ==
  /\ file \in File
  /\ lock \in Process \cup {None}
  /\ at \in [Process -> {"idle", "reserved", "creating", "open",
                         "migrating", "migrated"}]
  /\ from \in [Process -> 0..Current]

Absent == [exists |-> FALSE, version |-> 0, tables |-> {}, rows |-> 0]

\* No file yet, or a store that some version of the program wrote.
Init ==
  /\ \/ file = Absent
     \/ \E v \in 1..Current, n \in 0..MaxRows :
          file = [exists |-> TRUE, version |-> v, tables |-> Tables(v), rows |-> n]
  /\ lock = None
  /\ at = [a \in Process |-> "idle"]
  /\ from = [a \in Process |-> 0]

Goto(a, where) == at' = [at EXCEPT ![a] = where]

-----------------------------------------------------------------------------
(* initialize_new *)

\* CreateFileW with CREATE_NEW: exactly one process creates the path.
PathIsUninitialized == file.version = 0  \* a variant: a failed path is reused
PathIsFree == ~file.exists

Reserve(a) ==
  /\ at[a] = "idle"
  /\ PathIsFree
  /\ file' = [file EXCEPT !.exists = TRUE]
  /\ Goto(a, "reserved")
  /\ UNCHANGED <<lock, from>>

\* BEGIN IMMEDIATE and five CREATE TABLEs, none of which may exist already.
CreateTables(a) ==
  /\ at[a] = "reserved"
  /\ lock = None
  /\ file.tables = {}
  /\ lock' = a
  /\ Goto(a, "creating")
  /\ UNCHANGED <<file, from>>

Created == [file EXCEPT !.version = Current, !.tables = Tables(Current)]

CommitCreation(a) ==
  /\ at[a] = "creating"
  /\ file' = Created
  /\ lock' = None
  /\ Goto(a, "open")
  /\ UNCHANGED from

\* COMMIT raises, or the process dies in it; the reserved path stays.
CreationLost(a) ==
  /\ at[a] = "creating"
  /\ file' \in {file, Created}
  /\ lock' = None
  /\ Goto(a, "idle")
  /\ UNCHANGED from

-----------------------------------------------------------------------------
(* open_existing, and the operations of an open handle *)

\* _validate_store accepts the current version only; historical versions
\* raise AuthorityStoreMigrationRequiredError and version 0 a version error.
Validates(v) == file.exists /\ file.version = v /\ file.tables = Tables(v)

OpenAnyVersion(a) ==  \* a variant: historical versions are opened too
  /\ at[a] = "idle"
  /\ \E v \in 1..Current : Validates(v)
  /\ Goto(a, "open")
  /\ UNCHANGED <<file, lock, from>>

OpenExisting(a) ==
  /\ at[a] = "idle"
  /\ Validates(Current)
  /\ Goto(a, "open")
  /\ UNCHANGED <<file, lock, from>>

\* Some operation of the handle commits a row.
WriteRow(a) ==
  /\ at[a] = "open"
  /\ lock = None
  /\ Validates(Current)
  /\ file.rows < MaxRows
  /\ file' = [file EXCEPT !.rows = @ + 1]
  /\ UNCHANGED <<lock, at, from>>

-----------------------------------------------------------------------------
(* _migrate_one_table *)

\* The schema version is read before the transaction begins.
ReadSourceVersion(a, v) ==
  /\ at[a] = "idle"
  /\ file.exists
  /\ file.version = v
  /\ from' = [from EXCEPT ![a] = v]
  /\ Goto(a, "migrating")
  /\ UNCHANGED <<file, lock>>

\* BEGIN IMMEDIATE, source_validator, CREATE TABLE, new version and
\* target_validator, all inside the transaction.
CanMigrateStale(v) == TRUE  \* a variant: only the version read before BEGIN counts
CanMigrate(v) == Validates(v)

Migrate(a) ==
  /\ at[a] = "migrating"
  /\ lock = None
  /\ CanMigrate(from[a])
  /\ lock' = a
  /\ Goto(a, "migrated")
  /\ UNCHANGED <<file, from>>

Migrated(v) == [file EXCEPT !.version = v + 1, !.tables = @ \cup {v + 1}]

MigrationEnds(a, f) ==
  /\ at[a] = "migrated"
  /\ file' = f
  /\ lock' = None
  /\ from' = [from EXCEPT ![a] = 0]
  /\ Goto(a, "idle")

CommitMigration(a) == MigrationEnds(a, Migrated(from[a]))

\* "migration COMMIT outcome is uncertain": it did not take effect (when it
\* did, the file is as after CommitMigration).
MigrationLost(a) == MigrationEnds(a, file)

\* A check or statement fails, the handle is closed, or the process dies
\* outside COMMIT: nothing on disk changes and SQLite frees the lock.
Leave(a) ==
  /\ at[a] \in {"reserved", "open", "migrating"}
  /\ from' = [from EXCEPT ![a] = 0]
  /\ Goto(a, "idle")
  /\ UNCHANGED <<file, lock>>

Next == \E a \in Process :
  \/ Reserve(a)
  \/ CreateTables(a)
  \/ CommitCreation(a)
  \/ CreationLost(a)
  \/ OpenExisting(a)
  \/ WriteRow(a)
  \/ \E v \in Historical : ReadSourceVersion(a, v)
  \/ Migrate(a)
  \/ CommitMigration(a)
  \/ MigrationLost(a)
  \/ Leave(a)

Spec == Init /\ [][Next]_vars

-----------------------------------------------------------------------------
(***************************************************************************)
(* Correctness.                                                            *)
(***************************************************************************)

\* A file is never seen between two versions: the tables on disk are always
\* exactly those of the version it carries.
TablesMatchVersion == file.tables = Tables(file.version)

\* An open handle is always on a store of the current version, whatever
\* initializers and migrations of other processes do meanwhile.
OpenMeansCurrent ==
  \A a \in Process : at[a] = "open" => Validates(Current)

\* A migration moves one version up and keeps every row; nothing ever moves a
\* store down, skips a version, resets it or removes it.
HistoryIsKept == [][
  /\ file.exists => file'.exists
  /\ file'.rows >= file.rows
  /\ file.version > 0 => file'.version \in {file.version, file.version + 1}
  /\ file.tables \subseteq file'.tables
  ]_file

\* A path whose initialization failed is never turned into a store by a later
\* initialization, opening or migration: a failure is not a silent reset.
FailedInitializationIsFinal == [][
  LET nobodyInitializes == \A a \in Process : at[a] \notin {"reserved", "creating"} IN
  (file.exists /\ file.version = 0 /\ nobodyInitializes) =>
     file' = file /\ nobodyInitializes'
  ]_vars
=============================================================================
