------------------------ MODULE StoreLifecycleProofs ------------------------
(***************************************************************************)
(* Theorems about StoreLifecycle, for any number of processes and rows.    *)
(*                                                                         *)
(* What a migration or a creation commits was computed from the file its   *)
(* process saw earlier; IInv says that the process at work is still right  *)
(* about the file when it commits.                                         *)
(***************************************************************************)
EXTENDS StoreLifecycle, TLAPS

Creating(a) == at[a] \in {"reserved", "creating"}

\* Exactly the processes inside a transaction that writes hold the lock.
LockIsHeld == \A a \in Process : at[a] \in {"creating", "migrated"} <=> lock = a

\* A path has one creator, who finds it reserved and empty.
OneCreator ==
  /\ \A a \in Process : Creating(a) => file.exists /\ file.version = 0
  /\ \A a, b \in Process : Creating(a) /\ Creating(b) => a = b

\* A migration started from a version the file has had, and once it holds the
\* lock that version is still the file's.
MigrationIsCurrent ==
  \A a \in Process :
    /\ at[a] \in {"migrating", "migrated"} =>
         from[a] \in Historical /\ from[a] <= file.version
    /\ at[a] = "migrated" => file.version = from[a]

\* Only a path that exists has a version or rows.
NothingBeforeThePath == ~file.exists => file.version = 0

IInv ==
  /\ TypeOK
  /\ TablesMatchVersion
  /\ OpenMeansCurrent
  /\ LockIsHeld
  /\ OneCreator
  /\ MigrationIsCurrent
  /\ NothingBeforeThePath

\* The tables of a version and of the next one.
LEMMA TablesGrow ==
  ASSUME NEW v \in Historical
  PROVE  /\ Tables(v) \cup {v + 1} = Tables(v + 1)
         /\ v + 1 \in 0..Current
  BY DEF Tables, Historical, Current

\* No step but those of a creator or a migrator changes the version.
VersionStays ==
  /\ file'.exists = file.exists
  /\ file'.version = file.version
  /\ file'.tables = file.tables
  /\ file'.rows >= file.rows

\* The file a path may have before the store is opened, and idle processes.
LEMMA InitIsSound == Init => IInv
<1> SUFFICES ASSUME Init PROVE IInv
  OBVIOUS
<1> USE LifecycleAssumption
<1>1. file \in File /\ file.tables = Tables(file.version)
      /\ (~file.exists => file.version = 0)
  <2>1. CASE file = Absent
    <3>1. Absent \in File
      BY DEF Absent, File, Current
    <3>2. Tables(0) = {}
      BY DEF Tables
    <3> QED
      BY <2>1, <3>1, <3>2 DEF Absent
  <2>2. ASSUME NEW v \in 1..Current, NEW n \in 0..MaxRows,
               file = [exists |-> TRUE, version |-> v, tables |-> Tables(v),
                       rows |-> n]
        PROVE  /\ file \in File /\ file.tables = Tables(file.version)
               /\ ~file.exists => file.version = 0
    <3>1. v \in 0..Current /\ Tables(v) \subseteq 1..Current
      BY DEF Tables, Current
    <3> QED
      BY <2>2, <3>1 DEF File
  <2> QED
    BY <2>1, <2>2 DEF Init
<1>2. TypeOK
  BY <1>1 DEF Init, TypeOK, Current
<1>3. TablesMatchVersion /\ NothingBeforeThePath
  BY <1>1 DEF TablesMatchVersion, NothingBeforeThePath
<1>4. OpenMeansCurrent /\ LockIsHeld /\ OneCreator /\ MigrationIsCurrent
  BY DEF Init, OpenMeansCurrent, LockIsHeld, OneCreator, MigrationIsCurrent, Creating
<1> QED
  BY <1>2, <1>3, <1>4 DEF IInv

\* Every step of a creator, a migrator or a reader keeps the invariant.
LEMMA StepIsSound == IInv /\ [Next]_vars => IInv'
<1> SUFFICES ASSUME IInv, [Next]_vars PROVE IInv'
  OBVIOUS
<1> USE LifecycleAssumption
<1> USE DEF IInv
<1>0. CASE UNCHANGED vars
  BY <1>0 DEF vars, TypeOK, TablesMatchVersion, OpenMeansCurrent, Validates,
     LockIsHeld, OneCreator, Creating, MigrationIsCurrent, NothingBeforeThePath
<1>1. ASSUME NEW a \in Process, Reserve(a) PROVE IInv'
  <2>1. TypeOK'
    BY <1>1 DEF Reserve, Goto, TypeOK, File
  <2> QED
    BY <1>1, <2>1 DEF Reserve, Goto, PathIsFree, TypeOK, File, TablesMatchVersion,
       OpenMeansCurrent, Validates, LockIsHeld, OneCreator, Creating,
       MigrationIsCurrent, NothingBeforeThePath, Historical, Current
<1>2. ASSUME NEW a \in Process, CreateTables(a) PROVE IInv'
  BY <1>2 DEF CreateTables, Goto, TypeOK, TablesMatchVersion, OpenMeansCurrent,
     Validates, LockIsHeld, OneCreator, Creating, MigrationIsCurrent,
     NothingBeforeThePath
<1>3. ASSUME NEW a \in Process, CommitCreation(a) \/ CreationLost(a) PROVE IInv'
  <2>0. /\ at[a] = "creating" /\ file' \in {file, Created}
        /\ lock' = None /\ from' = from
        /\ Goto(a, "idle") \/ (file' = Created /\ Goto(a, "open"))
    BY <1>3 DEF CommitCreation, CreationLost
  <2>1. /\ file.exists /\ file.version = 0 /\ lock = a
        /\ \A b \in Process : at[b] \notin {"open", "migrating", "migrated"}
        /\ \A b \in Process \ {a} : at[b] = "idle"
    BY <2>0 DEF TypeOK, LockIsHeld, OneCreator, Creating, MigrationIsCurrent,
       OpenMeansCurrent, Validates, Historical, Current
  <2>2. Created \in File /\ Created.tables = Tables(Created.version)
        /\ Created.version = Current /\ Created.exists
    <3>1. file \in File /\ Current \in 0..Current /\ Tables(Current) \subseteq 1..Current
      BY DEF TypeOK, Tables, Current
    <3> QED
      BY <2>1, <3>1 DEF Created, File
  <2>3. TypeOK'
    BY <2>0, <2>2 DEF TypeOK, Goto
  <2>4. \A b \in Process : at'[b] \in {"idle", "open"}
        /\ (at'[b] = "open" => file' = Created)
    BY <2>0, <2>1 DEF TypeOK, Goto
  <2> QED
    BY <2>0, <2>1, <2>2, <2>3, <2>4 DEF TablesMatchVersion, OpenMeansCurrent,
       Validates, LockIsHeld, OneCreator, Creating, MigrationIsCurrent,
       NothingBeforeThePath
<1>4. ASSUME NEW a \in Process, OpenExisting(a) PROVE IInv'
  BY <1>4 DEF OpenExisting, Goto, TypeOK, TablesMatchVersion, OpenMeansCurrent,
     Validates, LockIsHeld, OneCreator, Creating, MigrationIsCurrent,
     NothingBeforeThePath
<1>5. ASSUME NEW a \in Process, WriteRow(a) PROVE IInv'
  <2>1. file' \in File /\ VersionStays
    BY <1>5 DEF WriteRow, TypeOK, File, VersionStays
  <2> QED
    BY <1>5, <2>1 DEF WriteRow, VersionStays, TypeOK, TablesMatchVersion,
       OpenMeansCurrent, Validates, LockIsHeld, OneCreator, Creating,
       MigrationIsCurrent, NothingBeforeThePath
<1>6. ASSUME NEW a \in Process, NEW v \in Historical, ReadSourceVersion(a, v)
      PROVE  IInv'
  <2>1. v \in 0..Current
    BY DEF Historical, Current
  <2> QED
    BY <1>6, <2>1 DEF ReadSourceVersion, Goto, TypeOK, File, TablesMatchVersion,
       OpenMeansCurrent, Validates, LockIsHeld, OneCreator, Creating,
       MigrationIsCurrent, NothingBeforeThePath
<1>7. ASSUME NEW a \in Process, Migrate(a) PROVE IInv'
  BY <1>7 DEF Migrate, CanMigrate, Goto, TypeOK, TablesMatchVersion,
     OpenMeansCurrent, Validates, LockIsHeld, OneCreator, Creating,
     MigrationIsCurrent, NothingBeforeThePath
<1>8. ASSUME NEW a \in Process, NEW f, MigrationEnds(a, f),
             f \in {file, Migrated(from[a])}
      PROVE  IInv'
  <2>1. /\ from[a] \in Historical /\ file.version = from[a] /\ lock = a
        /\ file.exists
        /\ \A b \in Process : ~Creating(b) /\ at[b] # "open"
        /\ \A b \in Process \ {a} : at[b] # "migrated"
    BY <1>8 DEF MigrationEnds, TypeOK, File, LockIsHeld, OneCreator, Creating,
       MigrationIsCurrent, OpenMeansCurrent, Validates, NothingBeforeThePath,
       Historical, Current
  <2>2. /\ f \in File /\ f.exists /\ f.tables = Tables(f.version)
        /\ f.version >= file.version
    <3> DEFINE v == from[a]
    <3>1. file \in File /\ file.tables = Tables(v) /\ v \in Historical
      BY <2>1 DEF TypeOK, TablesMatchVersion
    <3>2. CASE f = file
      BY <2>1, <3>1, <3>2 DEF File, Current
    <3>3. CASE f = Migrated(v)
      <4>1. /\ v + 1 \in 0..Current /\ Tables(v + 1) \subseteq 1..Current
            /\ Tables(v) \cup {v + 1} = Tables(v + 1) /\ v + 1 >= v
        BY <3>1, TablesGrow DEF Tables, Historical, Current
      <4>2. f = [file EXCEPT !.version = v + 1, !.tables = Tables(v + 1)]
        BY <3>1, <3>3, <4>1 DEF Migrated, File
      <4> QED
        BY <2>1, <3>1, <4>1, <4>2 DEF File
    <3> QED
      BY <1>8, <3>2, <3>3
  <2>3. TypeOK'
    BY <1>8, <2>2 DEF MigrationEnds, Goto, TypeOK, Current
  <2>4. /\ file' = f /\ lock' = None
        /\ \A b \in Process : at'[b] \in {"idle", "migrating"}
        /\ \A b \in Process : at'[b] = "migrating" =>
             at[b] = "migrating" /\ from'[b] = from[b]
    BY <1>8, <2>1 DEF MigrationEnds, Goto, TypeOK, Creating
  <2>5. MigrationIsCurrent'
    <3> SUFFICES ASSUME NEW b \in Process, at'[b] = "migrating"
                 PROVE  from'[b] \in Historical /\ from'[b] <= f.version
      BY <2>4 DEF MigrationIsCurrent
    <3>1. from[b] \in Historical /\ from[b] <= file.version
      BY <2>4 DEF MigrationIsCurrent
    <3> QED
      BY <2>1, <2>2, <2>4, <3>1 DEF File, Historical, Current
  <2> QED
    BY <2>1, <2>2, <2>3, <2>4, <2>5 DEF TablesMatchVersion, OpenMeansCurrent,
       LockIsHeld, OneCreator, Creating, NothingBeforeThePath
<1>9. ASSUME NEW a \in Process, Leave(a) PROVE IInv'
  <2>1. TypeOK'
    BY <1>9 DEF Leave, Goto, TypeOK, Current
  <2>2. /\ at[a] \notin {"creating", "migrated"} /\ at'[a] = "idle"
        /\ \A b \in Process \ {a} : at'[b] = at[b] /\ from'[b] = from[b]
        /\ file' = file /\ lock' = lock
    BY <1>9 DEF Leave, Goto, TypeOK
  <2>3. LockIsHeld'
    BY <2>2 DEF LockIsHeld
  <2> QED
    BY <2>1, <2>2, <2>3 DEF TablesMatchVersion, OpenMeansCurrent, Validates,
       OneCreator, Creating, MigrationIsCurrent, NothingBeforeThePath
<1>10. ASSUME NEW a \in Process, CommitMigration(a) \/ MigrationLost(a) PROVE IInv'
  BY <1>8, <1>10 DEF CommitMigration, MigrationLost
<1> QED
  BY <1>0, <1>1, <1>2, <1>3, <1>4, <1>5, <1>6, <1>7, <1>9, <1>10 DEF Next

\* The life of a store file keeps IInv, whatever the processes race and lose.
THEOREM LifecycleIsInvariant == Spec => []IInv
  BY InitIsSound, StepIsSound, PTL DEF Spec

\* Every variable keeps its type.
THEOREM LifecycleIsTyped == Spec => []TypeOK
<1>1. IInv => TypeOK
  BY DEF IInv
<1> QED
  BY <1>1, LifecycleIsInvariant, PTL

\* No crash, lost COMMIT or race leaves tables that are not those of the
\* version the file carries (initialize_new, _migrate_one_table).
THEOREM FilesAreConsistent == Spec => []TablesMatchVersion
<1>1. IInv => TablesMatchVersion
  BY DEF IInv
<1> QED
  BY <1>1, LifecycleIsInvariant, PTL

\* A handle that is open stays on a store of the current version (open_existing).
THEOREM OpenStoresAreCurrent == Spec => []OpenMeansCurrent
<1>1. IInv => OpenMeansCurrent
  BY DEF IInv
<1> QED
  BY <1>1, LifecycleIsInvariant, PTL

\* What one step does to the file, and to a path whose initialization failed.
KeepsHistory ==
  /\ file.exists => file'.exists
  /\ file'.rows >= file.rows
  /\ file.version > 0 => file'.version \in {file.version, file.version + 1}
  /\ file.tables \subseteq file'.tables
KeepsFailure ==
  (file.exists /\ file.version = 0 /\ \A a \in Process : ~Creating(a)) =>
     file' = file /\ \A a \in Process : ~Creating(a)'

\* Rows and versions only grow, and what failed stays failed.
LEMMA StepKeepsHistory == IInv /\ [Next]_vars => KeepsHistory /\ KeepsFailure
<1> SUFFICES ASSUME IInv, [Next]_vars PROVE KeepsHistory /\ KeepsFailure
  OBVIOUS
<1> USE LifecycleAssumption
<1> USE DEF IInv
<1>1. file.rows \in Nat /\ file.version \in Nat
  BY DEF TypeOK, File, Current
<1>2. ASSUME file' = file, \A a \in Process : Creating(a)' => Creating(a)
      PROVE  KeepsHistory /\ KeepsFailure
  BY <1>1, <1>2 DEF KeepsHistory, KeepsFailure
<1>3. CASE UNCHANGED vars
  BY <1>2, <1>3 DEF vars, Creating
<1>4. ASSUME NEW a \in Process,
             \/ CreateTables(a) \/ OpenExisting(a) \/ Migrate(a) \/ Leave(a)
             \/ \E v \in Historical : ReadSourceVersion(a, v)
      PROVE  KeepsHistory /\ KeepsFailure
  <2>1. file' = file /\ \A b \in Process : Creating(b)' => Creating(b)
    BY <1>4 DEF CreateTables, OpenExisting, Migrate, Leave, ReadSourceVersion, Goto,
       TypeOK, Creating
  <2> QED
    BY <1>2, <2>1
<1>5. ASSUME NEW a \in Process, Reserve(a) PROVE KeepsHistory /\ KeepsFailure
  BY <1>1, <1>5 DEF Reserve, PathIsFree, KeepsHistory, KeepsFailure, TypeOK, File,
     NothingBeforeThePath
<1>6. ASSUME NEW a \in Process, CommitCreation(a) \/ CreationLost(a)
      PROVE  KeepsHistory /\ KeepsFailure
  <2>1. Creating(a) /\ file.exists /\ file.version = 0 /\ file.tables = {}
    BY <1>6 DEF CommitCreation, CreationLost, Creating, OneCreator,
       TablesMatchVersion, Tables
  <2>2. file' \in {file, Created} /\ Created.exists /\ Created.rows = file.rows
    BY <1>6, <2>1 DEF CommitCreation, CreationLost, Created, TypeOK, File
  <2> QED
    BY <1>1, <2>1, <2>2 DEF KeepsHistory, KeepsFailure
<1>7. ASSUME NEW a \in Process, WriteRow(a) PROVE KeepsHistory /\ KeepsFailure
  BY <1>1, <1>7 DEF WriteRow, Validates, Current, KeepsHistory, KeepsFailure,
     TypeOK, File
<1>8. ASSUME NEW a \in Process, CommitMigration(a) \/ MigrationLost(a)
      PROVE  KeepsHistory /\ KeepsFailure
  <2>1. from[a] \in Historical /\ file.version = from[a]
    BY <1>8 DEF CommitMigration, MigrationLost, MigrationEnds, MigrationIsCurrent
  <2>2. file' \in {file, Migrated(from[a])}
    BY <1>8 DEF CommitMigration, MigrationLost, MigrationEnds
  <2>3. /\ Migrated(from[a]).exists = file.exists
        /\ Migrated(from[a]).rows = file.rows
        /\ Migrated(from[a]).version = from[a] + 1
        /\ file.tables \subseteq Migrated(from[a]).tables
    BY DEF Migrated, TypeOK, File
  <2> QED
    BY <1>1, <2>1, <2>2, <2>3 DEF KeepsHistory, KeepsFailure, Historical
<1> QED
  BY <1>3, <1>4, <1>5, <1>6, <1>7, <1>8 DEF Next

\* A store moves up one version at a time and loses no row; nothing takes it
\* down, skips a version, resets or removes it.
THEOREM HistoryOfStoresIsKept == Spec => HistoryIsKept
<1>1. IInv /\ [Next]_vars =>
        [/\ file.exists => file'.exists
         /\ file'.rows >= file.rows
         /\ file.version > 0 => file'.version \in {file.version, file.version + 1}
         /\ file.tables \subseteq file'.tables]_file
  BY StepKeepsHistory DEF KeepsHistory
<1> QED
  BY <1>1, LifecycleIsInvariant, PTL DEF Spec, HistoryIsKept

\* A path whose initialization failed is never turned into a store later.
THEOREM FailuresAreFinal == Spec => FailedInitializationIsFinal
<1>1. IInv /\ [Next]_vars =>
        [LET nobodyInitializes == \A a \in Process : at[a] \notin {"reserved", "creating"} IN
         (file.exists /\ file.version = 0 /\ nobodyInitializes) =>
            file' = file /\ nobodyInitializes']_vars
  BY StepKeepsHistory DEF KeepsFailure, Creating
<1> QED
  BY <1>1, LifecycleIsInvariant, PTL DEF Spec, FailedInitializationIsFinal
=============================================================================
