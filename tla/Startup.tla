------------------------------ MODULE Startup ------------------------------
(***************************************************************************)
(* The start of the server's processes (web workers, task server, stats    *)
(* server): each creates a CacheManager, which checks the cache control     *)
(* database, then a DataManager, which creates the management database,    *)
(* fills it and upgrades it.  Both do so under the universal lock, a key of *)
(* memcached that its holder does not own: it may expire or be evicted,     *)
(* free_global_lock deletes whichever lock is there, and a process that    *)
(* waited for 60 seconds, or found the cache down, goes on without it.      *)
(* Each table and each default row is committed on its own, and which rows  *)
(* are still to come is known only to the process that made the table.     *)
(*                                                                         *)
(* Abstracted: the tables that receive no default rows stand together as    *)
(* "folios", the only ones that an old database lacks; the control database *)
(* has one row for all cached images and one for the two keys put by a      *)
(* reset, which expire.                                                    *)
(***************************************************************************)
EXTENDS Integers, FiniteSets, Sequences

CONSTANTS Procs,       \* the processes
          MaxStarts,   \* bound: processes started
          MaxMishaps    \* bound: kills, errors, lost locks and items, cache restarts

ASSUME ProcsAssumption == IsFiniteSet(Procs)
ASSUME BoundAssumption == MaxStarts \in Nat /\ MaxMishaps \in Nat

VARIABLES pc,          \* where each process is
          step,        \* its position in the list of tables, or of default rows
          created,     \* the tables that it made itself (the create_* flags)
          locked,      \* the universal lock is in the cache
          values,      \* other keys in the cache
          ctl,         \* the table of the control database exists
          rows,        \* its rows
          tables,      \* tables of the management database
          data,        \* default rows of the management database
          starts,      \* processes started so far
          mishaps,      \* mishaps so far
          losses,      \* history: locks that went away before they were freed
          abandoned,   \* history: tables whose maker ended before the rows
          raced        \* history: an image was lost from the list by a race or a cut

startupVars == <<pc, step, created, locked, values, ctl, rows, tables, data, starts,
          mishaps, losses, abandoned, raced>>
cacheVars == <<values, ctl, rows>>
dbVars    == <<tables, data>>

-----------------------------------------------------------------------------
(* The tables in the order of their creation, and the rows that each         *)
(* receives, in the order of their commits; the properties that no migration *)
(* adds stand together as "fp_version", as do the two permissions of the root *)
(* folder and the three templates.                                           *)

Tables == <<"groups", "users", "folders", "templates", "properties", "folios">>

DefaultRows ==
  << <<"groups", "public">>, <<"groups", "everyone">>, <<"groups", "admins">>,
     <<"users", "admin">>,
     <<"folders", "root">>, <<"folders", "permissions">>, <<"templates", "templates">>,
     <<"properties", "fp_version">>, <<"properties", "foliop_version">>,
     <<"properties", "db_migration_version">> >>

AllTables == {Tables[i] : i \in DOMAIN Tables}
AllRows   == {DefaultRows[i][2] : i \in DOMAIN DefaultRows}
RowsOf(t) == {DefaultRows[i][2] : i \in {j \in DOMAIN DefaultRows : DefaultRows[j][1] = t}}

\* The rows that another one refers to: the administrator joins the groups 2
\* and 3, and the permissions of the root folder name the groups 1 and 2.
Needed(row) == CASE row = "admin"       -> {"everyone", "admins"}
                 [] row = "permissions" -> {"root", "public", "everyone"}
                 [] OTHER               -> {}

\* What migration number 1 adds, and the version that it leaves.
Migrated == {"foliop_version", "db_migration_version"}

-----------------------------------------------------------------------------
(* The places of a process.                                                  *)

CacheSection == {"check", "query", "drop", "create"}
DataSection  == {"tables", "data", "upgrade"}
Running      == {"up", "recording"}
Places       == {"off", "cacheWait", "dbWait"} \cup CacheSection \cup DataSection \cup Running

Inside == {p \in Procs : pc[p] \in CacheSection \cup DataSection}

StartupTypeOK == /\ pc \in [Procs -> Places]
                 /\ step \in [Procs -> 1..(Len(DefaultRows) + 1)]
                 /\ created \in [Procs -> SUBSET AllTables]
                 /\ locked \in BOOLEAN /\ ctl \in BOOLEAN /\ raced \in BOOLEAN
                 /\ values \subseteq {"image", "reset"} /\ rows \subseteq {"image", "reset"}
                 /\ tables \subseteq AllTables /\ data \subseteq AllRows
                 /\ starts \in 0..MaxStarts /\ mishaps \in 0..MaxMishaps /\ losses \in 0..MaxMishaps
                 /\ abandoned \subseteq AllTables

\* A new installation, or the database of a version before the portfolios,
\* whose control database may still list images when the cache is empty.
StartupInit == /\ pc = [p \in Procs |-> "off"]
               /\ step = [p \in Procs |-> 1]
               /\ created = [p \in Procs |-> {}]
               /\ \/ tables = {} /\ data = {} /\ ctl = FALSE /\ rows = {}
                  \/ /\ tables = AllTables \ {"folios"}
                     /\ data = AllRows \ Migrated
                     /\ ctl = TRUE /\ rows \in SUBSET {"image"}
               /\ values = {}
               /\ locked = FALSE /\ raced = FALSE
               /\ starts = 0 /\ mishaps = 0 /\ losses = 0
               /\ abandoned = {}

Move(p, place) == pc' = [pc EXCEPT ![p] = place]

\* The local variables of a process that leaves _init_db.
Forget(p) == step' = [step EXCEPT ![p] = 1] /\ created' = [created EXCEPT ![p] = {}]

Mishap == mishaps < MaxMishaps /\ mishaps' = mishaps + 1

-----------------------------------------------------------------------------
(* The lock.                                                                 *)

\* The process is started, or started again by the web server.
Start(p) ==
  /\ pc[p] = "off" /\ starts < MaxStarts
  /\ starts' = starts + 1
  /\ Move(p, "cacheWait")
  /\ UNCHANGED <<step, created, locked, cacheVars, dbVars, mishaps, losses, abandoned, raced>>

Waiting == {"cacheWait", "dbWait"}

\* Mutant: the lock is written whether or not it is there.
AcquireByPut(p) ==
  /\ pc[p] \in Waiting
  /\ locked' = TRUE
  /\ Move(p, IF pc[p] = "cacheWait" THEN "check" ELSE "tables")
  /\ UNCHANGED <<step, created, cacheVars, dbVars, starts, mishaps, losses, abandoned, raced>>

\* get_global_lock: the key is added, which succeeds for one process only.
Acquire(p) ==
  /\ pc[p] \in Waiting /\ ~locked
  /\ locked' = TRUE
  /\ Move(p, IF pc[p] = "cacheWait" THEN "check" ELSE "tables")
  /\ UNCHANGED <<step, created, cacheVars, dbVars, starts, mishaps, losses, abandoned, raced>>

\* The lock is still held after 60 seconds, or the cache is down: the process
\* continues without the check.
GoOn(p) ==
  /\ pc[p] \in Waiting
  /\ \/ locked /\ UNCHANGED mishaps
     \/ ~locked /\ Mishap
  /\ Move(p, IF pc[p] = "cacheWait" THEN "dbWait" ELSE "up")
  /\ UNCHANGED <<step, created, locked, cacheVars, dbVars, starts, losses, abandoned, raced>>

\* free_global_lock at the end of a section: whoever's lock is there goes.
Leave(p, place) == locked' = FALSE /\ Move(p, place)

-----------------------------------------------------------------------------
(* The control database of the cache.                                        *)

\* The number of items in the cache, less one for the lock.
Uncounted == Cardinality(values) + (IF locked THEN 1 ELSE 0) - 1

\* Mutant: the number of items is not looked at.
CheckRowsOnly(p) ==
  /\ pc[p] = "check"
  /\ \/ ~ctl /\ ctl' = TRUE /\ Leave(p, "dbWait")
     \/ ctl /\ Move(p, "query") /\ UNCHANGED <<ctl, locked>>
  /\ UNCHANGED <<step, created, values, rows, dbVars, starts, mishaps, losses, abandoned, raced>>

\* The table is created if it is not there; otherwise the items are counted.
CheckControl(p) ==
  /\ pc[p] = "check"
  /\ \/ ~ctl /\ ctl' = TRUE /\ Leave(p, "dbWait")
     \/ ctl /\ Uncounted <= 0 /\ Move(p, "query") /\ UNCHANGED <<ctl, locked>>
     \/ ctl /\ Uncounted > 0 /\ Leave(p, "dbWait") /\ UNCHANGED ctl
  /\ UNCHANGED <<step, created, values, rows, dbVars, starts, mishaps, losses, abandoned, raced>>

\* count() answers an error of memcached with -1, which counts as empty; the
\* call of capacity() before it has worked.
CountFails(p) ==
  /\ pc[p] = "check" /\ ctl /\ Mishap
  /\ Move(p, "query")
  /\ raced' = TRUE
  /\ UNCHANGED <<step, created, locked, cacheVars, dbVars, starts, losses, abandoned>>

\* The table of an empty cache is to be dropped if it has rows.
QueryRows(p) ==
  /\ pc[p] = "query" /\ ctl
  /\ \/ rows # {} /\ Move(p, "drop") /\ UNCHANGED locked
     \/ rows = {} /\ Leave(p, "dbWait")
  /\ UNCHANGED <<step, created, cacheVars, dbVars, starts, mishaps, losses, abandoned, raced>>

DropControl(p) ==
  /\ pc[p] = "drop" /\ ctl
  /\ ctl' = FALSE /\ rows' = {}
  /\ Move(p, "create")
  /\ UNCHANGED <<step, created, locked, values, dbVars, starts, mishaps, losses, abandoned, raced>>

\* The new table, and keys that tell the next process not to do it again.
CreateControl(p) ==
  /\ pc[p] = "create" /\ ~ctl
  /\ ctl' = TRUE
  /\ rows' = {"reset"} /\ values' = values \cup {"reset"}
  /\ Leave(p, "dbWait")
  /\ UNCHANGED <<step, created, dbVars, starts, mishaps, losses, abandoned, raced>>

\* From the count to the new table.
Resetting == \E q \in Procs : pc[q] \in {"query", "drop", "create"}

\* put(): a running process caches an image ...
CacheImage(p) ==
  /\ pc[p] = "up"
  /\ Move(p, "recording")
  /\ values' = values \cup {"image"}
  /\ raced' = (raced \/ Resetting \/ ~ctl)
  /\ UNCHANGED <<step, created, locked, ctl, rows, dbVars, starts, mishaps, losses, abandoned>>

\* ... and then lists it, which fails without the table.
RecordImage(p) ==
  /\ pc[p] = "recording"
  /\ Move(p, "up")
  /\ rows' = IF ctl THEN rows \cup {"image"} ELSE rows
  /\ UNCHANGED <<step, created, locked, values, ctl, dbVars, starts, mishaps, losses, abandoned, raced>>

-----------------------------------------------------------------------------
(* The management database.                                                  *)

\* Mutant: whether the table exists is looked at after it has been created.
CreateTableFirst(p) ==
  /\ pc[p] = "tables"
  /\ tables' = tables \cup {Tables[step[p]]}
  /\ IF step[p] < Len(Tables)
     THEN step' = [step EXCEPT ![p] = @ + 1] /\ UNCHANGED pc
     ELSE step' = [step EXCEPT ![p] = 1] /\ Move(p, "data")
  /\ UNCHANGED <<created, locked, cacheVars, data, starts, mishaps, losses, abandoned, raced>>

\* One table: created if it does not exist, in which case the process will
\* create its default rows.  After the last one it turns to the rows.
CreateTable(p) ==
  /\ pc[p] = "tables"
  /\ LET t == Tables[step[p]]
     IN /\ tables' = tables \cup {t}
        /\ created' = [created EXCEPT ![p] = IF t \in tables THEN @ ELSE @ \cup {t}]
  /\ IF step[p] < Len(Tables)
     THEN step' = [step EXCEPT ![p] = @ + 1] /\ UNCHANGED pc
     ELSE step' = [step EXCEPT ![p] = 1] /\ Move(p, "data")
  /\ UNCHANGED <<locked, cacheVars, data, starts, mishaps, losses, abandoned, raced>>

\* One default row, if its table is the process's own.
CreateRow(p) ==
  /\ pc[p] = "data"
  /\ IF step[p] <= Len(DefaultRows)
     THEN LET r == DefaultRows[step[p]]
          IN /\ r[1] \in created[p] => Needed(r[2]) \subseteq data
             /\ data' = IF r[1] \in created[p] THEN data \cup {r[2]} ELSE data
             /\ step' = [step EXCEPT ![p] = @ + 1]
             /\ UNCHANGED pc
     ELSE Move(p, "upgrade") /\ UNCHANGED <<data, step>>
  /\ UNCHANGED <<created, locked, cacheVars, tables, starts, mishaps, losses, abandoned, raced>>

\* _upgrade_db: the migration and the new version are one transaction; an error
\* is logged, rolled back and forgotten.
Upgrade(p) ==
  /\ pc[p] = "upgrade"
  /\ \/ /\ data' = IF "db_migration_version" \in data THEN data ELSE data \cup Migrated
        /\ UNCHANGED <<mishaps, abandoned>>
     \/ /\ "db_migration_version" \notin data /\ Mishap
        /\ abandoned' = abandoned \cup {"properties"}
        /\ UNCHANGED data
  /\ Leave(p, "up") /\ Forget(p)
  /\ UNCHANGED <<cacheVars, tables, starts, losses, raced>>

-----------------------------------------------------------------------------
(* Faults.                                                                   *)

\* The next statement of the process must fail: the control table that it is
\* to use has gone or the one that it is to create is there, a row that it
\* refers to is missing, or another process has made the same table.
Doomed(p) ==
  \/ pc[p] \in {"query", "drop"} /\ ~ctl
  \/ pc[p] = "create" /\ ctl
  \/ pc[p] \in {"check", "tables"} /\ Cardinality(Inside) > 1
  \/ /\ pc[p] = "data" /\ step[p] <= Len(DefaultRows)
     /\ LET r == DefaultRows[step[p]]
        IN r[1] \in created[p] /\ ~(Needed(r[2]) \subseteq data)

\* An error in a section: the lock is freed, the process ends (StartupError).
Abort(p) ==
  /\ p \in Inside
  /\ \/ Doomed(p) /\ UNCHANGED mishaps
     \/ ~Doomed(p) /\ Mishap
  /\ Leave(p, "off") /\ Forget(p)
  /\ abandoned' = abandoned \cup created[p]
  /\ UNCHANGED <<cacheVars, dbVars, starts, losses, raced>>

\* The process is killed or recycled: a lock that it holds stays behind.
Kill(p) ==
  /\ pc[p] # "off" /\ Mishap
  /\ Move(p, "off") /\ Forget(p)
  /\ abandoned' = IF p \in Inside THEN abandoned \cup created[p] ELSE abandoned
  /\ raced' = (raced \/ (pc[p] = "recording" /\ "image" \notin rows))
  /\ UNCHANGED <<locked, cacheVars, dbVars, starts, losses>>

\* The lock expires after an hour, or is evicted.
LoseLock ==
  /\ locked /\ Mishap
  /\ locked' = FALSE /\ losses' = losses + 1
  /\ UNCHANGED <<pc, step, created, cacheVars, dbVars, starts, abandoned, raced>>

\* The cache is restarted and forgets everything.
RestartCache ==
  /\ Mishap
  /\ values' = {} /\ locked' = FALSE
  /\ losses' = losses + (IF locked THEN 1 ELSE 0)
  /\ UNCHANGED <<pc, step, created, ctl, rows, dbVars, starts, abandoned, raced>>

\* An item of the cache expires, or is evicted.
LoseItem ==
  /\ Mishap
  /\ \E item \in values : values' = values \ {item}
  /\ UNCHANGED <<pc, step, created, locked, ctl, rows, dbVars, starts, losses, abandoned, raced>>

-----------------------------------------------------------------------------
Advance(p) == \/ Acquire(p) \/ GoOn(p)
              \/ CheckControl(p) \/ CountFails(p) \/ QueryRows(p)
              \/ DropControl(p) \/ CreateControl(p)
              \/ CreateTable(p) \/ CreateRow(p) \/ Upgrade(p)
              \/ Abort(p)

StartupNext == \/ \E p \in Procs : \/ Advance(p) \/ Start(p) \/ Kill(p)
                                  \/ CacheImage(p) \/ RecordImage(p)
               \/ LoseLock \/ RestartCache \/ LoseItem

StartupSpec == StartupInit /\ [][StartupNext]_startupVars

-----------------------------------------------------------------------------
(* Properties.                                                               *)

\* At most one process is in a section for every lock that went away while it
\* was held, and one more, although anyone's end frees anyone's lock.
FewInside == Cardinality(Inside) <= losses + 1

\* Rows that a table should have and has not are still to be made by the
\* process that made the table, unless it ended before.
RowsAreOwed ==
  \A t \in tables : RowsOf(t) \subseteq data \cup Migrated \/ t \in abandoned
                    \/ \E p \in Inside : t \in created[p]

\* A database that says it is of the latest version has what the migrations
\* add: no crash or error between the commits can leave it half migrated.
MigratedMeansMigrated ==
  "db_migration_version" \in data => "foliop_version" \in data

\* An image in the cache is listed in the control database, so that a change of
\* the image finds it, or is about to be - unless it was cached while a starting
\* process, which had counted no items, had yet to query, drop or create the
\* table again; or while there was no table, a reset having ended half way; or
\* its process was killed before it was listed; or the count had failed; or the
\* lock, which is not to be counted as an item, had gone.
ImagesAreListed ==
  "image" \in values => \/ "image" \in rows \/ (\E p \in Procs : pc[p] = "recording")
                        \/ raced \/ losses > 0
=============================================================================
