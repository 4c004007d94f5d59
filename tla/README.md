# Formal models of the Quru Image Server

This directory holds TLA+ models of the Quru Image Server (QIS, package
`imageserver` under `src/src/`), the TLC configurations that check them and the
theorems proved about them with TLAPS. The models are translated from the
Python source; a row of the `map` in `PROJECT.json` gives, for every definition
that models code, the lines it stands for.

## 1. The system

QIS serves, resizes and caches images for web sites. It is a Flask application
run by several web worker processes, each with several threads, plus three
auxiliary processes per host (task server, statistics server, log server), a
PostgreSQL (or SQLite) database, a memcached cluster used as image cache and as
a store of small shared values, and a file system of images.

| Component | Source (under `src/src/imageserver/`) | State it keeps | Operations | What makes it correct |
|---|---|---|---|---|
| Background tasks | `task_manager.py`, `auxiliary/task_server.py`, `auxiliary/util.py`, `data_manager.py` (1431-1537), `models.py` (`Task`) | the `tasks` table; the process ID file; the server's port, threads and fetched batch | post, cancel, wait; recover, fetch, lock, run, complete, clean up; start, stop, kill | a function + parameters never runs twice at once; a cancelled or completed task stays so; every posted task ends, through restarts |
| Permissions | `permissions_manager.py` | memcached entries for folder and portfolio permissions; a version number in the database and a copy in each process | calculate, cache, reset, check for a newer version | a cached permission is never older than the version it is filed under; every process sees a change in bounded time |
| Templates | `template_manager.py` | per-process copy of the templates table and derived lists; version number in the database | get, reload, reset | readers never see a half loaded set; the default template always exists; changes reach every process |
| Image generation and caching | `image_manager.py`, `cache_manager.py`, `image_attrs.py` | memcached image slots + headers; the cache control database; generation locks in memcached | get, put, delete, search, generate, pyramid, reset, upload | concurrent requests generate an image once; a changed or deleted file does not live on in the cache; chunks of one value are not mixed |
| Data access | `data_manager.py`, `models.py` | users, groups, folders, images, templates, portfolios, history, properties | find/create, set status, delete, reorder, increment a property | unique paths and ids; folder operations cover the sub-tree; the cached path -> id map agrees with the table |
| File system synchronisation | `filesystem_sync.py`, `filesystem_manager.py` | database records against files on disk | auto-sync on access, move, delete, create | a record is active only if its file exists; a failed move is undone |
| Portfolios and exports | `api/views_portfolios_api.py`, `portfolios/util.py`, `tasks.py` | folio records, image order, exports and their zip files | edit, publish, unpublish, delete, expire | an export's zip file exists exactly while its record says so; no deletion under a running export |
| Statistics | `stats_manager.py`, `auxiliary/stats_server.py`, `counter.py` | counters per image and for the system, held in memory and flushed each minute | count, flush, reset at shutdown | each event is counted once; a failed flush is not silently lost |
| Logging | `log_manager.py`, `auxiliary/log_server.py` | log files; the client's socket | log, rotate, reconnect | lines are not lost or interleaved |
| Sessions and authentication | `user_auth.py`, `session_manager.py`, `csrf.py`, `ldap_client.py`, `flask_ext.py` | sessions, tokens | log in/out, check | a session has the rights of its user; nobody locks the administrator out or gives himself rights he may not give |
| Web views and API | `views*.py`, `api/*.py`, `admin/*`, `reports/*` | none beyond the above | request handling | what a handler checks, saves and announces, in which order |
| Image and template attributes | `image_attrs.py`, `template_attrs.py` | none | validate, merge, normalise, cache key, choice of a base image | images with the same key are the same image; a base loses nothing of the image made from it |
| Imaging back-end | `imaging.py`, `imaging_pillow.py`, `imaging_magick.py`, `exif.py`, `image_wrapper.py` | none | resize, crop, rotate, overlay, tile, save | an image has the size and content that its attributes ask for |
| Application set-up | `flask_app.py`, `flask_ext.py`, `flask_util.py`, `conf/`, start-up parts of `data_manager.py` and `cache_manager.py` | tables, default rows, database version; the universal lock | create, fill, upgrade; create the control database | processes that start together leave one complete database |
| Command line scripts | `scripts/` | none | benchmark, clear and fill the cache, edit users, upgrade | single threaded |
| JavaScript viewers and pages | `static/js/*` | browser state | | separate programs, not modelled |

### How the components interact

* Web workers and the task server share nothing but the database, memcached and
  the file system. Tasks are posted as rows of `tasks`; the folder API posts one
  and polls it for up to 30 seconds.
* Permission and template changes are announced by incrementing a property of
  the database; every process compares it with its own copy at most once a
  minute.
* Images are cached in memcached with a control record in the cache database;
  the record says what can be searched for and deleted, memcached says what can
  be served.
* Every access to an image or folder may synchronise its database record with
  the disk, change its status and post a task.

## 2. What is hard about it

The program has no transactions across its stores: the database, memcached, the
disk and the memory of a process are written one after the other, by threads of
several processes that know nothing of each other, any of which can be stopped
between two writes. Almost every hazard in `PROJECT.json` is a consequence.

* *Interleaving.* Two requests between two writes of a third: a permission that
  is calculated while a newer version is adopted, templates that are loaded while
  they are changed, a cache miss that removes the record of an object which is
  being added, a task that is cancelled after the server has fetched it.
* *Stale copies.* Permissions, users, templates, image IDs and task objects are
  copied and written back or served later. What makes this safe, where it is
  safe, is a version number that is read before the data.
* *Stops.* The task server is killed, or stopped by SIGTERM, at any line; web
  workers are replaced by the web server.
* *Partial failure.* A query fails after the disk, memcached or another row has
  been changed. Many handlers log the exception and carry on.
* *Liveness.* Locks that are tried and not waited for, events that are set by one
  thread only, unique rows that block a key until they are cleaned up.

## 3. Modules

| Module | What it models | Code |
|---|---|---|
| `TaskLifecycle` | the promise: what a task may go through, with no server, row or process in sight | (abstract) |
| `TaskQueue` | the `tasks` table, the callers, the task server with its process ID file, threads and faults | `task_manager.py`, `task_server.py`, parts of `data_manager.py`, `models.py` |
| `PermissionCache` | the caches of permissions and of the session's user, their version numbers, changes and announcements | `permissions_manager.py`, parts of `session_manager.py`, `views_data_api.py` |
| `AccessRules` | the access level that a user's groups amount to, and the administrators' trace of it | `permissions_manager.py`, `get_nearest_folder_permission` of `data_manager.py` |
| `ManagedCache` | one cached object of several chunks, and its record | `cache_manager.py` |
| `ImageGeneration` | the requests for the variants of one image, with locks, bases, tiles, uploads and resets | `image_manager.py`, parts of `views_files_api.py` |
| `Imaging` | sizes, crops, turns, tiles, colour modes and the order of operations of the imaging back end | `imaging_pillow.py` |
| `ImageAttributes` | validation, merging, normalisation and the cache key of attributes, and the choice of a base image | `image_attrs.py` |
| `ImageRequests` | the web view, the export and the pyramid task that ask for images of one file, and the cache that answers | `views.py`, `image_manager.py`, `portfolios/util.py`, `tasks.py`, `template_attrs.py` |
| `TemplateCache` | one process's copy of the templates, with the changes made here and elsewhere | `template_manager.py`, parts of `views_data_api.py` |
| `StatsServer` | counters from the event to the row, with flush, monitor, stop and start | `stats_server.py`, parts of `data_manager.py` |
| `FilesystemSync` | files and folders on disk against their records and the cached image IDs | `filesystem_sync.py`, `filesystem_manager.py`, parts of `data_manager.py`, `image_manager.py`, `tasks.py` |
| `PortfolioExport` | exports, their tasks, their zip files, and whatever deletes or outdates them | `views_portfolios_api.py`, `tasks.py`, parts of `task_server.py`, `data_manager.py`, `models.py` |
| `Accounts` | users, groups, sessions, and the check against lock-outs | `views_data_api.py`, `user_auth.py`, `session_manager.py`, parts of `data_manager.py`, `views.py` |
| `Startup` | the start of several processes on one database and one cache | parts of `data_manager.py`, `cache_manager.py`, `flask_app.py` |

`XMC` is the instance of module `X` for TLC and adds only values of constants.
`XProofs` holds the theorems about `X`, and five modules hold those of two
components: `ServersProofs` of `TaskQueue` and `StatsServer`, `RightsProofs` of
`Accounts` and `AccessRules`, `CacheProofs` of `ManagedCache` and `Startup`,
`ImageProofs` of `ImageGeneration` and `ImageRequests`, `SharingProofs` of
`PermissionCache` and `PortfolioExport`. `FilesystemInTurnProofs` goes on from
`FilesystemSyncProofs` with operations that come one after the other. `TaskQueue` is shown to implement
`TaskLifecycle` by an `INSTANCE` with a refinement mapping (`Stage`), checked and
proved.

*Composition.* `ImageRequests` extends `ImageAttributes`, which extends `Imaging`:
requests, rules and arithmetic. Where two components share state, the model of
the one contains as much of the other as it touches: `ImageGeneration` has the
cache of `ManagedCache` in a reduced form (objects of one chunk, a failed `put`
reduced to a refusal); `PortfolioExport` has the task server of `TaskQueue` with
its clean-up and restart but without its process ID file; `FilesystemSync` has
tasks as a set of folders whose data is to be deleted; `PermissionCache` and
`Accounts` look at the same cached user from the two sides: how old its rights
are, and whose they are.

### TaskQueue

`rows` is the table by task ID; a deleted row is "absent" and remembers its key,
which is the function with its parameters. `pc`, `me`, `last`, `todo`, `batch`
and `stop` are the position and the locals of `_run_server` in the one process
that holds the server's port (the port is a mutex of the kernel, and the code
exits if it is taken). `threads` are the worker threads, which may belong to an
earlier process. Callers are `waits`, one for each task of the folder API.

| Action | Code |
|---|---|
| `AddTask`, `CancelTask`, `BeginWait`, `PollWait`, `DeleteWaited` | `add_task`, `cancel_task`, `wait_for_task` and the folder API's `_task_response`; each a transaction |
| `StartServer`, `OpenPidFile`, `WritePidFile`, `Settled`, `ListInterrupted`, `ResetTask`, `Recovered` | the start: bind, read and overwrite the process ID file, `IDLE_WAIT`, list and reset what the last process had locked |
| `FetchPending`, `DispatchTask`, `BatchDone`, `CleanUp`, `Rest` | the loop |
| `BeginTask`, `EndTask`, `CompleteTask` | a worker thread |
| `LeaveLoop`, `ExitServer` | a clean stop |
| `Kill`, `Terminate`, `MainFails` | SIGKILL, SIGTERM, an exception of the main function |

The lock ID of a row is the process ID with the number of the thread; the recovery
looks at the former only, and so does the model. The operating system may reuse a
process ID. `keep_until` has three values. A database operation that fails is an
action's alternative with `DbMayFail`. `merge()` of a row that is gone inserts it
again in the code, and fails when the unique index forbids it: `CanMerge`. Whether
worker threads live on when the main function has failed depends on the Python
version; `ThreadsOutliveMain` lets TLC and the theorems tell the cases apart.
`adrift` is history: the tasks that were active when a start was cut off, or was told
to stop, before its recovery was done, and one whose end could not be recorded, until
a later start resets them.

### PermissionCache and AccessRules

Permission data is the number of changes made to it, so a calculated permission
is the numbers it was calculated from and "older" is "smaller". One folder, one
portfolio and one user stand for all, because no entry depends on another. A
look-up begins with the version check (`Boot`, `Check`, `Refresh`, `Adopt`,
`ClearCache`), notes the version and tries the cache (`LookUp`), queries
(`ReadData`), files the result under the version it noted (`Store`). A change
commits (`Commit`), forgets the user (`ForgetUser`) and announces under the
refresh lock (`AnnounceLock`, `Announce`, `MarkDue`). History: `told`, what each
version of a kind announced; `seen`, the newest version that a process has known;
`clashed`, the kinds for which a thread set the version it had read in a process that
another thread had started meanwhile (no lock is held there), until a refresh that has
caught up. Only in such a process may the version go back, and only there is an answer
held against the version the process was left with instead of `seen`.

`AccessRules` takes the calculation apart that `PermissionCache` makes in one
step: the climb from a folder to the nearest record of a group (`Up`), the
highest of the groups with the search ending at full access (`CalcPublic`,
`CalcGroup`, `Combine`), the folder that stands for a missing one (`Descend`), and
the trace with its own order and its own comparison (`TracePublic`, `TraceGroup`,
`Check`). The level is cached (`kept`), and an answer, that of the trace's own check
too, comes from the cache as long as that has one of the version in use (`FromCache`,
else `Calculated`). Records may change at any time (`SetPermission`); the theorems say
what holds unless one did since the question (`changed`) or since the level in the
cache was calculated (`aged`).

### ManagedCache

One key, whose chunks are memcached entries of their own. `get`, `put`, `delete`
and `clear` go through them in the order of the code, with one step for each call
of memcached and each transaction. Errors of memcached and of the database, and
kills, are alternatives counted by `faults`. `torn` and `met` are history: that
chunks of two objects may have been left in the cache, and that a thread's `get`
met such a mix or the writing of another object.

### ImageGeneration

An image is the version of the file it was made from, or an error message made
as an image. A request looks the variant up, waits for a generation in progress
or claims the lock (tested and set in two calls, as in the code), looks for a
base in the cache, makes the tile base first if the variant is a tile, reads the
file, stores, records and unlocks. Uploads, deletions and refreshes remove the
exact variant, then all that the search of the control database finds. Which
variants can be made from which is the constant `Suits`; the rule behind it is
`SuitableForBase` of `ImageAttributes`.

### Imaging, ImageAttributes, ImageRequests

An image is described by its size, the size of the part that is not fill, whether
it is mirrored and how far it is turned, its colour mode, and the sequence of the
operations done to it, each with the orientation at the time; pixels are left out.
`AdjustImage` is the sequence of `adjust_image()`. `NormaliseValues` is the
sequence of steps of `normalise_values()`, `CacheKey` what of the attributes goes
into a key, `SuitableForBase` the conjunction of the tests of
`suitable_for_base()`. In `ImageRequests` a request is one step: the view merges
template and defaults (`Finalised`), applies the public limits before and after
(`PreLimits`, `PostExceeds`), refuses what is invalid (`Ready`), and `GetImage` answers from the cache, or adjusts
any of the candidates that the search may return, or the file. A cached image
remembers its attributes and whether its base may have mattered (`exact`,
history).

### TemplateCache

One process in full; the others appear as changes of the database that are
announced later, or never. The load is the sequence of the code: clear the copy,
read the version, the default's name, the rows, then fill. A template's content
is the number of the change that saved it. What a process does with its lists of
names is the same for both, and one is modelled.

### StatsServer

A set of counters is a function to numbers of events. `sysCache` and `imgCache`
are the counters in memory, `localSys` and `localImg` what the flush thread took,
`sysWritten` and `imgWritten` the rows, `sysLost` and `imgLost` history. Sections
that hold a lock, and transactions, are single steps.

| Action | Code |
|---|---|
| `CountForSystem`, `CountForImage` | `_handle_one`, with one lock for each of the two |
| `FlushWakes`, `FlushTakes`, `FlushWritesSystem`, `FlushUpdatesImages`, `FlushInserts`, `FlushFixesInserts`, `FlushRetries`, `FlushEnds`, `FlushFails` | the flush thread, with the insert that one deleted image makes fail for all |
| `MonitorWakes`, `MonitorDiscards` | the monitor, which looks at the age of the counters and discards them under locks taken again |
| `ClearSignal`, `Shutdown`, `ProcessEnds`, `StartStatsServer`, `PurgeImage`, `Tick` | signals, kills, the deletion of an image, the clock |

### FilesystemSync

`dirs` and `files` are the disk, `db` the records, `cachedId` the cached image
IDs. An operation is a thread with a session: what it has written and not
committed is `act[a].pend`, applied by `Commit`. The steps are cut at each look at
or change of the disk, each read, each use of the cache and each commit, which is
where another thread may come between.

| Actions | Code |
|---|---|
| `Sync...`, `CreateFolders`, `InsertImage` | `auto_sync_file`, `auto_sync_existing_file`, and `get_or_create_image` of the data manager |
| `FolderLook`, `FolderGone`, `FolderHave` | `auto_sync_folder`, `auto_sync_existing_folder`; the task that is posted for a missing one is `DataStart`, `DataDelete` |
| `MoveFile...` | `move_file`: permissions and purge of old records, rename, record, commit, and the rename back |
| `DeleteFile...`, `Upload...`, `CreateFolderStart` | `delete_file`, `put_image`, `create_folder` |
| `MoveFolder...`, `DeleteFolder...`, `PurgeStart` | the folder tasks, and the purge of deleted data |
| `LookupStart`, `PutId` | `get_or_create_image_id` |
| `Outside...`, `Refuse` | other programs, errors of the database |

A path is a sequence of `Names`, so that a move of a folder gives everything below
it another beginning (`Rebase`). `Walk` is an order of all paths, and `round`
counts how many of them have been visited in it with nothing else going on, which
is what `ARoundHeals` is about; `overlap` remembers that two operations met,
`hidden` that a record was put in a folder marked as deleted. What
may be there at first (`Starts`) has no file in a folder that does not exist, and
records that the database could hold: no two of one path, none in a folder without
a record, and the active one of the root that `_init_db` makes (`StartsAssumption`).
The starts of the run agree with their disks as well (`StartsInStep`).

### PortfolioExport

| Actions | Code |
|---|---|
| `RecordExport`, `PostTask`, `NameTask` | `PortfolioExportAPI.post`: three transactions |
| `RunStart`, `RunLoad`, `RunImages`, `RunMove`, `RunSave` | `export_portfolio` |
| `LoadExport`, `Cancelled`, `Refuse`, `DeleteRecord`, `DeleteFiles` | `PortfolioExportAPI.delete`, and the expiry task |
| `StampEdit`, `CommitEdit` | edits: the time is taken, then the change committed; `Flag` is `is_outdated()` |
| `PurgeImage` | `delete_image` with `purge=True`, from `move_file`, `move_folder` and `purge_deleted_folder_data`: the image leaves the portfolio, which is not stamped |
| `DeleteFolio`, `DeleteFolioFiles` | the deletion of the portfolio |
| `StartTask`, `EndTask`, `KeepExpires`, `CleanUp`, `RestartServer`, `KillServer` | the task server |

The foreign keys of the tables are enforced (`Referenced`), as PostgreSQL does.

### Accounts

An account is its status, a group its type, flags and members. Every handler
loads in one transaction, changes its detached copy, and merges it in another
(`Merge`), which writes every attribute that was loaded and inserts again what has
been deleted. `Reset` removes the cached users, `CheckForUserLockout` and
`RollBack` are the check after the change. `raced`, `dropped`, `failed` and `late`
are history: a merge that overwrote something, a group deleted, a fault or a roll
back, a copy that was read before a change and cached after it; `took` is what a
request's own change took away, the most that its roll back should give.

### Startup

`CheckControl` (existence and count), `QueryRows`, `DropControl`, `CreateControl`
are the check of the control database, `CacheImage` and `RecordImage` the two
halves of a `put` by a running process, `CreateTable`, `CreateRow`, `Upgrade` the creation of the management
database, both under the universal lock (`Acquire`, `GoOn` after 60 seconds,
`Leave`). `Migrated` is what migration 1 adds. The sets of tables and of rows are
the database; a process knows which tables it created (`created`).

## 4. What the runs check

Every passing run explores its whole state space. Symmetry is used only in runs
that have no liveness property, over threads, processes or requests that the
specification treats alike.

| Run | Instance | Properties |
|---|---|---|
| `task_queue` | 2 tasks of 2 keys (one kept and waited for), 2 threads, 2 process IDs, 1 SIGTERM, 1 kill or failing query, at any point of the server | `OneRunnerPerKey`, `RerunNeedsKill`, `CancelledStaysGone`, `WaiterToldTruth`, `ImplementsLifecycle`, `PostedIsFinished` |
| `permission` | 1 process of 2 threads, which may start it at once, folder permissions of the public and of a user with groups, 1 change, 1 fault | `FolderEntriesAreFresh`, `FolderAnswersAreFresh` |
| `managed_cache` | 3 threads, an object of 3 chunks, one of 2 under the same key and one too large, 1 fault | `GetReturnsOneObject`, `OrphansNeedARace` |
| `generation_tiles` | 2 threads, an image and its tile, 1 change of the file, 1 kill, failures of generation | `StaleNeedsARace`, `LocksAreReleased` |
| `generation_live` | the same without changes, with images too large to cache and generations that outlast their lock | `EveryRequestEnds` |
| `template` | 2 threads of a process that starts, 1 name, 1 change of any kind here or elsewhere, 1 fault, loads that outlast the lock | `CurrentCopyIsComplete`, `EveryChangeArrives`, `EveryCallEnds` |
| `stats` | 2 images, 3 events, a period of 2 minutes, 2 faults, 2 deleted images | `CountedOnce`, `ImageNotAheadOfSystem`, `NoFalseSpike`, `LossNeedsACause` |
| `files` | paths f, f/h and h with a file in each, 2 threads, 2 initial states, 6 image and 8 folder records, 2 operations or outside events with 1 visit at a time, or 4 operations in turn | `NoFileIsLost`, `CachedIdIsRight`, `OperationsKeepInStep`, `ARoundHeals` |
| `exports` | 2 exports, 1 editor, 1 deleter, 2 events (edits, purges, deletions, errors, kills) | `VisibleZipExists`, `UnflaggedZipIsCurrent`, `EveryZipIsAccountedFor`, `CleanUpFailsForStraysOnly`, `PublishedSettles` |
| `attributes` | a picture of 320 x 160, some 200 sets of attributes, exports, 2 templates, public limits on the width, the height and both, 2 cached images | `ImageIsAsFromTheFile`, `PublicImagesAreLimited`, `NormalisingKeepsTheImage`, `CutsAreComplete` |
| `accounts` | the administrator, another one who is not logged in, a user who may get rights, one who does not exist yet; 3 groups, one of them local with different rights and members; 2 requests, 1 fault | `LockoutHasAReason`, `SessionsHaveTheRights`, `DeletedStaysDeleted`, `RightsComeFromTheirOwners` |
| `startup` | 3 processes, 4 starts on an empty or an old database, 1 fault | `FewInside`, `RowsAreOwed`, `ImagesAreListed` |

`CHECK_DEADLOCK FALSE` is set where the system may really come to rest with
nothing left to do or with its faults used up: `task_queue`, `stats`, `exports`,
`accounts`, `startup`.

*Why the bounds are enough.* The hazards are about pairs: a reader and a writer,
a stop and a start, a fetched task and a posted one, two merges. Two actors, two
keys and one change reach each of them; a third actor is there where three meet:
a removal, a put and a get of one object (`managed_cache`), a holder, a process
that gave up waiting and one that takes the freed lock (`startup`). Two process
IDs let the operating system give the new server the old one's. Three chunks let
two of them be of different fates after the first. A folder inside a folder, and
one beside it, make a move of a tree, into the tree and onto an existing path.
The picture of `attributes` is twice as wide as high, so that a turn shows, and
its attribute sets pair every attribute with those that the code compares it
with. Three events are two of one image and one of another, or two taken by
different flushes.

Every mutant of `PROJECT.json` is a plausible mistake in the code that these
instances notice; the theorems of section 6 do away with the bounds where they
apply.

Properties that say "unless" name every exception: the code has the races, and
what is claimed is that there are no others. The exceptions are history variables
that are set by the step that makes the race, not by its consequence, so that
such a property fails as soon as there is another way to the same end.

`files` needs more operations than its two events for what single operations do
to what earlier ones have left: beyond `MaxEvents`, operations go on up to
`MaxInTurn`, alone and one after the other.

Three runs leave out what repeats something else. `managed_cache` checks an answer
of `get` and does not go on from it (`NoneHasAnswer`): to all that follows, the
thread is as good as idle. In `exports` the IDs of exports are in the order of their
creation (`InOrderOfID`). In `permission`, where nobody asks for portfolio
permissions, their version is read at the start and after an announcement, and not
by the clock (`PortfolioVersionByNeed`). `startup` has one fault at a time; that the
properties hold for any number of processes, starts and faults is proved.

`generation_tiles` has `MaxRows = 2` for two variants, so that a search is never
cut off.

## 5. Fairness

* *Tasks.* Some process starts the server again after it stops: each web worker
  calls `run_server` when it starts and web servers replace their workers. Its
  loop and the threads run, task functions return, and a keep time passes. The
  clean-up is strongly fair because it is triggered by the clock, every ten
  seconds, and not by the state of the loop. Callers owe nothing.
* *Image generation.* Threads run, and a wait times out. Generation takes finite
  time. Clients need not ask again.
* *Templates.* Threads run, the minute passes and the process goes on being asked.
  `reset()` waits for the lock in `LockForReset`; the lock is held for a few
  queries once a minute, so a thread that waits for it gets it: strong fairness.
* *Exports.* The publishing call goes on to its end, a posted task is started and
  a run that has begun takes its steps, as in `TaskQueue`. Nobody owes an edit, a
  deletion, an expiry or a restart of the server: `PublishedSettles` makes an
  exception for a server that is not running.
* *Permissions.* Safety only. The refresh lock is tried and not waited for, and is
  the same for both kinds of permission, so two threads of one process can, under
  any fairness of threads, find it taken for the other kind each time: that a
  change arrives cannot be promised.
* The other specifications state no fairness: their properties are about what
  must not be, and `ARoundHeals` about what is so at the end of a round.

## 6. What is proved

All theorems hold for any number of tasks, keys, threads, processes, templates,
objects, chunks, images, files, attributes, exports, requests, changes and faults. Safety only:
liveness (with fairness) is beyond the prover and is model-checked.

| Theorem | Property | Assumes |
|---|---|---|
| `ServersProofs!TypeCorrect` | `TypeOK` of `TaskQueue` | |
| `OneRunner`, `RunnerOwns`, `CancelIsFinal`, `CompletedStays` | `OneRunnerPerKey`, `RunnerOwnsRow`, `CancelledStaysGone`, `CompletedIsFinal` | `ThreadsDieWithMain` |
| `QueueImplementsLifecycle` | `ImplementsLifecycle` | `ThreadsDieWithMain` |
| `RecoveryIsComplete` | `ServingOwnsActive` | `ThreadsDieWithMain` |
| `WaitersAreToldTheTruth`, `RerunsNeedKills` | `WaiterToldTruth`, `RerunNeedsKill` | `ThreadsDieWithMain` |
| `StatsTypeCorrect`, `EventsAreCountedOnce`, `ImagesFollowSystem`, `CountersStayYoung`, `LossesHaveACause` | `StatsTypeOK`, `CountedOnce`, `ImageNotAheadOfSystem`, `NoFalseSpike`, `LossNeedsACause` | |
| `SharingProofs!TypeCorrect`, `EntriesAreFresh`, `MovesForward`, `AnswersAreFresh` | `TypeOK`, `FolderEntriesAreFresh`, `VersionsMoveForward`, `FolderAnswersAreFresh` of `PermissionCache` | |
| `ExportsTypeCorrect`, `VisibleZipsExist`, `UnflaggedZipsAreCurrent`, `NoZipIsForgotten`, `OnlyStraysStopTheServer` | `ExportsTypeOK`, `VisibleZipExists`, `UnflaggedZipIsCurrent`, `EveryZipIsAccountedFor`, `CleanUpFailsForStraysOnly` of `PortfolioExport` | |
| `RightsProofs!TypeCorrect`, `LockoutExplained`, `SessionsUpToDate`, `DeletedForGood`, `OwnersGive` | `TypeOK` of `Accounts`, `LockoutHasAReason`, `SessionsHaveTheRights`, `DeletedStaysDeleted`, `RightsComeFromTheirOwners` | |
| `RulesTypeCorrect`, `HighestAccess`, `MissingInherit`, `TraceIsConsistent` | `RulesTypeOK`, `AccessIsHighest`, `MissingFoldersInherit`, `TraceAgrees` of `AccessRules` | |
| `CacheProofs!TypeCorrect`, `OneObject`, `NoSilentOrphans` | `TypeOK`, `GetReturnsOneObject`, `OrphansNeedARace` of `ManagedCache` | |
| `FewAreInside`, `MigrationsAreMade`, `MissingRowsAreOwed`, `CachedIsListed` | `FewInside`, `MigratedMeansMigrated`, `RowsAreOwed`, `ImagesAreListed` of `Startup` | |
| `ImageProofs!TypeCorrect`, `StaleImagesRaced`, `NoLockIsLeft` | `TypeOK`, `StaleNeedsARace`, `LocksAreReleased` of `ImageGeneration` | |
| `RequestsTypeCorrect`, `PublicImagesAreAlwaysLimited`, `CutsAreAlwaysComplete` | `RequestsTypeOK`, `PublicImagesAreLimited`, `CutsAreComplete` of `ImageRequests` | |
| `NormalisingIsIdempotent` | (of `NormaliseValues` alone) | |
| `TemplateCacheProofs!TypeCorrect`, `CopyIsComplete` | `TypeOK`, `CurrentCopyIsComplete` | |
| `FilesystemSyncProofs!TypeCorrect`, `NothingIsLost`, `CachedIdsAreRight`, `RoundsHeal` | `TypeOK`, `NoFileIsLost`, `CachedIdIsRight`, `ARoundHeals` | |
| `FilesystemInTurnProofs!StaysInStep` | `OperationsKeepInStep` | `StartsInStep` |

Two assumptions are about constants. The first is where the code departs from
the properties if it is dropped (section 7); the second says where it begins.

* `ThreadsDieWithMain == ~(DbMayFail /\ ThreadsOutliveMain)`: an exception in the
  main loop does not leave worker threads behind.
* `StartsInStep`: disk and records agree at first. Single operations keep that, but
  do not bring it about; `RoundsHeal` is without the assumption.

Every module also has named assumptions that only say what its constants are:
bounds are numbers (`BoundAssumption`, `BoundsAssumption`), processes are finitely
many (`ProcsAssumption`), a tile is made from a base that is no tile
(`GenerationAssumption`), edits have the values that pass the validation
(`CallsAssumption`), the groups start as `_init_db` leaves them, with accounts that exist (`StartAssumption`),
the paths are closed under parents and the walk visits all of them
(`PathsAssumption`), the records at the start are within the unique indexes
and foreign keys that the tables enforce, and have the root's (`StartsAssumption`), `None` is no value of an attribute
(`NoneAssumption`), settings and limits are numbers (`SettingsAssumption`,
`PublicLimitAssumption`: 0 stands for no limit), a request has all the fields of a set of attributes
(`ViewsAssumption`), the file has an area (`OriginalAssumption`), and a template
holds attributes that pass the validation (`TemplatesAssumption`). TLC evaluates each of them on a run.

*The arguments.*

* Tasks. `QueueInv`: `RunnerOwnsRow` is not inductive, because a row could be reset
  or reused under a thread. It becomes so with: all threads belong to the process
  that holds the port and has finished its recovery; no two threads have the same
  task; the keys of existing rows differ; IDs beyond the autoincrement are unused;
  the tasks to reset are active rows. `StartInv`: an active row that is not adrift is traceable to the
  process that locked it all the way through a start, in the file, in what was
  read from the file, in the list of tasks to reset, in a thread. The refinement
  follows from `QueueInv`, one step for each action.
* Permissions. `FreshInv`: whoever reads data read it after noting the version that
  it will be filed under, and no version newer than the database's is known, held
  or filed; `TurnInv` adds that, unless initialisations clashed, versions are adopted
  by the holder of the refresh lock, in turn, or by the one thread that finds the
  process without, so that what it knows is what it has `seen`. In `AccessRules`, the invariant is what a search has found so far:
  the highest among the groups it has passed, with the rest still to come or cut
  off at full access; and that the level in the cache is the result of one.
* Cache. `ChunkInv`: every slot, and every answer being put together, holds chunks
  that fit their object. `RecordInv`: as long as nothing has gone wrong, who stores
  and who removes exclude each other, and the record is deleted after the first
  chunk.
* Templates. `CopyInv`: the lock is held through a load, and what a load has put
  together is the current data for as long as the version it read is current; a
  change is announced after it is committed, so a load that read half of it holds
  an old version.
* Statistics. Events are conserved step by step. Images follow the system because
  the two sets are exchanged together and the system's is written first; what the
  flush thread still holds of an image has been written for the system. The age of
  the counters is bounded by where the monitor is in its sleep.
* Exports. The life of one export (`LifeInv`): a run exists only while its task is
  active, and a record has no filename until the last run has saved one. A
  deletion that knows a filename therefore meets no run that could insert the
  record again, and the files it removes are the ones nobody will name.
* Start. A process is inside with the lock, or one lock went away for each
  further one; the rows of a table are owed by who created it, from `CREATE TABLE`
  to the last row. `ListInv`, on top of the lock: as long as no lock was lost,
  whoever checks the control database holds the lock and discounts the right item,
  so nobody goes on to drop the table once an image is listed in it.
* Images. `LockInv`: as long as nothing was killed, a lock that is set has an owner,
  the thread that generates the image or one that waits for it as the base of its
  tile, and each step of an owner keeps it or releases the lock. `FreshInv`: an
  image in the cache is of the file that is there, or a thread is on its way to
  remove it. A removal takes its turn over the records that its search found; that
  it found all of them needs that they are finitely many and not more than
  `MaxRows` (`SearchFindsAll`). Whatever lets an old image in behind a removal sets
  `marred` in the same step.
* Requests. The invariant `Made`: every cached image has normalised attributes, and
  one that is no tile is within the size that they ask for. Normalisation settles
  one group of attributes after the other and disturbs none that is settled, hence
  the idempotence. `AdjustedIsInside` shows the size for the file and for any image
  as the base, whatever its size: whichever side decides a best fit, the other is
  rounded to no more than its limit. Tiles, which the code does not
  limit, and requests that name a template, whose own size is their limit, are
  outside the property (`views.py:580`).
  For the public, the limit goes into the attributes
  before the template is merged or the merged ones are compared with it (`PublicSizes`), and
  the size that is sent follows from that of the attributes (`SentSizes`). The
  side of a grid is chosen as the whole square root of its number of tiles. That there
  is one needs an induction, which `LeastNumber` replaces: of the numbers whose
  successor's square is larger, the least is the root (`AxisIsSquareRoot`). That strips
  meet and places are unique is shown for every length and every grid
  (`StripsOfASideMeet`, `PlacesOfAGridAreUnique`), beyond what the property says.
* Accounts. `LockInv` has three parts, because a change waits for its check and may be
  undone: an administrator without his rights has a request on its way that will
  notice, and undoing any change that waits leaves him the rights he had, and
  nobody more than it took (`Returns`), unless another request touched the groups
  meanwhile. `SessionInv`: a cached user who
  differs from the tables is in the list of a request that is about to reset him.
  `MayAdd` ties the permission that was checked to the copy of the group that will
  be saved.
* Files. The disk: nothing is in a folder that is not there (`Reachable`). A move of
  a folder gives everything below it a new path, which is a bijection between the
  old paths and the new (`RebaseFacts`, `MovingFiles`), so no content is lost or
  doubled. The records: the IDs in use are below the next ones, so an inserted row
  takes nobody's place, and the rows that a session has changed have values that
  the columns can have (`Shape`, for each step that an operation can be at). The
  cache: `CacheInv`, an ID that is cached, and not too late, is the ID of the
  active record of its path, and no session has a change of that record that it
  has not committed; this is stronger than `CachedIdIsRight`, because the commit
  makes visible what was done to the cache before.
  On top of these stands `RecordsInv`: the committed rows are within the unique
  indexes and foreign keys, the root has an active record that nothing moves or
  deletes, and of a round of visits, each path before the current one is settled
  (`RoundInv`), while the visit in progress is at one of the few steps from which its
  path will be settled when it ends (`Progress`). Whatever a visit writes of a record
  is what the disk says of its path (`RightChange`), so it unsettles no other path.
  `RoundsHeal` needs `WellFiled`, because `auto_sync_existing_file` makes a deleted record active
  together with the deleted folders above the record's folder, and only if those are
  on disk, whatever the path says.
  For single operations, `CalmInv` says for each step of each operation how rows and
  disk are apart (`Stage`): in step (`Tidy`) wherever nothing is decided yet; apart
  below one path after the disk has changed and before the rows have; and, before a
  commit, such that they are in step both if it succeeds and if it is refused
  (`EndsTidy`). The invariant needs that no active record is in a deleted folder (`Nested`),
  which is what `hidden` takes note of, and that the tree of a folder by its records
  is the tree by its paths (`TreeIsClosed` and the lemmas after it, by way of the
  shortest path that is not in it: an induction would need an operator as its
  parameter). A visit finds no active folder record to delete and so posts no task
  (`NoFolderToDelete`), which would run beside the next operation.

`RunnerOwnsRow`, `ServingOwnsActive`, `CompletedIsFinal`, `VersionsMoveForward`,
`MigratedMeansMigrated`, the three of `AccessRules` and the type invariants are in
no run's configuration, since they are proved. `AccessRules` has no run of its own
for the same reason.

*Only model-checked* are

* all liveness (`PostedIsFinished`, `EveryChangeArrives`, `EveryCallEnds`,
  `EveryRequestEnds`, `PublishedSettles`): it rests on fairness, which the prover
  does not handle;
* `ImageIsAsFromTheFile` and `NormalisingKeepsTheImage` of `ImageRequests`: they
  compare the results of two computations that round at different points, and hold
  within a tolerance that the bounded inputs justify and no invariant gives. The
  part of the latter that is exact, that a second normalisation changes nothing, is
  `NormalisingIsIdempotent`.

## 7. Where the code departs from what it says

The properties leave room for these by an assumption, an "unless", a constant or a
bound; the models have each of them unless it says otherwise.

*Tasks*
* "Recover any tasks that weren't completed when we last exited"
  (`task_server.py:153`): `store_pid` overwrites the previous process ID before the
  recovery has used it. A SIGTERM during the sleep that follows, or a kill before
  the last task is reset, leaves tasks active for ever, and their keys blocked
  (`adrift`).
* An exception in the main loop closes the port and leaves the threads running, if
  Python lets them: a second server resets and runs their tasks (`DbMayFail`,
  `ThreadsOutliveMain`).
* `wait_for_task` returns `None` also for a database error (`DbMayFail`). A
  completed record blocks its key until the clean-up.

*Permissions, templates*
* A user's groups are cached after the change that should have removed the user
  from the cache, and go into permissions filed under the new version, until the
  session's entry expires. The properties are about folder permissions, and say
  nothing of groups.
* A portfolio permission is cached under no version: with two threads in a process
  it can be stored after the clearing that was meant for it
  (`permissions_manager.py:287`).
* Two first requests of a process may take it back to an older version
  (`permissions_manager.py:657`, `clashed`), until the next refresh. A change whose
  announcement fails, or whose process dies first, is not announced.
* The trace's "Data integrity error" "would indicate a bug", but also comes from a
  change made meanwhile, or from an earlier one that the version in use does not
  announce, since the check may be answered from the cache.
* "The template cache is empty and we should wait for it to load"
  (`template_manager.py`): only a thread that fails to get the refresh lock looks
  at the event; one that has passed its check a moment earlier finds the copy empty
  and reports that the default template does not exist.
* A load of templates that fails half way leaves an empty copy under the new
  version until the next change. Renaming the default template, or setting the
  default to a template while it is deleted, leaves none.

*Cache and images*
* `get()` returns chunks of two objects if another object is put under the key
  while it reads; and so does every later `get()`, until the key is written or
  removed again, after two puts of different objects overlapped, or after one that
  replaced an object was killed half way or could not remove what it had begun
  (`met`, `torn`). A cache miss deletes the record of an object
  that is just being added: it stays in the cache and cannot be searched for.
* Two requests may generate the same image; an old image is stored after a reset;
  the search of a reset stops at 1000 rows; an overloaded server answers "too busy"
  at once when a generation it waited for has ended without an image.

*Attributes and image processing*
* A cached image of width 120 that is not turned is taken as the base of the same
  width turned by 90 degrees: the result is 62 x 124 instead of 120 x 240. The
  comment at `image_attrs.py:848` says that the operations up to then are in order;
  the test at 853 lets this through (`TurnsSized`, the flag `exact`).
* A crop of the file may be enlarged, a crop of an already cropped base may not
  (`EnlargesCrop`). A base whose quality is not given counts as lossless although
  it was saved at 80. `icc_bpc` given as false and not given are the same image
  with two keys, and the profile is applied again.
* `_image_resize` returns nothing for an image that has the wanted size already in
  a larger canvas: the request fails.
* With both public limits set and one dimension requested, the other is not
  checked; nor is one that is not asked for in a request that names a template. A
  default template may have a size beyond the limits, and gives it to images that
  ask for none (`Overlooked`, `Allowed`). An unknown template name ends
  in a 500 where limits are set.
* A progressive JPEG of a transparent image cannot be saved: `_get_pillow_format`
  does not know `pjpg`, so its mode is not converted (`Progressive`). The defaults that `_validate_image_spec` fills in
  go into a copy and are lost. A left or top edge of 1.0 is normalised away.
* The key of an overlay contains `hash()`, which differs from process to process
  (not modelled: names are compared).

*Files*
* `delete_image` and `set_image_src` delete the cached ID before the commit: a
  look-up in between caches the old one, for good (`seen.late`).
* `delete_file` with a record that was loaded before a move deletes the wrong key.
* A folder or an image that appears in a folder which has come back leaves the
  record of the latter deleted. `delete_folder` "marks as deleted all the associated
  database records" (`filesystem_sync.py:860`), but nothing below a record that is
  marked already: the folder is deleted from disk and the records of what was in it
  stay active (`hidden`; it takes three operations, one after the other). An image
  that is inserted while its folder is moved gets a path and a folder that do not
  match. A purge that races an undelete deletes an active record. A round of visits
  puts these right (`ARoundHeals`), but for the record in the wrong folder: once it is
  marked as deleted, it stays so as long as the wrong folder is not on disk, although
  its file is there (`WellFiled`).
* The path is checked before permissions and purge, and the rename replaces what
  has come there since (`NoFileIsLost`). When the last commit fails the file has
  moved and its record has not.
* `get_deduped_path` strips characters instead of the extension, and tests a
  relative path (the upload option is not modelled).

*Exports*
* The cancellation of a pending export is always refused by the foreign key of its
  record, although `doc/v2/Portfolios.md:394` says it is allowed.
* The clean-up of tasks fails for an export that refers to its ended task, and
  stops the server whose function "does not return until the process is killed"
  (`task_server.py:106`).
* A deletion with a filename that has changed since leaves the zip file; a run may
  insert the record of a deleted export again; the removal of a directory races the
  run of another export.
* `is_outdated` "returns whether the portfolio has had image modifications made
  since this export was created" (`models.py:844`). It misses an edit that commits
  after the export was created but took its time before (`raced`), and the purge of
  an image's record (`data_manager.py:1062`), which removes the image from
  portfolios and does not touch `last_updated` (`purged`).

*Accounts*
* "Don't update the status field with this method" (`views_data_api.py:319`), but a
  merge writes what was loaded: an account that was deleted meanwhile is active
  again. A group's merge writes its list of members and their accounts: a new
  member of Everyone is lost, a deleted group is inserted again.
* The deletion of a user or a group is not checked for a lock-out. A roll back may
  restore old data over another change, and does not reset the sessions. Two
  requests with their checks and roll backs can lock the administrator out.
* A user administrator who saves a group saves the permissions he loaded. PUT can
  make a local group a system group, which POST refuses; it can then not be
  deleted.
* `get_session_user` never looks at the status: sessions and tokens of a deleted
  account go on.

*Start*
* A process that waited for 60 seconds goes on unchecked; whoever ends frees the
  lock of whoever holds it. Errors of an upgrade are logged and the start goes on.
  `count() - 1` leaves out the lock even if it is gone, and an error of `count()`
  (-1) passes for an empty cache.
* `_init_db` counts the items, looks for rows and drops the table in steps of
  their own. An image that another process caches after the count is not listed
  once the table has been dropped, and so is one whose table is missing because
  the process that reset it ended in between (`raced`).
* `_init_db` "creates the schema and default data if it does not yet exist"
  (`data_manager.py:1896`), but the default data only in the process that made the
  tables: after a crash between a table and its rows no later start creates the
  default administrator.

## 8. What is not modelled

* *Pixels*: resampling, colours, file formats, metadata, PDF bursting. Angles are
  multiples of 90 degrees, crops quarters of the image; sizes are compared with a
  tolerance of 4 pixels, because the order of roundings differs between a base and
  the file. The ImageMagick back end calls a native library that is not in the
  repository.
* *Times and sizes*: timeouts are steps that may happen; sizes of cached objects
  are numbers of chunks; expiry times of cached values are evictions.
* *In `ImageGeneration`*: pyramids, modification times, ETags and metadata entries.
  The record, the lock and the flag of a variant are removed in one step.
* *In `TemplateCache`*: templates whose values are invalid, and how they are
  skipped. A save is one transaction.
* *In `StatsServer`*: what an event adds to sums and maxima, hardware figures, the
  socket client, the daily tidying up. The lists of the flush are not kept in
  order.
* *In `FilesystemSync`*: permissions as such, names that are sanitised, the upload
  option that renames, listing and counting.
* *In `PortfolioExport`*: the order of the images, portfolio permissions, the
  history, the contents of the zip file (its images are in `ImageRequests`).
* *In `Accounts`*: passwords and details, the LDAP protocol, CSRF tokens, ports and
  SSL.
* *In `Startup`*: settings, the creation of the cluster ID, the launch of the
  auxiliary processes.
* *Portfolio access levels.* Their calculation, and the functions that compare a
  level, change no state.
* *Logging, scripts, the browser code*: sequential, or I/O that nothing else
  depends on.

## 9. What is left

1. A bound on the tolerance of `ImageIsAsFromTheFile` and `NormalisingKeepsTheImage`
   that follows from the number of roundings.
2. `reorder_portfolio`, the arithmetic of slots and the headers of `ManagedCache`
   against reference definitions.
3. Portfolio permissions in `AccessRules`, and entries of the history in
   `PortfolioExport`.
4. An abstract promise for `FilesystemSync` with the refinement that shows single
   operations implement it.
