--------------------------- MODULE FilesystemSync ---------------------------
(***************************************************************************)
(* The image files and folders on disk and their records in the database: *)
(* filesystem_sync.py, with what it calls of data_manager.py and of       *)
(* filesystem_manager.py, the upload of image_manager.py and the folder   *)
(* tasks of tasks.py.  The disk belongs to everyone: other programs add    *)
(* and remove files, and the records follow when a path is next visited.   *)
(*                                                                         *)
(* An operation is a thread with a database session of its own.  What it   *)
(* has written and not committed is act[a].pend, a set of changed fields;  *)
(* the steps are cut where another thread may come between: at each look   *)
(* at or change of the disk, at the reads, at the cache, at the commit.    *)
(*                                                                         *)
(* Paths are sequences of names, the root folder is <<>>.  A cached image  *)
(* ID (get_or_create_image_id) is in cachedId.                             *)
(***************************************************************************)
EXTENDS Naturals, Sequences, FiniteSets

CONSTANTS Names,         \* names of files and folders
          FolderPaths,   \* the folder paths there can be, closed under parents
          FilePaths,     \* the file paths there can be
          Contents,      \* what tells the files apart
          Threads,       \* threads of the web processes and of the task server
          Walk,          \* every path there can be below the root, in some order
          Starts,        \* what can be on disk and in the database at first
          MaxImages, MaxFolders,            \* rows that can be inserted
          MaxVisits,                        \* visits at once
          MaxEvents,                        \* operations, outside changes and faults
          MaxInTurn                         \* operations, while none has met another

Root   == <<>>
NoId   == 0
IsPrefix(p, q) == Len(p) <= Len(q) /\ SubSeq(q, 1, Len(p)) = p
ParentOf(p)    == SubSeq(p, 1, Len(p) - 1)
Rebase(p, from, to) == to \o SubSeq(p, Len(from) + 1, Len(p))

Image  == [src : FilePaths, folder : 1..MaxFolders, status : {"active", "deleted"}]
Folder == [path : FolderPaths, parent : 0..MaxFolders, status : {"active", "deleted"}]

\* No file and no folder is in a folder that is not there.
Reachable(D, P) == \A p \in D \cup P, q \in FolderPaths : IsPrefix(q, p) => q \in D

ASSUME PathsAssumption ==
    /\ FolderPaths \cup FilePaths \subseteq Seq(Names)
    /\ Root \in FolderPaths /\ IsFiniteSet(FolderPaths)
    /\ \A p \in FolderPaths \cup FilePaths :
           \A n \in 0..(Len(p) - 1) : SubSeq(p, 1, n) \in FolderPaths
    /\ FolderPaths \cap FilePaths = {}
    /\ Walk \in Seq((FolderPaths \cup FilePaths) \ {Root})
    /\ {Walk[n] : n \in DOMAIN Walk} = (FolderPaths \cup FilePaths) \ {Root}
ASSUME BoundsAssumption ==
    MaxImages \in Nat /\ MaxFolders \in Nat /\ MaxVisits \in Nat /\ MaxEvents \in Nat /\ MaxInTurn \in Nat

VARIABLES
    dirs,      \* the folders on disk
    files,     \* file path -> content, for the files on disk
    db,        \* committed rows: [images, folders], each a function from IDs
    next,      \* the IDs of the next rows: [image, folder]
    cachedId,  \* file path -> ID cached for it, or NoId
    tasks,     \* folder IDs of the delete_folder_data tasks in the queue
    act,       \* what each thread is doing
    budget,    \* operations, outside changes and faults so far
    seen,      \* history: contents stored, removed on purpose, overwritten in a race;
               \* paths whose ID was cached too late
    overlap,   \* history: whether two operations were ever under way at once
    hidden,    \* history: whether an active record was ever put in a folder that is
               \* marked as deleted
    round      \* history: how much of the walk was visited since anything else went on

vars == <<dirs, files, db, next, cachedId, tasks, act, budget, seen, overlap, hidden, round>>
disk == <<dirs, files>>

NoRec  == [src |-> Root, folder |-> NoId, status |-> "deleted"]

Idle == [op |-> "none", pc |-> "idle", path |-> Root, to |-> Root, id |-> NoId,
         fid |-> NoId, rec |-> NoRec, saw |-> FALSE, again |-> FALSE, pend |-> {}]

TypeOK ==
    /\ dirs \subseteq FolderPaths /\ Root \in dirs
    /\ DOMAIN files \subseteq FilePaths
    /\ \A p \in DOMAIN files : files[p] \in Contents /\ ParentOf(p) \in dirs
    /\ \A p \in dirs \ {Root} : ParentOf(p) \in dirs
    /\ DOMAIN db.images \subseteq 1..MaxImages /\ DOMAIN db.folders \subseteq 1..MaxFolders
    /\ \A i \in DOMAIN db.images : db.images[i] \in Image
    /\ \A i \in DOMAIN db.folders : db.folders[i] \in Folder
    /\ cachedId \in [FilePaths -> 0..MaxImages]
    /\ tasks \subseteq 1..MaxFolders
    /\ DOMAIN act = Threads /\ round \in 0..Len(Walk)

ImagesAt(d, p)  == {i \in DOMAIN d.images : d.images[i].src = p}
FoldersAt(d, p) == {i \in DOMAIN d.folders : d.folders[i].path = p}
TheImage(d, p)  == CHOOSE i \in ImagesAt(d, p) : TRUE
TheFolder(d, p) == CHOOSE i \in FoldersAt(d, p) : TRUE
ImagesIn(d, F)  == {i \in DOMAIN d.images : d.images[i].folder \in F}

IsRight(p, i) == /\ i \in DOMAIN db.images
                 /\ db.images[i].src = p /\ db.images[i].status = "active"

Init ==
    /\ \E s \in Starts : dirs = s.dirs /\ files = s.files /\ db = s.db
    /\ next = [image  |-> Cardinality(DOMAIN db.images) + 1,
               folder |-> Cardinality(DOMAIN db.folders) + 1]
    /\ cachedId \in {[p \in FilePaths |-> NoId],
                    [p \in FilePaths |-> IF \E i \in DOMAIN db.images : IsRight(p, i)
                        THEN CHOOSE i \in DOMAIN db.images : IsRight(p, i) ELSE NoId]}
    /\ tasks = {} /\ act = [a \in Threads |-> Idle]
    /\ budget = [ops |-> 0, outside |-> 0, faults |-> 0]
    /\ overlap = FALSE /\ hidden = FALSE /\ round = 0
    /\ seen = [stored |-> {files[p] : p \in DOMAIN files}, removed |-> {}, raced |-> {}, late |-> {}]

-----------------------------------------------------------------------------
(* Rows and sessions *)

\* A changed field: of an image row ("i"), of a folder row ("f"); "row" deletes the row.
SetImage(i, f, v)  == <<"i", i, f, v>>
SetFolder(i, f, v) == <<"f", i, f, v>>
PurgeImages(I)  == {SetImage(i, "row", 0) : i \in I}
PurgeFolders(F) == {SetFolder(i, "row", 0) : i \in F}

Field(w, t, i, f, old) ==
    LET W == {u \in w : u[1] = t /\ u[2] = i /\ u[3] = f}
    IN  IF W = {} THEN old ELSE (CHOOSE u \in W : TRUE)[4]

Apply(d, w) ==
    [images |-> [i \in {i \in DOMAIN d.images : SetImage(i, "row", 0) \notin w} |->
         [src    |-> Field(w, "i", i, "src", d.images[i].src),
          folder |-> Field(w, "i", i, "folder", d.images[i].folder),
          status |-> Field(w, "i", i, "status", d.images[i].status)]],
     folders |-> [i \in {i \in DOMAIN d.folders : SetFolder(i, "row", 0) \notin w} |->
         [path   |-> Field(w, "f", i, "path", d.folders[i].path),
          parent |-> Field(w, "f", i, "parent", d.folders[i].parent),
          status |-> Field(w, "f", i, "status", d.folders[i].status)]]]

\* What the session of a reads: the committed rows and its own changes.
View(a) == Apply(db, act[a].pend)

\* The unique indexes idx_im_src and idx_fr_path, and the foreign keys.
Sound(d) ==
    /\ \A p \in FilePaths : Cardinality(ImagesAt(d, p)) <= 1
    /\ \A p \in FolderPaths : Cardinality(FoldersAt(d, p)) <= 1
    /\ \A i \in DOMAIN d.images : d.images[i].folder \in DOMAIN d.folders
    /\ \A i \in DOMAIN d.folders : d.folders[i].parent \in DOMAIN d.folders \cup {NoId}

\* An UPDATE of a row that is gone fails; a DELETE does not.
CanCommit(w) ==
    /\ \A u \in w : u[3] # "row" =>
           IF u[1] = "i" THEN u[2] \in DOMAIN db.images ELSE u[2] \in DOMAIN db.folders
    /\ Sound(Apply(db, w))

\* Every record is in the record of the folder that its path says.
WellFiled(d) ==
    /\ \A i \in DOMAIN d.images : d.folders[d.images[i].folder].path = ParentOf(d.images[i].src)
    /\ \A i \in DOMAIN d.folders : d.folders[i].path # Root =>
           /\ d.folders[i].parent # NoId
           /\ d.folders[d.folders[i].parent].path = ParentOf(d.folders[i].path)

\* The IDs of the rows are 1, 2 and so on; _init_db has made the root's.
ASSUME StartsAssumption == \A s \in Starts :
    /\ s.dirs \subseteq FolderPaths /\ Root \in s.dirs
    /\ DOMAIN s.files \subseteq FilePaths
    /\ \A p \in DOMAIN s.files : s.files[p] \in Contents
    /\ Reachable(s.dirs, DOMAIN s.files)
    /\ DOMAIN s.db = {"images", "folders"}
    /\ \E n \in 0..MaxImages : DOMAIN s.db.images = 1..n
    /\ \A i \in DOMAIN s.db.images : s.db.images[i] \in Image
    /\ \E n \in 0..MaxFolders : DOMAIN s.db.folders = 1..n
    /\ \A i \in DOMAIN s.db.folders : s.db.folders[i] \in Folder
    /\ \E i \in DOMAIN s.db.folders :
           s.db.folders[i] = [path |-> Root, parent |-> NoId, status |-> "active"]
    /\ Sound(s.db)

Go(a, r)   == act' = [act EXCEPT ![a] = r]
Goto(a, pc) == Go(a, [act[a] EXCEPT !.pc = pc])
\* The operation ends; a delete_folder_data task leaves the queue.
End(a) ==
    /\ act' = [act EXCEPT ![a] = Idle]
    /\ tasks' = IF act[a].op = "data" THEN tasks \ {act[a].fid} ELSE tasks

\* To the commit with r; a session that has nothing to write ends at once.
ToCommit(a, r) == IF r.pend = {} THEN End(a) ELSE Go(a, [r EXCEPT !.pc = "commit"]) /\ UNCHANGED tasks

SrcsOf(d, I) == {d.images[i].src : i \in I}
Uncached(P) == [p \in FilePaths |-> IF p \in P THEN NoId ELSE cachedId[p]]
\* The paths whose key is deleted lose the mark of a late ID as well.
Uncache(P)  == cachedId' = Uncached(P) /\ seen' = [seen EXCEPT !.late = @ \ P]
\* The key of the path that a's record had when it was loaded; if another operation
\* has changed it since, the key of the present path stays.
UncacheLoaded(a) ==
    /\ cachedId' = Uncached({act[a].rec.src})
    /\ seen' = [seen EXCEPT !.late = (@ \cup SrcsOf(db, DOMAIN db.images \cap {act[a].id}))
                                         \ {act[a].rec.src}]

Events   == budget.ops + budget.outside + budget.faults
InBudget == Events < MaxEvents
\* Bound: beyond MaxEvents there are only operations, each of them alone.
Alone(a)   == \A b \in Threads \ {a} : act[b].pc = "idle"
InTurn(a)  == Events = budget.ops /\ Events < MaxInTurn /\ ~overlap /\ Alone(a)
CanMeet(a) == Events <= MaxEvents \/ Alone(a)
Fault == InBudget /\ budget' = [budget EXCEPT !.faults = @ + 1]

-----------------------------------------------------------------------------
(* Folder rows *)

\* get_or_create_folder: active rows for the missing part of the path, whatever
\* the status of the rows above; they are committed with all the session has.
MissingFolders(d, p) == {q \in FolderPaths : IsPrefix(q, p) /\ FoldersAt(d, q) = {}}
WithFolders(d, p) ==
    LET M     == MissingFolders(d, p)
        Id(q) == IF q \in M THEN next.folder + Cardinality({r \in M : Len(r) < Len(q)})
                            ELSE TheFolder(d, q)
        New   == {Id(q) : q \in M}
        At(i) == CHOOSE q \in M : Id(q) = i
    IN  [d EXCEPT !.folders = [i \in DOMAIN d.folders \cup New |->
            IF i \in New
            THEN [path |-> At(i), parent |-> Id(ParentOf(At(i))), status |-> "active"]
            ELSE d.folders[i]]]
NextFolder(d, p) == [next EXCEPT !.folder = @ + Cardinality(MissingFolders(d, p))]
HaveFolderIds(d, p) == next.folder + Cardinality(MissingFolders(d, p)) <= MaxFolders + 1

\* The folder and the deleted folders above it, up to the first active one.
DeletedRun(d, i) ==
    LET up[n \in 0..Cardinality(DOMAIN d.folders)] ==
            IF n = 0 THEN i
            ELSE LET j == up[n - 1] IN IF j = NoId THEN NoId ELSE d.folders[j].parent
    IN  {up[n] : n \in {n \in DOMAIN up : \A m \in 0..n :
            up[m] # NoId /\ d.folders[up[m]].status = "deleted"}}
Undelete(F) == {SetFolder(i, "status", "active") : i \in F}

\* i and its descendants among the folders of S, through such descendants only.
Tree(d, i, S) ==
    LET below[n \in 0..Cardinality(DOMAIN d.folders)] ==
            IF n = 0 THEN {i}
            ELSE below[n - 1] \cup {j \in S : d.folders[j].parent \in below[n - 1]}
    IN  below[Cardinality(DOMAIN d.folders)]
WholeTree(d, i) == Tree(d, i, DOMAIN d.folders)

\* delete_folder: with purge the rows of the whole tree, else the flags, where a
\* deleted sub-folder is not looked into.
PurgeTree(d, i) == PurgeFolders(WholeTree(d, i)) \cup PurgeImages(ImagesIn(d, WholeTree(d, i)))
UndeletedTree(d, i) == Tree(d, i, {j \in DOMAIN d.folders : d.folders[j].status # "deleted"})
ActiveIn(d, F) == {k \in ImagesIn(d, F) : d.images[k].status = "active"}
\* Mutant: the images in the sub-folders are forgotten.
DeleteTopImages(d, i) ==
    {SetFolder(j, "status", "deleted") : j \in UndeletedTree(d, i)} \cup
    {SetImage(k, "status", "deleted") : k \in ActiveIn(d, {i})}

DeleteTree(d, i) ==
    LET F == UndeletedTree(d, i)
    IN  {SetFolder(j, "status", "deleted") : j \in F} \cup
        {SetImage(k, "status", "deleted") : k \in ActiveIn(d, F)}

\* purge_deleted_folder_data: deleted images, then deleted folders left empty.
DeletedImages(d, i) ==
    {k \in ImagesIn(d, WholeTree(d, i)) : d.images[k].status = "deleted"}
EmptiedFolders(d, i) ==
    LET gone == DeletedImages(d, i)
        Bare(F) == {j \in WholeTree(d, i) :
            /\ d.folders[j].status = "deleted"
            /\ ImagesIn(d, {j}) \subseteq gone
            /\ \A c \in DOMAIN d.folders : d.folders[c].parent = j => c \in F}
        up[n \in 0..Cardinality(DOMAIN d.folders)] == IF n = 0 THEN {} ELSE Bare(up[n - 1])
    IN  up[Cardinality(DOMAIN d.folders)]

-----------------------------------------------------------------------------
(* auto_sync_file and get_or_create_image *)

Sync(a, p) ==
    IF p \in FilePaths THEN [act[a] EXCEPT !.op = "sync", !.path = p, !.pc = "look"]
                       ELSE [act[a] EXCEPT !.op = "sync", !.path = p, !.pc = "folderlook"]

\* path_exists
SyncFileLook(a) ==
    /\ act[a].pc = "look"
    /\ Goto(a, IF act[a].path \in DOMAIN files THEN "have" ELSE "gone")
    /\ UNCHANGED <<disk, db, next, cachedId, tasks, budget, seen>>

\* No file: the record is deleted, and the folder looked at if it is active.
SyncFileGone(a) ==
    /\ act[a].pc = "gone"
    /\ LET p == act[a].path
           I == {i \in ImagesAt(db, p) : db.images[i].status = "active"}
           F == {db.images[i].folder : i \in I}
       IN  /\ \/ /\ \E f \in F : db.folders[f].status = "active"
                 /\ Go(a, [act[a] EXCEPT !.pc = "folderlook",
                           !.pend = {SetImage(i, "status", "deleted") : i \in I},
                           !.path = db.folders[CHOOSE f \in F : TRUE].path])
                 /\ UNCHANGED tasks
              \/ /\ \A f \in F : db.folders[f].status = "deleted"
                 /\ ToCommit(a, [act[a] EXCEPT
                           !.pend = {SetImage(i, "status", "deleted") : i \in I}])
           /\ Uncache(IF I = {} THEN {} ELSE {p})
    /\ UNCHANGED <<disk, db, next, budget>>

\* The file was there: its record is read.  An ID lookup keeps out of deleted
\* records; a visit undeletes them, if the file and the folders are still there.
SyncFileHave(a) ==
    /\ act[a].pc = "have"
    /\ LET p == act[a].path
           I == ImagesAt(db, p)
           i == TheImage(db, p)
           F == DeletedRun(db, db.images[i].folder)
       IN  \/ /\ I = {} /\ p \in DOMAIN files     \* on_create: ensure_path_exists
              /\ Goto(a, "chain") /\ UNCHANGED tasks
           \/ /\ I # {} /\ db.images[i].status = "active"
              /\ IF act[a].op = "lookup"
                 THEN Go(a, [act[a] EXCEPT !.pc = "put", !.id = i]) /\ UNCHANGED tasks
                 ELSE End(a)
           \/ /\ I # {} /\ db.images[i].status = "deleted" /\ act[a].op # "lookup"
              /\ p \in DOMAIN files
              /\ \A f \in F : db.folders[f].path \in dirs
              /\ Go(a, [act[a] EXCEPT !.pc = "commit",
                        !.pend = {SetImage(i, "status", "active")} \cup Undelete(F)])
              /\ UNCHANGED tasks
           \/ /\ \/ I = {} /\ p \notin DOMAIN files
                 \/ /\ I # {} /\ db.images[i].status = "deleted"
                    /\ \/ act[a].op = "lookup"
                       \/ p \notin DOMAIN files
                       \/ \E f \in F : db.folders[f].path \notin dirs
              /\ End(a)
    /\ UNCHANGED <<disk, db, next, cachedId, budget, seen>>

\* The folders of a new image, in a transaction of their own.
CreateFolders(a) ==
    /\ act[a].pc = "chain"
    /\ LET p == ParentOf(act[a].path)
       IN  /\ HaveFolderIds(db, p)
           /\ db' = WithFolders(db, p) /\ next' = NextFolder(db, p)
           /\ Go(a, [act[a] EXCEPT !.pc = "insert", !.fid = TheFolder(WithFolders(db, p), p)])
    /\ UNCHANGED <<disk, cachedId, tasks, budget, seen>>

\* A duplicate key: another thread was first, and the record is read again, once.
InsertImage(a) ==
    /\ act[a].pc = "insert"
    /\ LET new == [src |-> act[a].path, folder |-> act[a].fid, status |-> "active"]
           i   == next.image
           d   == [db EXCEPT !.images = [k \in DOMAIN db.images \cup {i} |->
                       IF k = i THEN new ELSE db.images[k]]]
       IN  \/ /\ i <= MaxImages /\ Sound(d)
              /\ db' = d /\ next' = [next EXCEPT !.image = i + 1]
              /\ IF act[a].op = "lookup"
                 THEN Go(a, [act[a] EXCEPT !.pc = "put", !.id = i]) /\ UNCHANGED tasks
                 ELSE End(a)
           \/ /\ ~Sound(d) /\ ~act[a].again
              /\ Go(a, [act[a] EXCEPT !.pc = "have", !.again = TRUE])
              /\ UNCHANGED <<db, next, tasks>>
           \/ /\ ~Sound(d) /\ act[a].again
              /\ End(a) /\ UNCHANGED <<db, next>>
    /\ UNCHANGED <<disk, cachedId, budget, seen>>

-----------------------------------------------------------------------------
(* get_or_create_image_id *)

\* The key is not in the cache.
LookupStart(a, p) ==
    /\ cachedId[p] = NoId
    /\ Go(a, [act[a] EXCEPT !.op = "lookup", !.path = p, !.pc = "have"])

Touches(w, i) == \E u \in w : u[1] = "i" /\ u[2] = i

\* raw_put, after other threads may have changed the record or be about to.
PutId(a) ==
    /\ act[a].pc = "put"
    /\ LET p == act[a].path
           i == act[a].id
           late == ~IsRight(p, i) \/ \E b \in Threads \ {a} : Touches(act[b].pend, i)
       IN  /\ cachedId' = [cachedId EXCEPT ![p] = i]
           /\ seen' = [seen EXCEPT !.late = IF late THEN @ \cup {p} ELSE @ \ {p}]
    /\ End(a)
    /\ UNCHANGED <<disk, db, next, budget>>

-----------------------------------------------------------------------------
(* auto_sync_folder *)

\* Mutant: a folder without a record is not looked for on disk.
FolderLookRecorded(a) ==
    /\ act[a].pc = "folderlook"
    /\ LET found == act[a].path \in dirs /\ FoldersAt(db, act[a].path) # {}
       IN  Goto(a, IF found THEN "folderhave" ELSE "foldergone")
    /\ UNCHANGED <<disk, db, next, cachedId, tasks, budget, seen>>

FolderLook(a) ==
    /\ act[a].pc = "folderlook"
    /\ Goto(a, IF act[a].path \in dirs THEN "folderhave" ELSE "foldergone")
    /\ UNCHANGED <<disk, db, next, cachedId, tasks, budget, seen>>

\* The task is posted before, and whether or not, the flag is committed.  One that
\* is queued or running already is not posted again.
FolderGone(a) ==
    /\ act[a].pc = "foldergone"
    /\ LET v == View(a)
           F == {f \in FoldersAt(v, act[a].path) : v.folders[f].status = "active"}
           w == act[a].pend \cup {SetFolder(f, "status", "deleted") : f \in F}
       IN  IF w = {} THEN End(a)
           ELSE tasks' = tasks \cup F /\ Go(a, [act[a] EXCEPT !.pc = "commit", !.pend = w])
    /\ UNCHANGED <<disk, db, next, cachedId, budget, seen>>

\* auto_sync_existing_folder, which move_file and create_folder call as well.
FolderHave(a) ==
    /\ act[a].pc = "folderhave"
    /\ LET p  == act[a].path
           v  == View(a)
           M  == MissingFolders(v, p)
           f  == TheFolder(v, p)
           F  == DeletedRun(v, f)
           Then(r) == IF r.op = "movefile"
                      THEN Go(a, [r EXCEPT !.pc = "mv_check"]) /\ UNCHANGED tasks
                      ELSE ToCommit(a, r)
       IN  \/ /\ M # {} /\ M \subseteq dirs /\ HaveFolderIds(v, p) /\ CanCommit(act[a].pend)
              /\ db' = WithFolders(v, p) /\ next' = NextFolder(v, p)
              /\ Then([act[a] EXCEPT !.pend = {}, !.fid = TheFolder(WithFolders(v, p), p)])
           \/ /\ M = {}
              /\ \A g \in F : v.folders[g].path \in dirs
              /\ Then([act[a] EXCEPT !.fid = f, !.pend = @ \cup Undelete(F)])
              /\ UNCHANGED <<db, next>>
           \/ /\ \/ M # {} /\ ~(M \subseteq dirs /\ CanCommit(act[a].pend))
                 \/ M = {} /\ \E g \in F : v.folders[g].path \notin dirs
              /\ End(a) /\ UNCHANGED <<db, next>>
    /\ UNCHANGED <<disk, cachedId, budget, seen>>

\* commit, or rollback when a row is gone, a key is taken or the database fails.
Commit(a) ==
    /\ act[a].pc = "commit"
    /\ \/ /\ db' = IF CanCommit(act[a].pend) THEN View(a) ELSE db
          /\ UNCHANGED budget
       \/ /\ Fault /\ UNCHANGED db
    /\ End(a)
    /\ UNCHANGED <<disk, next, cachedId, seen>>

\* delete_folder_data: the assertion fails when the folder is back on disk.
DataStart(a, f) ==
    /\ \A b \in Threads : ~(act[b].op = "data" /\ act[b].fid = f)
    /\ f \in DOMAIN db.folders => db.folders[f].path \notin dirs
    /\ Go(a, [act[a] EXCEPT !.op = "data", !.fid = f, !.pc = "data"])
    /\ UNCHANGED tasks
DataRefused(f) ==
    /\ \A b \in Threads : ~(act[b].op = "data" /\ act[b].fid = f)
    /\ f \in DOMAIN db.folders /\ db.folders[f].path \in dirs
    /\ tasks' = tasks \ {f} /\ UNCHANGED act

DataDelete(a) ==
    /\ act[a].pc = "data"
    /\ LET f == act[a].fid
       IN  IF f \in DOMAIN db.folders
           THEN /\ Go(a, [act[a] EXCEPT !.pc = "commit", !.pend = DeleteTree(db, f)])
                /\ Uncache(SrcsOf(db, ActiveIn(db, UndeletedTree(db, f))))
                /\ UNCHANGED tasks
           ELSE End(a) /\ UNCHANGED <<cachedId, seen>>
    /\ UNCHANGED <<disk, db, next, budget>>

-----------------------------------------------------------------------------
(* move_file *)

\* The record is loaded; the target folder must be on disk, and gets its record.
MoveFileStart(a, i, p) ==
    /\ i \in DOMAIN db.images
    /\ p # db.images[i].src /\ ParentOf(p) \in dirs
    /\ Go(a, [act[a] EXCEPT !.op = "movefile", !.pc = "folderhave", !.id = i,
              !.rec = db.images[i], !.to = p, !.path = ParentOf(p)])

\* Mutant: the target is not looked at.
MoveFileNoCheck(a) ==
    /\ act[a].pc = "mv_check"
    /\ \/ /\ act[a].rec.src \in DOMAIN files
          /\ Go(a, [act[a] EXCEPT !.pc = "mv_disk", !.saw = act[a].to \in DOMAIN files,
                    !.pend = @ \cup PurgeImages(ImagesAt(View(a), act[a].to))])
          /\ Uncache(SrcsOf(View(a), ImagesAt(View(a), act[a].to)))
          /\ UNCHANGED tasks
       \/ /\ act[a].rec.src \notin DOMAIN files
          /\ End(a) /\ UNCHANGED <<cachedId, seen>>
    /\ UNCHANGED <<disk, db, next, budget>>

\* The source is there and the target is not; an old record of the target is purged.
MoveFileCheck(a) ==
    /\ act[a].pc = "mv_check"
    /\ \/ /\ act[a].rec.src \in DOMAIN files /\ act[a].to \notin DOMAIN files
          /\ Go(a, [act[a] EXCEPT !.pc = "mv_disk", !.saw = act[a].to \in DOMAIN files,
                    !.pend = @ \cup PurgeImages(ImagesAt(View(a), act[a].to))])
          /\ Uncache(SrcsOf(View(a), ImagesAt(View(a), act[a].to)))
          /\ UNCHANGED tasks
       \/ /\ act[a].rec.src \notin DOMAIN files \/ act[a].to \in DOMAIN files
          /\ End(a) /\ UNCHANGED <<cachedId, seen>>
    /\ UNCHANGED <<disk, db, next, budget>>

\* A file that is replaced is lost.  Nobody meant it when the target was free at
\* the last look.
Moved(from, to) ==
    [p \in (DOMAIN files \ {from}) \cup {to} |-> IF p = to THEN files[from] ELSE files[p]]
Replaces(to, saw) ==
    IF to \notin DOMAIN files THEN seen
    ELSE IF saw THEN [seen EXCEPT !.removed = @ \cup {files[to]}]
    ELSE [seen EXCEPT !.raced = @ \cup {files[to]}]

\* shutil.move: a rename, which replaces a file that came meanwhile.
MoveFileDisk(a) ==
    /\ act[a].pc = "mv_disk"
    /\ LET from == act[a].rec.src
           to   == act[a].to
       IN  \/ /\ from \in DOMAIN files /\ ParentOf(to) \in dirs
              /\ files' = Moved(from, to)
              /\ seen' = IF act[a].saw THEN seen ELSE Replaces(to, FALSE)
              /\ Goto(a, "mv_record") /\ UNCHANGED <<tasks, budget>>
           \/ /\ ~(from \in DOMAIN files /\ ParentOf(to) \in dirs)
              /\ End(a) /\ UNCHANGED <<files, seen, budget>>
           \/ /\ Fault /\ End(a) /\ UNCHANGED <<files, seen>>
    /\ UNCHANGED <<dirs, db, next, cachedId>>

\* set_image_src deletes the cached ID, ahead of the commit.
MoveFileRecord(a) ==
    /\ act[a].pc = "mv_record"
    /\ LET i == act[a].id
       IN  Go(a, [act[a] EXCEPT !.pc = "mv_commit", !.pend = @ \cup
               {SetImage(i, "src", act[a].to), SetImage(i, "folder", act[a].fid)} \cup
               (IF act[a].rec.status = "active" THEN {} ELSE {SetImage(i, "status", "active")})])
    /\ UncacheLoaded(a)
    /\ UNCHANGED <<disk, db, next, tasks, budget>>

\* add_image_history flushes: what the database refuses there puts the file back.
\* An error of the commit itself comes after success = True, and does not.
MoveFileCommit(a) ==
    /\ act[a].pc = "mv_commit"
    /\ \/ /\ CanCommit(act[a].pend)
          /\ db' = View(a) /\ End(a) /\ UNCHANGED budget
       \/ /\ ~CanCommit(act[a].pend)
          /\ Goto(a, "mv_back") /\ UNCHANGED <<db, tasks, budget>>
       \/ /\ Fault /\ UNCHANGED db
          /\ \/ Goto(a, "mv_back") /\ UNCHANGED tasks
             \/ End(a)
    /\ UNCHANGED <<disk, next, cachedId, seen>>

MoveFileBack(a) ==
    /\ act[a].pc = "mv_back"
    /\ LET from == act[a].rec.src
           to   == act[a].to
       IN  IF to \in DOMAIN files /\ ParentOf(from) \in dirs
           THEN files' = Moved(to, from) /\ seen' = Replaces(from, FALSE)
           ELSE UNCHANGED <<files, seen>>
    /\ End(a)
    /\ UNCHANGED <<dirs, db, next, cachedId, budget>>

-----------------------------------------------------------------------------
(* delete_file, and put_image for an upload *)

\* The API refuses a file that is neither on disk nor active.
DeleteFileStart(a, i) ==
    /\ i \in DOMAIN db.images
    /\ db.images[i].src \in DOMAIN files \/ db.images[i].status = "active"
    /\ Go(a, [act[a] EXCEPT !.op = "delete", !.pc = "rm", !.id = i, !.rec = db.images[i]])

RemoveFiles(P) ==
    /\ files' = [p \in DOMAIN files \ P |-> files[p]]
    /\ seen' = [seen EXCEPT !.removed = @ \cup {files[p] : p \in P \cap DOMAIN files}]

DeleteFileDisk(a) ==
    /\ act[a].pc = "rm"
    /\ RemoveFiles({act[a].rec.src})
    /\ Goto(a, "rm_record")
    /\ UNCHANGED <<dirs, db, next, cachedId, tasks, budget>>

\* Mutant: the cached ID is left.
DeleteFileRecordOnly(a) ==
    /\ act[a].pc = "rm_record"
    /\ ToCommit(a, [act[a] EXCEPT !.pend = IF act[a].rec.status = "active"
                                           THEN {SetImage(act[a].id, "status", "deleted")} ELSE {}])
    /\ UNCHANGED <<disk, db, next, cachedId, budget, seen>>

DeleteFileRecord(a) ==
    /\ act[a].pc = "rm_record"
    /\ LET active == act[a].rec.status = "active"
       IN  /\ ToCommit(a, [act[a] EXCEPT !.pend =
                  IF active THEN {SetImage(act[a].id, "status", "deleted")} ELSE {}])
           /\ IF active THEN UncacheLoaded(a) ELSE UNCHANGED <<cachedId, seen>>
    /\ UNCHANGED <<disk, db, next, budget>>

\* put_image makes the folder and asks whether the file exists.
Above(p) == {q \in FolderPaths : IsPrefix(q, p)}
UploadStart(a, p, overwrite) ==
    /\ overwrite \/ p \notin DOMAIN files
    /\ dirs' = dirs \cup Above(ParentOf(p))
    /\ Go(a, [act[a] EXCEPT !.op = "upload", !.pc = "write", !.path = p, !.saw = overwrite])

\* put_file_data, then reset_image, which visits the file.
UploadWrite(a) ==
    /\ act[a].pc = "write"
    /\ LET p == act[a].path
       IN  \/ /\ ParentOf(p) \in dirs
              /\ \E c \in Contents \ seen.stored :
                     /\ files' = [q \in DOMAIN files \cup {p} |-> IF q = p THEN c ELSE files[q]]
                     /\ seen' = [Replaces(p, act[a].saw) EXCEPT !.stored = @ \cup {c}]
              /\ Goto(a, "look") /\ UNCHANGED tasks
           \/ /\ ParentOf(p) \notin dirs
              /\ End(a) /\ UNCHANGED <<files, seen>>
    /\ UNCHANGED <<dirs, db, next, cachedId, budget>>

-----------------------------------------------------------------------------
(* create_folder, move_folder, delete_folder, purge_deleted_folder_data *)

\* os.makedirs takes no notice of a folder that came meanwhile.
CreateFolderStart(a, p) ==
    /\ p \notin dirs
    /\ dirs' = dirs \cup Above(p)
    /\ Go(a, [act[a] EXCEPT !.op = "create", !.pc = "folderhave", !.path = p])

\* The source folder is there, the target is not and not inside the source; the
\* old records of the target are purged.
MoveFolderStart(a, i, to) ==
    /\ i \in DOMAIN db.folders
    /\ LET from == db.folders[i].path
       IN  /\ from # Root /\ from \in dirs /\ to \notin dirs /\ ~IsPrefix(from, to)
           /\ \A S \in {FolderPaths, FilePaths} : \A p \in S :     \* bound
                  IsPrefix(from, p) => Rebase(p, from, to) \in S
           /\ LET w == IF FoldersAt(db, to) = {} THEN {}
                       ELSE PurgeTree(db, TheFolder(db, to))
              IN  /\ Go(a, [act[a] EXCEPT !.op = "movefolder", !.pc = "mvf_disk", !.fid = i,
                            !.path = from, !.to = to, !.pend = w])
                  /\ Uncache(SrcsOf(db, {u[2] : u \in {u \in w : u[1] = "i"}}))

\* shutil.move: into the target if that is a folder by now.  A path that is not in
\* FolderPaths is one that the disk refuses.
MoveFolderDisk(a) ==
    /\ act[a].pc = "mvf_disk"
    /\ LET from == act[a].path
           to   == IF act[a].to \in dirs THEN Append(act[a].to, from[Len(from)]) ELSE act[a].to
           D    == {d \in dirs : IsPrefix(from, d)}
           P    == {p \in DOMAIN files : IsPrefix(from, p)}
           fits == /\ from \in dirs /\ to \notin dirs /\ ~IsPrefix(from, to)
                   /\ {Rebase(d, from, to) : d \in D} \subseteq FolderPaths
                   /\ {Rebase(p, from, to) : p \in P} \subseteq FilePaths
           Old(p) == IF IsPrefix(to, p) THEN Rebase(p, to, from) ELSE p
       IN  \/ /\ fits
              /\ dirs' = (dirs \ D) \cup {Rebase(d, from, to) : d \in D} \cup Above(ParentOf(to))
              /\ files' = [p \in (DOMAIN files \ P) \cup {Rebase(p, from, to) : p \in P} |->
                              files[Old(p)]]
              /\ Goto(a, "mvf_record") /\ UNCHANGED tasks
           \/ /\ ~fits
              /\ End(a) /\ UNCHANGED disk
    /\ UNCHANGED <<db, next, cachedId, budget, seen>>

\* set_folder_path: the parent is created if need be, which commits; then the
\* paths of the whole tree change, if they all begin as they should.
MoveFolderRecord(a) ==
    /\ act[a].pc = "mvf_record"
    /\ LET from == act[a].path
           to   == act[a].to
           i    == act[a].fid
           v    == View(a)
           F    == WholeTree(v, i)
           I    == ImagesIn(v, F)
           Fits(p, S) == IsPrefix(from, p) /\ Rebase(p, from, to) \in S
           ok   == /\ i \in DOMAIN v.folders
                   /\ \A j \in F \ {i} : Fits(v.folders[j].path, FolderPaths)
                   /\ \A k \in I : Fits(v.images[k].src, FilePaths)
       IN  \/ /\ MissingFolders(v, ParentOf(to)) # {}
              /\ CanCommit(act[a].pend) /\ HaveFolderIds(v, ParentOf(to))
              /\ db' = WithFolders(v, ParentOf(to)) /\ next' = NextFolder(v, ParentOf(to))
              /\ Go(a, [act[a] EXCEPT !.pend = {}])
              /\ UNCHANGED <<cachedId, seen, tasks>>
           \/ /\ MissingFolders(v, ParentOf(to)) = {} /\ ok
              /\ Go(a, [act[a] EXCEPT !.pc = "commit", !.pend = @ \cup
                     {SetFolder(i, "path", to),
                      SetFolder(i, "parent", TheFolder(v, ParentOf(to)))} \cup
                     {SetFolder(j, "path", Rebase(v.folders[j].path, from, to)) : j \in F \ {i}} \cup
                     {SetImage(k, "src", Rebase(v.images[k].src, from, to)) : k \in I}])
              /\ Uncache(SrcsOf(v, I)) /\ UNCHANGED <<db, next, tasks>>
           \/ /\ \/ MissingFolders(v, ParentOf(to)) = {} /\ ~ok
                 \/ MissingFolders(v, ParentOf(to)) # {} /\ ~CanCommit(act[a].pend)
              /\ End(a) /\ UNCHANGED <<db, next, cachedId, seen>>
    /\ UNCHANGED <<disk, budget>>

DeleteFolderStart(a, i) ==
    /\ i \in DOMAIN db.folders /\ db.folders[i].path # Root
    /\ Go(a, [act[a] EXCEPT !.op = "deletefolder", !.pc = "rmf", !.fid = i,
              !.path = db.folders[i].path, !.saw = db.folders[i].status = "active"])

DeleteFolderDisk(a) ==
    /\ act[a].pc = "rmf"
    /\ dirs' = {d \in dirs : ~IsPrefix(act[a].path, d)}
    /\ RemoveFiles({p \in FilePaths : IsPrefix(act[a].path, p)})
    /\ Goto(a, "rmf_record")
    /\ UNCHANGED <<db, next, cachedId, tasks, budget>>

\* The status is the one that was loaded at the start.
DeleteFolderRecord(a) ==
    /\ act[a].pc = "rmf_record"
    /\ LET i == act[a].fid
           go == act[a].saw /\ i \in DOMAIN db.folders
       IN  /\ ToCommit(a, [act[a] EXCEPT !.pend = IF go THEN DeleteTree(db, i) ELSE {}])
           /\ Uncache(IF go THEN SrcsOf(db, ActiveIn(db, UndeletedTree(db, i))) ELSE {})
    /\ UNCHANGED <<disk, db, next, budget>>

PurgeStart(a, i) ==
    /\ i \in DOMAIN db.folders
    /\ Go(a, [act[a] EXCEPT !.op = "purge", !.pc = "commit",
              !.pend = PurgeImages(DeletedImages(db, i)) \cup PurgeFolders(EmptiedFolders(db, i))])
    /\ Uncache(SrcsOf(db, DeletedImages(db, i)))

-----------------------------------------------------------------------------
(* Who does what *)

Free(a) == act[a].pc = "idle"
Counted == budget' = [budget EXCEPT !.ops = @ + 1]

CanVisit == Cardinality({b \in Threads : act[b].op = "sync"}) < MaxVisits

Lookup(a, p) ==
    /\ Counted /\ LookupStart(a, p)
    /\ UNCHANGED <<disk, db, next, cachedId, tasks, seen>>
MoveFile(a, i, p) ==
    /\ Counted /\ MoveFileStart(a, i, p)
    /\ UNCHANGED <<disk, db, next, cachedId, tasks, seen>>
DeleteFile(a, i) ==
    /\ Counted /\ DeleteFileStart(a, i)
    /\ UNCHANGED <<disk, db, next, cachedId, tasks, seen>>
Upload(a, p, overwrite) ==
    /\ Counted /\ Contents \ seen.stored # {}
    /\ UploadStart(a, p, overwrite)
    /\ UNCHANGED <<files, db, next, cachedId, tasks, seen>>
CreateFolder(a, p) ==
    /\ Counted /\ CreateFolderStart(a, p)
    /\ UNCHANGED <<files, db, next, cachedId, tasks, seen>>
MoveFolder(a, i, to) ==
    /\ Counted /\ MoveFolderStart(a, i, to)
    /\ UNCHANGED <<disk, db, next, tasks>>
DeleteFolder(a, i) ==
    /\ Counted /\ DeleteFolderStart(a, i)
    /\ UNCHANGED <<disk, db, next, cachedId, tasks, seen>>
Purge(a, i) ==
    /\ Counted /\ PurgeStart(a, i)
    /\ UNCHANGED <<disk, db, next, tasks>>
DeleteData(a, f) ==
    /\ Free(a) /\ CanMeet(a) /\ DataStart(a, f)
    /\ UNCHANGED <<disk, db, next, cachedId, budget, seen>>

\* A visit of a path: a page, a folder listing or a permission check asks for it.
Visit(a, p) ==
    /\ Free(a) /\ CanVisit /\ CanMeet(a) /\ Go(a, Sync(a, p))
    /\ UNCHANGED <<disk, db, next, cachedId, tasks, budget, seen>>

Start(a) ==
    /\ Free(a) /\ (InBudget \/ InTurn(a))
    /\ \/ \E p \in FilePaths : Lookup(a, p)
       \/ \E i \in 1..MaxImages, p \in FilePaths : MoveFile(a, i, p)
       \/ \E i \in 1..MaxImages : DeleteFile(a, i)
       \/ \E p \in FilePaths, o \in BOOLEAN : Upload(a, p, o)
       \/ \E p \in FolderPaths : CreateFolder(a, p)
       \/ \E i \in 1..MaxFolders, p \in FolderPaths : MoveFolder(a, i, p)
       \/ \E i \in 1..MaxFolders : DeleteFolder(a, i)
       \/ \E i \in 1..MaxFolders : Purge(a, i)

Step(a) ==
    \/ SyncFileLook(a) \/ SyncFileGone(a) \/ SyncFileHave(a)
    \/ CreateFolders(a) \/ InsertImage(a) \/ PutId(a)
    \/ FolderLook(a) \/ FolderGone(a) \/ FolderHave(a)
    \/ Commit(a) \/ DataDelete(a)
    \/ MoveFileCheck(a) \/ MoveFileDisk(a) \/ MoveFileRecord(a)
    \/ MoveFileCommit(a) \/ MoveFileBack(a)
    \/ DeleteFileDisk(a) \/ DeleteFileRecord(a) \/ UploadWrite(a)
    \/ MoveFolderDisk(a) \/ MoveFolderRecord(a)
    \/ DeleteFolderDisk(a) \/ DeleteFolderRecord(a)

\* Other programs on the same disk.
OutsideAdds(p) ==
    /\ ParentOf(p) \in dirs /\ p \notin DOMAIN files
    /\ \E c \in Contents \ seen.stored :
           /\ files' = [q \in DOMAIN files \cup {p} |-> IF q = p THEN c ELSE files[q]]
           /\ seen' = [seen EXCEPT !.stored = @ \cup {c}]
    /\ UNCHANGED dirs
OutsideRemoves(p) ==
    /\ p \in DOMAIN files /\ RemoveFiles({p}) /\ UNCHANGED dirs
OutsideRemovesFolder(p) ==
    /\ p \in dirs \ {Root}
    /\ dirs' = {d \in dirs : ~IsPrefix(p, d)}
    /\ RemoveFiles({q \in FilePaths : IsPrefix(p, q)})
OutsideMakesFolder(p) ==
    /\ p \notin dirs /\ ParentOf(p) \in dirs
    /\ dirs' = dirs \cup {p} /\ UNCHANGED <<files, seen>>
Outside ==
    /\ InBudget /\ budget' = [budget EXCEPT !.outside = @ + 1]
    /\ \/ \E p \in FilePaths : OutsideAdds(p) \/ OutsideRemoves(p)
       \/ \E p \in FolderPaths : OutsideRemovesFolder(p) \/ OutsideMakesFolder(p)
    /\ UNCHANGED <<db, next, cachedId, tasks, act>>

Refuse == \E f \in tasks : DataRefused(f)
              /\ UNCHANGED <<disk, db, next, cachedId, budget, seen>>

\* A new or moved record with a parent that is marked as deleted.
IsPut(rows, up, i) == i \notin DOMAIN rows \/ rows'[i][up] # rows[i][up]
Hides(rows, up) == \E i \in DOMAIN rows' :
    /\ IsPut(rows, up, i) /\ rows'[i].status = "active"
    /\ rows'[i][up] \in DOMAIN db'.folders /\ db'.folders[rows'[i][up]].status = "deleted"

Watch ==
    /\ overlap' = (overlap \/ \E a, b \in Threads : a # b /\ act'[a].pc # "idle"
                                                         /\ act'[b].pc # "idle")
    /\ hidden' = (hidden \/ Hides(db.images, "folder") \/ Hides(db.folders, "parent"))
Next ==
    /\ \/ \E a \in Threads, p \in (FolderPaths \cup FilePaths) \ {Root} :
              /\ Visit(a, p)
              /\ round' = IF Alone(a) /\ round < Len(Walk) /\ Walk[round + 1] = p
                         THEN round + 1 ELSE 0
       \/ \E a \in Threads :
              /\ Step(a)
              /\ round' = IF Alone(a) /\ act[a].op = "sync" /\ budget' = budget THEN round ELSE 0
       \/ \E a \in Threads : Start(a) /\ round' = 0
       \/ \E a \in Threads, f \in tasks : DeleteData(a, f) /\ round' = 0
       \/ Refuse /\ UNCHANGED round
       \/ Outside /\ round' = 0
    /\ Watch

Spec == Init /\ [][Next]_vars

-----------------------------------------------------------------------------
(* Properties *)

Quiet == \A a \in Threads : act[a].pc = "idle"

\* A file that was stored is on disk, unless someone removed or replaced it on
\* purpose, or it came to a target path after an operation had found the path free
\* (the check and the rename of move_file, the check and the write of an upload).
NoFileIsLost ==
    seen.stored \subseteq {files[p] : p \in DOMAIN files} \cup seen.removed \cup seen.raced

\* The ID cached for a path is the one of its active record, unless a lookup stored
\* it after another operation had changed the record or deleted the key
\* (delete_image and set_image_src delete the key before they commit), or the
\* operation had loaded the record before its path was changed.
CachedIdIsRight ==
    \A p \in FilePaths : cachedId[p] # NoId /\ p \notin seen.late => IsRight(p, cachedId[p])

InStep(D, P, d) ==
    /\ \A i \in DOMAIN d.images : d.images[i].status = "active" <=> d.images[i].src \in P
    /\ \A i \in DOMAIN d.folders : d.folders[i].status = "active" => d.folders[i].path \in D

\* No active record is in a folder that is marked as deleted.
Nested(d) ==
    /\ \A i \in DOMAIN d.images : d.images[i].status = "active" =>
           d.folders[d.images[i].folder].status = "active"
    /\ \A i \in DOMAIN d.folders : d.folders[i].status = "active" /\ d.folders[i].parent # NoId =>
           d.folders[d.folders[i].parent].status = "active"

\* The records agree with the disk at first.
StartsInStep == \A s \in Starts :
    InStep(s.dirs, DOMAIN s.files, s.db) /\ WellFiled(s.db) /\ Nested(s.db)

\* Operations one at a time, on a disk that no one else changes, leave no record that
\* says a missing file or folder is there, or that an existing file is deleted, and
\* none outside the folder of its path; also when the database refuses their changes
\* for what is in it.  Unless a record was put in a folder that is marked as deleted, as
\* a new folder or image is when the folder has come back (get_or_create_folder leaves
\* existing records alone): delete_folder does not look into a folder that is marked.
OperationsKeepInStep ==
    (Quiet /\ ~overlap /\ ~hidden /\ budget.outside = 0 /\ budget.faults = 0) =>
        InStep(dirs, DOMAIN files, db) /\ WellFiled(db)

\* The records say of every path what the disk says.
Agree ==
    /\ \A p \in FilePaths :
           p \in DOMAIN files <=> \E i \in ImagesAt(db, p) : db.images[i].status = "active"
    /\ \A p \in FolderPaths :
           p \in dirs <=> \E i \in FoldersAt(db, p) : db.folders[i].status = "active"

\* Whatever operations, other programs and faults have done, the records agree with
\* the disk once every path has been visited with nothing else going on.  Unless there
\* is a record outside the folder of its path, as a move of the folder may leave it
\* that overtakes the insertion of an image: what is deleted there is not undeleted
\* as long as the wrong folder is not on disk.
ARoundHeals == (round = Len(Walk) /\ Quiet /\ WellFiled(db)) => Agree
=============================================================================
