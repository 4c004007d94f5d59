-------------------------- MODULE PortfolioExport --------------------------
(***************************************************************************)
(* Publishing a portfolio: the API call that records an export and posts   *)
(* the task that makes it, the task that writes the zip file, the calls    *)
(* and the hourly task that delete an export, the deletion of the whole    *)
(* portfolio, the edits that make a zip file out of date, the purge of an  *)
(* image's record, which takes it out of the portfolio, and as much of the *)
(* task server as these touch (TaskQueue has the rest of it).              *)
(*                                                                         *)
(* There is one portfolio.  An export is known by its ID, and so is its    *)
(* task, since a task is posted once for each export.  Each database       *)
(* transaction and each operation on the file system is one step.  The     *)
(* database enforces the foreign keys of the tables (PostgreSQL does).     *)
(***************************************************************************)
EXTENDS Naturals, FiniteSets

CONSTANTS
    Exports,        \* IDs of exports
    Editors,        \* requests that change the images of the portfolio
    Deleters,       \* requests and expiry tasks that delete an export
    MaxEvents       \* bound: edits, purges, deletions, errors and kills

ASSUME BoundAssumption == MaxEvents \in Nat

VARIABLES
    folio,          \* "live", "clearing" once its row is gone, then "gone"
    edition,        \* number of changes of its images in the database
    empty,          \* whether the portfolio has no images
    edits,          \* [Editors -> edit in progress]
    row,            \* "none", "present" or "gone": the export's record
    named,          \* exports whose record has the ID of the task
    zipOf,          \* filename in the record: number of a try, 0 if blank
    outdated,       \* FolioExport.is_outdated
    api,            \* progress of the API call that publishes
    task,           \* status of the row in the tasks table
    run,            \* what the task function is about to do
    copied,         \* version that the task loaded
    tries,          \* zip files moved into place
    zips,           \* files in the portfolio's directory
    dir,            \* whether that directory exists
    server,         \* "up", "killed" or "failed"
    dels,           \* [Deleters -> deletion in progress]
    raced,          \* history: exports created while an edit was in flight
    purged,         \* history: exports made from an image purged since
    broken,         \* history: exports with a run that moved its zip, unsaved
    strayed,        \* history: exports whose task ended while or before named
    unseen,         \* history: exports deleted by one who missed the filename
    events          \* history: what happened, to bound it

portfolio == <<folio, edition, empty, edits>>
record == <<row, named, zipOf, outdated>>
work == <<task, run, copied, tries>>
files == <<zips, dir>>
history == <<raced, purged, broken, strayed, unseen>>
exportVars == <<portfolio, record, api, work, files, server, dels, history, events>>

Idle == [at |-> "idle"]
Edit == [at : {"stamped"}, older : SUBSET Exports, empties : BOOLEAN]
Zip == [of : Exports, try : Nat, has : Nat]     \* has: the version it was made from
Deletion == [at : {"loaded", "files"}, of : Exports, named : BOOLEAN, zip : Nat]

ExportsTypeOK ==
    /\ folio \in {"live", "clearing", "gone"}
    /\ edition \in Nat /\ empty \in BOOLEAN
    /\ edits \in [Editors -> Edit \cup {Idle}]
    /\ row \in [Exports -> {"none", "present", "gone"}]
    /\ named \subseteq Exports /\ outdated \subseteq Exports
    /\ zipOf \in [Exports -> Nat]
    /\ api \in [Exports -> {"none", "recorded", "posted", "done", "error"}]
    /\ task \in [Exports -> {"absent", "pending", "active", "complete", "expired"}]
    /\ run \in [Exports -> {"none", "start", "load", "images", "move", "save", "end"}]
    /\ copied \in [Exports -> Nat] /\ tries \in [Exports -> Nat]
    /\ zips \subseteq Zip /\ dir \in BOOLEAN
    /\ server \in {"up", "killed", "failed"}
    /\ dels \in [Deleters -> Deletion \cup {Idle}]
    /\ raced \subseteq Exports /\ purged \subseteq Exports /\ broken \subseteq Exports
    /\ strayed \subseteq Exports /\ unseen \subseteq Exports
    /\ events \in 0..MaxEvents

All(x) == [e \in Exports |-> x]

ExportsInit ==
    /\ folio = "live" /\ edition = 0 /\ empty = FALSE
    /\ edits = [c \in Editors |-> Idle]
    /\ row = All("none") /\ named = {} /\ zipOf = All(0) /\ outdated = {}
    /\ api = All("none") /\ task = All("absent") /\ run = All("none")
    /\ copied = All(0) /\ tries = All(0)
    /\ zips = {} /\ dir = FALSE /\ server = "up"
    /\ dels = [d \in Deleters |-> Idle]
    /\ raced = {} /\ purged = {} /\ broken = {} /\ strayed = {} /\ unseen = {}
    /\ events = 0

Present == {e \in Exports : row[e] = "present"}
Recorded == {e \in Exports : row[e] # "none"}

\* One more of the bounded events.
Event == events < MaxEvents /\ events' = events + 1

\* The foreign key of folioexports.task_id: a task that a record names
\* cannot be deleted.
Referenced(e) == e \in Present /\ e \in named

-----------------------------------------------------------------------------
(* PortfolioContentAPI: an edit stamps the portfolio as updated, and saves   *)
(* the stamp with the change of the images in one commit.                    *)

StampEdit(c) ==
    /\ folio = "live" /\ edits[c] = Idle
    /\ \E b \in BOOLEAN :
           edits' = [edits EXCEPT ![c] = [at |-> "stamped", older |-> Recorded, empties |-> b]]
    /\ Event
    /\ UNCHANGED <<folio, edition, empty, record, api, work, files, server, dels, history>>

\* Mutant: only an export that has its zip file is flagged.
FlagFinished(older) == {e \in older : zipOf[e] # 0}

\* The exports that is_outdated() holds for: those created before the stamp.
Flag(older) == older

\* The portfolio's row and the images are gone if the portfolio is deleted.
CommitEdit(c) ==
    /\ edits[c] # Idle
    /\ edits' = [edits EXCEPT ![c] = Idle]
    /\ IF folio = "live"
       THEN /\ edition' = edition + 1 /\ empty' = edits[c].empties
            /\ outdated' = Flag(edits[c].older)
       ELSE UNCHANGED <<edition, empty, outdated>>
    /\ UNCHANGED <<folio, row, named, zipOf, api, work, files, server, dels, history, events>>

\* The exports that have loaded the portfolio as it was until now.
Loaded ==
    {e \in Exports : run[e] \in {"images", "move", "save"} \/ \E z \in zips : z.of = e}

\* DataManager.delete_image with purge=True, for the move of a file or folder
\* to where a deleted one was, and for the purge of a deleted folder: the
\* image's rows in portfolios go with it, and the portfolio is not stamped.
\* An edit of that very image that is in flight finds no row, and fails.
PurgeImage ==
    /\ folio = "live" /\ ~empty /\ Event
    /\ edition' = edition + 1 /\ empty' \in BOOLEAN
    /\ \E ofImage \in SUBSET Editors :
           edits' = [c \in Editors |-> IF c \in ofImage THEN Idle ELSE edits[c]]
    /\ purged' = purged \cup Loaded
    /\ UNCHANGED <<folio, record, api, work, files, server, dels, raced, broken, strayed, unseen>>

-----------------------------------------------------------------------------
(* PortfolioExportAPI.post: record, task, and the task's ID in the record    *)

RecordExport(e) ==
    /\ folio = "live" /\ ~empty /\ row[e] = "none"
    /\ row' = [row EXCEPT ![e] = "present"]
    /\ api' = [api EXCEPT ![e] = "recorded"]
    /\ raced' = IF \A c \in Editors : edits[c] = Idle THEN raced ELSE raced \cup {e}
    /\ UNCHANGED <<portfolio, named, zipOf, outdated, work, files, server, dels,
                   purged, broken, strayed, unseen, events>>

\* add_task returns None after an error: the call fails, the record stays.
PostTask(e) ==
    /\ api[e] = "recorded"
    /\ \/ /\ task' = [task EXCEPT ![e] = "pending"]
          /\ api' = [api EXCEPT ![e] = "posted"]
          /\ UNCHANGED events
       \/ /\ Event
          /\ api' = [api EXCEPT ![e] = "error"]
          /\ UNCHANGED task
    /\ UNCHANGED <<portfolio, record, run, copied, tries, files, server, dels, history>>

\* The task has done with the record.
Over(e) == zipOf[e] # 0 \/ task[e] \in {"complete", "expired"}

\* An UPDATE of a row that is gone is an error, as is the ID of no task.
NameTask(e) ==
    /\ api[e] = "posted"
    /\ \/ /\ e \in Present /\ task[e] # "absent"
          /\ named' = named \cup {e}
          /\ api' = [api EXCEPT ![e] = "done"]
          /\ strayed' = IF Over(e) THEN strayed \cup {e} ELSE strayed
          /\ UNCHANGED events
       \/ /\ e \notin Present \/ task[e] = "absent"
          /\ api' = [api EXCEPT ![e] = "error"]
          /\ UNCHANGED <<named, strayed, events>>
       \/ /\ Event
          /\ api' = [api EXCEPT ![e] = "error"]
          /\ UNCHANGED <<named, strayed>>
    /\ UNCHANGED <<portfolio, row, zipOf, outdated, work, files, server, dels,
                   raced, purged, broken, unseen>>

-----------------------------------------------------------------------------
(* The task server                                                           *)

StartTask(e) ==
    /\ server = "up" /\ task[e] = "pending"
    /\ task' = [task EXCEPT ![e] = "active"]
    /\ run' = [run EXCEPT ![e] = "start"]
    /\ UNCHANGED <<portfolio, record, api, copied, tries, files, server, dels, history, events>>

EndTask(e) ==
    /\ run[e] = "end"
    /\ run' = [run EXCEPT ![e] = "none"]
    /\ task' = [task EXCEPT ![e] = "complete"]
    /\ UNCHANGED <<portfolio, record, api, copied, tries, files, server, dels, history, events>>

KeepExpires(e) ==
    /\ task[e] = "complete"
    /\ task' = [task EXCEPT ![e] = "expired"]
    /\ UNCHANGED <<portfolio, record, api, run, copied, tries, files, server, dels, history, events>>

Expired == {e \in Exports : task[e] = "expired"}

\* delete_completed_tasks is one DELETE: a task that a record names makes all
\* of it fail, and nothing on the way out of _run_server catches the error.
DeleteCompleted(after) ==
    IF \E e \in Expired : Referenced(e)
    THEN server' = "failed" /\ UNCHANGED task
    ELSE server' = "up" /\ task' = [e \in Exports |-> IF e \in Expired THEN "absent" ELSE after[e]]

CleanUp ==
    /\ server = "up" /\ Expired # {}
    /\ DeleteCompleted(task)
    /\ UNCHANGED <<portfolio, record, api, run, copied, tries, files, dels, history, events>>

\* Mutant: the interrupted tasks are not recognised.
NotRequeued == task

\* The tasks of the process before go back into the queue.
Requeued == [e \in Exports |-> IF task[e] = "active" THEN "pending" ELSE task[e]]

\* Only a process that is gone is replaced.  The new one first cleans up,
\* then puts the tasks that were interrupted back into the queue.
RestartServer ==
    /\ server # "up" /\ \A e \in Exports : run[e] = "none"
    /\ DeleteCompleted(Requeued)
    /\ UNCHANGED <<portfolio, record, api, run, copied, tries, files, dels, history, events>>

KillServer ==
    /\ server = "up" /\ Event
    /\ server' = "killed"
    /\ run' = All("none")
    /\ broken' = broken \cup {e \in Exports : run[e] = "save"}
    /\ UNCHANGED <<portfolio, record, api, task, copied, tries, files, dels,
                   raced, purged, strayed, unseen>>

-----------------------------------------------------------------------------
(* tasks.export_portfolio                                                    *)

RunGoes(e, at) == run' = [run EXCEPT ![e] = at]

\* The function ends without setting task_id to None.
Stray(e) == RunGoes(e, "end") /\ strayed' = strayed \cup {e}

\* The record is missing (an error), or has its zip file already.
RunStart(e) ==
    /\ run[e] = "start"
    /\ RunGoes(e, IF e \in Present /\ zipOf[e] = 0 THEN "load" ELSE "end")
    /\ UNCHANGED <<portfolio, record, api, task, copied, tries, files, server, dels, history, events>>

\* The portfolio is missing (an error) or empty; otherwise its list of images
\* is what the zip file will have.
RunLoad(e) ==
    /\ run[e] = "load"
    /\ IF folio = "live" /\ ~empty
       THEN RunGoes(e, "images") /\ copied' = [copied EXCEPT ![e] = edition] /\ UNCHANGED strayed
       ELSE Stray(e) /\ UNCHANGED copied
    /\ UNCHANGED <<portfolio, record, api, task, tries, files, server, dels,
                   raced, purged, broken, unseen, events>>

\* One image that cannot be made fails the task: ignore_errors is False.  The
\* last thing before the move is to make sure of the directory.
RunImages(e) ==
    /\ run[e] = "images"
    /\ \/ RunGoes(e, "move") /\ dir' = TRUE /\ UNCHANGED <<strayed, events>>
       \/ Stray(e) /\ Event /\ UNCHANGED dir
    /\ UNCHANGED <<portfolio, record, api, task, copied, tries, zips, server, dels,
                   raced, purged, broken, unseen>>

\* Each try has a new random filename.  The directory may have been removed.
RunMove(e) ==
    /\ run[e] = "move"
    /\ IF dir
       THEN /\ tries' = [tries EXCEPT ![e] = @ + 1]
            /\ zips' = zips \cup {[of |-> e, try |-> tries[e] + 1, has |-> copied[e]]}
            /\ RunGoes(e, "save")
            /\ UNCHANGED strayed
       ELSE Stray(e) /\ UNCHANGED <<tries, zips>>
    /\ UNCHANGED <<portfolio, record, api, task, copied, dir, server, dels,
                   raced, purged, broken, unseen, events>>

\* Mutant: the task ID is left in the record.
KeepName(e) == named

\* folio_export.task_id = None
Unname(e) == named \ {e}

\* save_object merges the record that was loaded at the start: a record that
\* has been deleted is inserted again, unless the portfolio is gone too, or
\* the deletion came between the SELECT and the UPDATE of the merge.
RunSave(e) ==
    /\ run[e] = "save"
    /\ \/ /\ RunGoes(e, "end")
          /\ e \in Present \/ folio = "live"
          /\ row' = [row EXCEPT ![e] = "present"]
          /\ zipOf' = [zipOf EXCEPT ![e] = tries[e]]
          /\ named' = Unname(e)
          /\ UNCHANGED <<broken, strayed, events>>
       \/ /\ e \notin Present
          /\ Stray(e)
          /\ broken' = broken \cup {e}
          /\ UNCHANGED <<row, zipOf, named, events>>
       \/ /\ Event
          /\ Stray(e)
          /\ broken' = broken \cup {e}
          /\ UNCHANGED <<row, zipOf, named>>
    /\ UNCHANGED <<portfolio, outdated, api, task, copied, tries, files, server, dels,
                   raced, purged, unseen>>

-----------------------------------------------------------------------------
(* portfolios.util.delete_portfolio_export, for the API and for the expiry   *)

\* The expiry task loads all the expired exports, then deletes one by one.
LoadExport(d, e) ==
    /\ dels[d] = Idle /\ e \in Present
    /\ dels' = [dels EXCEPT ![d] =
           [at |-> "loaded", of |-> e, named |-> e \in named, zip |-> zipOf[e]]]
    /\ Event
    /\ UNCHANGED <<portfolio, record, api, work, files, server, history>>

\* cancel_task deletes the row of a task that is still pending.
Cancelled(e) == task[e] = "pending" /\ ~Referenced(e)

\* The task is running, or waits and cannot be cancelled.
Busy(d) ==
    LET e == dels[d].of IN
    /\ dels[d].named
    /\ task[e] = "active" \/ (task[e] = "pending" /\ ~Cancelled(e))

Refuse(d) ==
    /\ dels[d].at = "loaded" /\ Busy(d)
    /\ dels' = [dels EXCEPT ![d] = Idle]
    /\ UNCHANGED <<portfolio, record, api, work, files, server, history, events>>

\* The record and the history entry are one commit, which fails without the
\* portfolio.  To delete a record that is gone already is only a warning.
DeleteRecord(d) ==
    LET e == dels[d].of IN
    /\ dels[d].at = "loaded" /\ ~Busy(d)
    /\ task' = IF dels[d].named /\ Cancelled(e) THEN [task EXCEPT ![e] = "absent"] ELSE task
    /\ IF folio = "live"
       THEN /\ row' = [row EXCEPT ![e] = "gone"]
            /\ named' = named \ {e}
            /\ dels' = [dels EXCEPT ![d].at = "files"]
            /\ unseen' = IF dels[d].zip = 0 /\ zipOf[e] # 0 THEN unseen \cup {e} ELSE unseen
       ELSE /\ dels' = [dels EXCEPT ![d] = Idle]
            /\ UNCHANGED <<row, named, unseen>>
    /\ UNCHANGED <<portfolio, zipOf, outdated, api, run, copied, tries, files, server,
                   raced, purged, broken, strayed, events>>

ZipOf(e, n) == {z \in zips : z.of = e /\ z.try = n}

\* Mutants: the directory is removed with everything in it, or nothing is.
RemoveAll(d) == {}
RemoveNothing(d) == zips

\* What is left when the file that the deletion knows of is removed.
Remaining(d) == zips \ ZipOf(dels[d].of, dels[d].zip)

\* The directory goes with its last file.
DeleteFiles(d) ==
    /\ dels[d].at = "files"
    /\ dels' = [dels EXCEPT ![d] = Idle]
    /\ zips' = Remaining(d)
    /\ dir' = (dir /\ zips' # {})
    /\ UNCHANGED <<portfolio, record, api, work, server, history, events>>

-----------------------------------------------------------------------------
(* PortfolioAPI.delete                                                       *)

\* The deletion cascades to the exports, whether or not their tasks run.
DeleteFolio ==
    /\ folio = "live" /\ Event
    /\ folio' = "clearing"
    /\ row' = [e \in Exports |-> IF e \in Present THEN "gone" ELSE row[e]]
    /\ named' = {}
    /\ UNCHANGED <<edition, empty, edits, zipOf, outdated, api, work, files, server, dels, history>>

DeleteFolioFiles ==
    /\ folio = "clearing"
    /\ folio' = "gone"
    /\ zips' = {} /\ dir' = FALSE
    /\ UNCHANGED <<edition, empty, edits, record, api, work, server, dels, history, events>>

-----------------------------------------------------------------------------

PostStep(e) == RecordExport(e) \/ PostTask(e) \/ NameTask(e)
TaskStep(e) == StartTask(e) \/ EndTask(e) \/ KeepExpires(e)
RunStep(e) == RunStart(e) \/ RunLoad(e) \/ RunImages(e) \/ RunMove(e) \/ RunSave(e)
ServerStep == CleanUp \/ RestartServer \/ KillServer
EditStep(c) == StampEdit(c) \/ CommitEdit(c)
DeleteStep(d) == (\E e \in Exports : LoadExport(d, e)) \/ Refuse(d) \/ DeleteRecord(d) \/ DeleteFiles(d)
FolioStep == DeleteFolio \/ DeleteFolioFiles \/ PurgeImage

ExportsNext ==
    \/ \E e \in Exports : PostStep(e) \/ TaskStep(e) \/ RunStep(e)
    \/ \E c \in Editors : EditStep(c)
    \/ \E d \in Deleters : DeleteStep(d)
    \/ ServerStep \/ FolioStep

\* A request and a task go on until they end, and the task server runs what
\* is in its queue; nothing says that an edit or a deletion is ever made, that
\* a server which has gone is started again, or that time passes.
Fairness ==
    /\ \A e \in Exports :
           /\ WF_exportVars(PostTask(e) \/ NameTask(e))
           /\ WF_exportVars(StartTask(e))
           /\ WF_exportVars(RunStep(e) \/ EndTask(e))

ExportsSpec == ExportsInit /\ [][ExportsNext]_exportVars /\ Fairness

-----------------------------------------------------------------------------
(* Properties                                                                *)

\* A record that has a filename has its zip file, which portfolio_download
\* relies on ("the physical file should always exist when the data+filename
\* exists"), whatever is deleted, interrupted or failing at the same time.
VisibleZipExists ==
    \A e \in Present : zipOf[e] # 0 => ZipOf(e, zipOf[e]) # {}

\* A zip file that is_outdated() does not flag has the images of the portfolio
\* as they are, unless an edit was in flight when the export was created, or
\* an image was purged after the export had loaded the list of images.
UnflaggedZipIsCurrent ==
    \A z \in zips :
        (z.of \in Present /\ z.try = zipOf[z.of] /\ z.of \notin outdated \cup raced \cup purged
         /\ folio = "live") => z.has = edition

\* A zip file that no record names is about to be named or removed, unless a
\* run was cut off between the move and the save, or the deletion loaded the
\* record before the task gave it a filename: nothing else removes it later.
EveryZipIsAccountedFor ==
    \A z \in zips :
        \/ z.of \in Present /\ z.try = zipOf[z.of]
        \/ run[z.of] = "save" /\ z.try = tries[z.of]
        \/ \E d \in Deleters : dels[d].at = "files" /\ dels[d].of = z.of /\ dels[d].zip = z.try
        \/ folio = "clearing"
        \/ z.of \in broken \cup unseen

\* The task server is stopped by its own clean-up only if the run of an export
\* ended without its zip file being saved, or ended before its record named it.
CleanUpFailsForStraysOnly == server = "failed" => strayed # {}

\* An export that was published gets its zip file, unless it is deleted, its
\* call or its run fails, or the task server is not running.
PublishedSettles ==
    <>[](\A e \in Present :
             zipOf[e] # 0 \/ e \in strayed \/ api[e] = "error" \/ server # "up")
=============================================================================
