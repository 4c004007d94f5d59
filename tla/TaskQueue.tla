----------------------------- MODULE TaskQueue -----------------------------
(***************************************************************************)
(* The background task queue: the tasks table of the database, the web    *)
(* processes that post, cancel and wait for tasks (task_manager.py), and  *)
(* the task server process (auxiliary/task_server.py) with its process ID *)
(* file, its recovery of interrupted tasks, its dispatching loop and its  *)
(* worker threads.                                                        *)
(*                                                                         *)
(* The server's port is a kernel mutex, so at most one process is inside  *)
(* _run_server between bind and close: its locals are the variables pc,   *)
(* me, last, todo, batch and stop.  Threads of an earlier process can     *)
(* outlive its main function only if ThreadsOutliveMain (CPython joins    *)
(* the threads of a child process at exit from version 3.7 on, and kills  *)
(* them before that; the project supports "Python 3").                    *)
(***************************************************************************)
EXTENDS Naturals, FiniteSets

CONSTANTS Keys,        \* (function name, parameters) combinations
          Priority,    \* Keys -> Nat, Task.priority: a smaller number runs first
          KeptKeys,    \* the keys posted with keep_secs > 0
          WaitedKeys,  \* the keys posted by the folder API, which waits for the task
          Pids,        \* process IDs the OS hands out; it may reuse one
          NoPid,       \* a NULL lock_id, an empty or missing process ID file
          NumThreads,  \* TASK_SERVER_THREADS
          FaultPoints, \* where in _run_server a kill, SIGTERM or DBError may strike
          DbMayFail,   \* whether database operations may raise a DBError
          ThreadsOutliveMain,
          MaxTasks, MaxKills, MaxStops   \* bounds

MainPoints == {"off", "boot", "naming", "settling", "listing", "recovering",
               "serving", "dispatching", "resting", "draining"}

ASSUME ConstantsAssumption ==
    /\ Keys # {} /\ KeptKeys \subseteq Keys /\ WaitedKeys \subseteq Keys
    /\ Priority \in [Keys -> Nat]
    /\ NoPid \notin Pids
    /\ NumThreads \in Nat \ {0}
    /\ FaultPoints \subseteq MainPoints \ {"off"}
    /\ DbMayFail \in BOOLEAN /\ ThreadsOutliveMain \in BOOLEAN
    /\ MaxTasks \in Nat /\ MaxKills \in Nat /\ MaxStops \in Nat

VARIABLES
    rows,     \* the tasks table; the key of a deleted row is remembered
    nextId,   \* the table's autoincrement
    pidFile,  \* content of .metadata/<host>.tasks.pid
    pc, me, last, todo, batch, stop,   \* the running _run_server
    threads,  \* worker threads: [pid, id, at]
    waits,    \* the caller waiting on each task (FolderAPI._task_response)
    kills, stops,             \* kills and failures, and clean stops, so far
    starts, ended, cancelled, \* history: runs begun, ids run to the end, ids cancelled
    adrift    \* history: active tasks that a fault left without a thread and out of
              \* the running server's reach

mainVars == <<pc, me, last, todo, batch, stop>>
history  == <<starts, ended, cancelled, adrift>>
faults   == <<kills, stops>>
vars == <<rows, nextId, pidFile, mainVars, threads, waits, faults, history>>

Ids    == 1..MaxTasks
Row    == [key : Keys, status : {"absent", "pending", "active", "complete"},
           lock : Pids \cup {NoPid}, keep : {"null", "future", "past"}]   \* keep: keep_until
Thread == [pid : Pids, id : Ids, at : {"ready", "running", "ended"}]
\* None is "none" when the row was missing, "unknown" when the poll failed.
Waits  == {"idle", "waiting", "done", "none", "unknown", "timeout", "closed"}

TypeOK ==
    /\ rows \in [Ids -> Row] /\ nextId \in 1..(MaxTasks + 1)
    /\ pidFile \in Pids \cup {NoPid}
    /\ pc \in MainPoints /\ me \in Pids \cup {NoPid} /\ last \in Pids \cup {NoPid}
    /\ pc # "off" => me # NoPid
    /\ todo \subseteq Ids /\ batch \subseteq Ids /\ stop \in BOOLEAN
    /\ threads \subseteq Thread
    /\ waits \in [Ids -> Waits]
    /\ kills \in 0..MaxKills /\ stops \in 0..MaxStops
    /\ starts \in [Ids -> Nat] /\ ended \subseteq Ids /\ cancelled \subseteq Ids
    /\ adrift \subseteq Ids

Unlocked(k, s) == [key |-> k, status |-> s, lock |-> NoPid, keep |-> "null"]

Init ==
    /\ \E k \in Keys : rows = [i \in Ids |-> Unlocked(k, "absent")]
    /\ nextId = 1 /\ pidFile = NoPid
    /\ pc = "off" /\ me = NoPid /\ last = NoPid
    /\ todo = {} /\ batch = {} /\ stop = FALSE
    /\ threads = {} /\ waits = [i \in Ids |-> "idle"]
    /\ kills = 0 /\ stops = 0
    /\ starts = [i \in Ids |-> 0] /\ ended = {} /\ cancelled = {} /\ adrift = {}

-----------------------------------------------------------------------------
(* The tasks table *)

WithStatus(s) == {i \in Ids : rows[i].status = s}

\* Mutant: the unique index covers the waiting tasks only.
KeyTakenByPending(k) == \E i \in Ids : rows[i].status = "pending" /\ rows[i].key = k

\* The unique index idx_tk_function covers every row, whatever its status.
KeyTaken(k) == \E i \in Ids : rows[i].status # "absent" /\ rows[i].key = k

\* order_by(Task.priority, Task.id)
Before(i, j) ==
    LET p == Priority[rows[i].key]  q == Priority[rows[j].key]
    IN  p < q \/ (p = q /\ i < j)

\* S is the result of get_pending_tasks(limit), as a set.
IsPendingTasks(S, limit) ==
    LET Pending == {i \in WithStatus("pending") : rows[i].lock = NoPid}
    IN  /\ S \subseteq Pending
        /\ Cardinality(S) <= limit
        /\ Cardinality(S) = limit \/ S = Pending
        /\ \A i \in S, j \in Pending \ S : Before(i, j)

\* session.merge() of a detached task updates its row, or inserts the row again
\* when it is gone, unless another row has taken the key (IntegrityError).
CanMerge(i) == rows[i].status # "absent" \/ ~KeyTaken(rows[i].key)

Delete(S) ==
    rows' = [i \in Ids |-> IF i \in S THEN Unlocked(rows[i].key, "absent") ELSE rows[i]]

\* Mutant: the status test is forgotten.
DeleteAnyExpired == Delete({i \in Ids : rows[i].keep # "future"})

\* delete_completed_tasks: keep_until NULL or in the past
DeleteCompleted == Delete({i \in WithStatus("complete") : rows[i].keep # "future"})

\* Time passes the keep_until of a completed task.
KeepExpires(i) ==
    /\ rows[i].keep = "future"
    /\ rows' = [rows EXCEPT ![i] =
           [key |-> @.key, status |-> @.status, lock |-> @.lock, keep |-> "past"]]
    /\ UNCHANGED <<nextId, pidFile, mainVars, threads, waits, faults, history>>

-----------------------------------------------------------------------------
(* Web processes: task_manager.py *)

\* add_task; a duplicate key rolls back and returns None, changing nothing.
AddTask(k) ==
    /\ nextId <= MaxTasks
    /\ ~KeyTaken(k)
    /\ rows' = [rows EXCEPT ![nextId] = Unlocked(k, "pending")]
    /\ nextId' = nextId + 1
    /\ UNCHANGED <<pidFile, mainVars, threads, waits, faults, history>>

\* cancel_task: one DELETE ... WHERE status is pending AND lock_id IS NULL
CancelTask(i) ==
    /\ rows[i].status = "pending" /\ rows[i].lock = NoPid
    /\ Delete({i})
    /\ cancelled' = cancelled \cup {i}
    /\ UNCHANGED <<nextId, pidFile, mainVars, threads, waits, faults, starts, ended, adrift>>

\* The folder API calls wait_for_task with the ID that add_task returned.
BeginWait(i) ==
    /\ i < nextId /\ rows[i].key \in WaitedKeys /\ waits[i] = "idle"
    /\ waits' = [waits EXCEPT ![i] = "waiting"]
    /\ UNCHANGED <<rows, nextId, pidFile, mainVars, threads, faults, history>>

\* One read of the task's status: complete ends the wait, a missing row (or a
\* DBError, which the bare except swallows) gives None, otherwise the caller
\* sleeps for another second or runs out of time.
PollWait(i) ==
    /\ waits[i] = "waiting"
    /\ \/ /\ rows[i].status = "complete"
          /\ waits' = [waits EXCEPT ![i] = "done"]
       \/ /\ rows[i].status = "absent"
          /\ waits' = [waits EXCEPT ![i] = "none"]
       \/ /\ DbMayFail
          /\ waits' = [waits EXCEPT ![i] = "unknown"]
       \/ /\ rows[i].status \in {"pending", "active"}
          /\ waits' = [waits EXCEPT ![i] = "timeout"]
    /\ UNCHANGED <<rows, nextId, pidFile, mainVars, threads, faults, history>>

\* The caller that saw the task complete deletes its record, so that the same
\* call can be made again at once, and ignores any error.
DeleteWaited(i) ==
    /\ waits[i] = "done"
    /\ Delete({i}) \/ (DbMayFail /\ UNCHANGED rows)
    /\ waits' = [waits EXCEPT ![i] = "closed"]
    /\ UNCHANGED <<nextId, pidFile, mainVars, threads, faults, history>>

-----------------------------------------------------------------------------
(* The task server's main function: auxiliary/task_server.py _run_server *)

LivePids == {t.pid : t \in threads} \cup (IF pc = "off" THEN {} ELSE {me})

\* A new process binds the port; if the port is taken the process just exits.
StartServer(p) ==
    /\ pc = "off" /\ p \notin LivePids
    /\ pc' = "boot" /\ me' = p /\ stop' = FALSE
    /\ UNCHANGED <<rows, nextId, pidFile, last, todo, batch, threads, waits, faults, history>>

\* Mutant: store_pid before get_pid.
TruncateThenRead ==
    /\ pc = "boot"
    /\ last' = NoPid /\ pidFile' = NoPid /\ pc' = "naming"
    /\ UNCHANGED <<rows, nextId, me, todo, batch, stop, threads, waits, faults, history>>

\* get_pid, then store_pid's open(..., 'wt'), which empties the file.
OpenPidFile ==
    /\ pc = "boot"
    /\ last' = pidFile /\ pidFile' = NoPid /\ pc' = "naming"
    /\ UNCHANGED <<rows, nextId, me, todo, batch, stop, threads, waits, faults, history>>

\* The new process ID reaches the file; then the SIGTERM hook is installed.
WritePidFile ==
    /\ pc = "naming"
    /\ pidFile' = me /\ pc' = "settling"
    /\ UNCHANGED <<rows, nextId, me, last, todo, batch, stop, threads, waits, faults, history>>

\* After IDLE_WAIT: recovery starts with a clean-up, if it is to run at all.  A
\* SIGTERM during the wait makes the server skip it.
Settled ==
    /\ pc = "settling"
    /\ IF ~stop /\ last # NoPid
       THEN DeleteCompleted /\ pc' = "listing"
       ELSE UNCHANGED rows /\ pc' = "serving"
    /\ adrift' = IF stop THEN adrift \cup WithStatus("active") ELSE adrift
    /\ UNCHANGED <<nextId, pidFile, me, last, todo, batch, stop, threads, waits, faults,
                   starts, ended, cancelled>>

\* The tasks that the previous process left active.
ListInterrupted ==
    /\ pc = "listing"
    /\ todo' = {i \in WithStatus("active") : rows[i].lock = last}
    /\ pc' = "recovering"
    /\ UNCHANGED <<rows, nextId, pidFile, me, last, batch, stop, threads, waits, faults, history>>

\* Resets one of them by merging the copy that was read (in ID order).
ResetTask(i) ==
    /\ pc = "recovering" /\ i \in todo /\ \A j \in todo : i <= j
    /\ CanMerge(i)
    /\ rows' = [rows EXCEPT ![i] = Unlocked(@.key, "pending")]
    /\ todo' = todo \ {i} /\ adrift' = adrift \ {i}
    /\ UNCHANGED <<nextId, pidFile, pc, me, last, batch, stop, threads, waits, faults,
                   starts, ended, cancelled>>

Recovered ==
    /\ pc = "recovering" /\ todo = {}
    /\ pc' = "serving"
    /\ UNCHANGED <<rows, nextId, pidFile, me, last, todo, batch, stop, threads, waits, faults, history>>

\* Top of the dispatching loop: reap dead threads, fetch up to the free capacity.
FetchPending ==
    LET capacity == NumThreads - Cardinality({t \in threads : t.pid = me})
    IN  /\ pc = "serving" /\ ~stop
        /\ IF capacity > 0
           THEN \E S \in SUBSET Ids :
                   IsPendingTasks(S, capacity) /\ batch' = S /\ pc' = "dispatching"
           ELSE pc' = "resting" /\ UNCHANGED batch
        /\ UNCHANGED <<rows, nextId, pidFile, me, last, todo, stop, threads, waits, faults, history>>

\* Mutant: the task is locked from the copy that was fetched, with a merge.
LockFetched(i) == i \in batch

\* lock_task: one UPDATE ... WHERE status is pending AND lock_id IS NULL
Lockable(i) == rows[i].status = "pending" /\ rows[i].lock = NoPid

\* Locks the next fetched task and starts a thread for it, or skips it when it
\* can no longer be locked.
DispatchTask(i) ==
    /\ pc = "dispatching" /\ ~stop
    /\ i \in batch /\ \A j \in batch \ {i} : Before(i, j)
    /\ batch' = batch \ {i}
    /\ IF Lockable(i)
       THEN /\ rows' = [rows EXCEPT ![i] =
                   [key |-> @.key, status |-> "active", lock |-> me, keep |-> @.keep]]
            /\ threads' = threads \cup {[pid |-> me, id |-> i, at |-> "ready"]}
       ELSE UNCHANGED <<rows, threads>>
    /\ UNCHANGED <<nextId, pidFile, pc, me, last, todo, stop, waits, faults, history>>

BatchDone ==
    /\ pc = "dispatching" /\ (batch = {} \/ stop)
    /\ batch' = {} /\ pc' = "resting"
    /\ UNCHANGED <<rows, nextId, pidFile, me, last, todo, stop, threads, waits, faults, history>>

\* Sleep; every CLEANUP_EVERY seconds also drop the completed tasks.
CleanUp ==
    /\ pc = "resting" /\ ~stop
    /\ DeleteCompleted
    /\ pc' = "serving"
    /\ UNCHANGED <<nextId, pidFile, me, last, todo, batch, stop, threads, waits, faults, history>>

Rest ==
    /\ pc = "resting"
    /\ pc' = "serving"
    /\ UNCHANGED <<rows, nextId, pidFile, me, last, todo, batch, stop, threads, waits, faults, history>>

\* The loop ends on SIGTERM; main then joins its threads before it lets go of
\* the port.
LeaveLoop ==
    /\ pc = "serving" /\ stop
    /\ pc' = "draining"
    /\ UNCHANGED <<rows, nextId, pidFile, me, last, todo, batch, stop, threads, waits, faults, history>>

\* Mutant: threads are not joined.
ExitAtOnce == TRUE

NoThreadsLeft == \A t \in threads : t.pid # me

ExitServer ==
    /\ pc = "draining" /\ NoThreadsLeft
    /\ pc' = "off"
    /\ UNCHANGED <<rows, nextId, pidFile, me, last, todo, batch, stop, threads, waits, faults, history>>

-----------------------------------------------------------------------------
(* Worker threads: run_task *)

Advance(t, at) == threads' = (threads \ {t}) \cup {[t EXCEPT !.at = at]}

BeginTask(t) ==
    /\ t.at = "ready"
    /\ Advance(t, "running")
    /\ starts' = [starts EXCEPT ![t.id] = @ + 1]
    /\ UNCHANGED <<rows, nextId, pidFile, mainVars, waits, faults, ended, cancelled, adrift>>

\* The function returned or raised; either way there is a result to store.
EndTask(t) ==
    /\ t.at = "running"
    /\ Advance(t, "ended")
    /\ ended' = ended \cup {t.id}
    /\ UNCHANGED <<rows, nextId, pidFile, mainVars, waits, faults, starts, cancelled, adrift>>

\* complete_task; when it fails (as it also does if the result cannot be
\* pickled) the error is logged and the thread ends all the same.
CompleteTask(t) ==
    /\ t.at = "ended"
    /\ threads' = threads \ {t}
    /\ \/ /\ CanMerge(t.id)
          /\ rows' = [rows EXCEPT ![t.id] =
                 [key |-> @.key, status |-> "complete", lock |-> NoPid,
                  keep |-> IF @.key \in KeptKeys THEN "future" ELSE @.keep]]
          /\ UNCHANGED <<kills, adrift>>
       \/ ~CanMerge(t.id) /\ UNCHANGED <<rows, kills, adrift>>
       \/ /\ DbMayFail /\ kills < MaxKills
          /\ kills' = kills + 1 /\ adrift' = adrift \cup {t.id} /\ UNCHANGED rows
    /\ UNCHANGED <<nextId, pidFile, mainVars, waits, stops, starts, ended, cancelled>>

-----------------------------------------------------------------------------
(* Faults *)

\* From here on the process ID file no longer names the previous process.
Recovering == {"naming", "settling", "listing", "recovering"}

\* The main function is gone and the port is free again.  If it had not finished
\* recovering, the next one will not find what is still active.
MainEnds == /\ pc' = "off" /\ todo' = {} /\ batch' = {}
            /\ adrift' = IF pc \in Recovering THEN adrift \cup WithStatus("active") ELSE adrift
            /\ UNCHANGED <<me, last, stop, starts, ended, cancelled>>

\* SIGKILL, power loss, or SIGTERM before the hook is installed.
Kill ==
    /\ pc \in FaultPoints /\ kills < MaxKills
    /\ kills' = kills + 1
    /\ threads' = {t \in threads : t.pid # me}
    /\ MainEnds
    /\ UNCHANGED <<rows, nextId, pidFile, waits, stops>>

\* SIGTERM once the hook is installed.
Terminate ==
    /\ pc \in FaultPoints \ {"boot", "naming"} /\ ~stop /\ stops < MaxStops
    /\ stop' = TRUE /\ stops' = stops + 1
    /\ UNCHANGED <<rows, nextId, pidFile, pc, me, last, todo, batch, threads, waits, kills, history>>

\* An exception in the main function closes the port and exits, without waiting
\* for the threads.  A re-insert refused by the unique index is one such.
MainFails ==
    /\ \/ DbMayFail /\ pc \in FaultPoints \ {"draining"}
       \/ pc = "recovering" /\ \E i \in todo : ~CanMerge(i)
    /\ kills < MaxKills
    /\ kills' = kills + 1
    /\ threads' = IF ThreadsOutliveMain THEN threads ELSE {t \in threads : t.pid # me}
    /\ MainEnds
    /\ UNCHANGED <<rows, nextId, pidFile, waits, stops>>

-----------------------------------------------------------------------------
MainStep ==
    \/ OpenPidFile \/ WritePidFile \/ Settled \/ ListInterrupted \/ Recovered
    \/ \E i \in Ids : ResetTask(i) \/ DispatchTask(i)
    \/ FetchPending \/ BatchDone \/ CleanUp \/ Rest \/ LeaveLoop \/ ExitServer

ThreadStep == \E t \in threads : BeginTask(t) \/ EndTask(t) \/ CompleteTask(t)

Next ==
    \/ \E k \in Keys : AddTask(k)
    \/ \E i \in Ids : \/ CancelTask(i) \/ BeginWait(i) \/ PollWait(i)
                      \/ DeleteWaited(i) \/ KeepExpires(i)
    \/ \E p \in Pids : StartServer(p)
    \/ MainStep
    \/ ThreadStep
    \/ Kill \/ Terminate \/ MainFails

Spec == Init /\ [][Next]_vars

-----------------------------------------------------------------------------
(* Properties *)

\* The same task, or two tasks with the same function and parameters, never run
\* at the same time: what the unique index, lock_task and the recovery of
\* orphans only are together meant to guarantee.
OneRunnerPerKey ==
    \A t, u \in threads : rows[t.id].key = rows[u.id].key => t = u

\* While a thread works on a task, its row says active and carries the thread's
\* process ID, so that no one can cancel, delete or lock it and the next server
\* can find it.
RunnerOwnsRow ==
    \A t \in threads : rows[t.id].status = "active" /\ rows[t.id].lock = t.pid

Serving == {"serving", "dispatching", "resting", "draining"}

\* Once the server dispatches, no task is left active without a thread working
\* on it: such a task would never complete, and its key could never be posted
\* again.  Excepted are the tasks that were active when a start was cut off, or
\* told to stop, between the opening of the process ID file and the end of the
\* recovery, and a task whose end could not be recorded, until the next start.
ServingOwnsActive ==
    pc \in Serving =>
        \A i \in WithStatus("active") \ adrift : \E t \in threads : t.id = i

\* A task is run again only because an earlier run was killed, or its end could
\* not be recorded: a clean SIGTERM stop, a lost race or a restart never repeats a
\* task's side effects.
RerunNeedsKill == \A i \in Ids : starts[i] <= 1 + kills

\* A task whose cancellation was reported as successful does not come back: it is
\* not run from then on, even if the server had already fetched it, and its row is
\* not inserted again by a late merge.
CancelledStaysGone ==
    \A i \in cancelled : rows[i].status = "absent" /\ \A t \in threads : t.id # i

\* What a waiter is told is true: a returned task was run to its end, and None
\* means that it was cancelled, or was run and its record removed - unless it is
\* the None of a poll that failed, which says nothing.
WaiterToldTruth ==
    \A i \in Ids : /\ waits[i] \in {"done", "closed"} => i \in ended
                   /\ waits[i] = "none" => i \in ended \cup cancelled

\* A completed task stays completed until its record goes: no restart or late
\* merge puts it back in the queue.
CompletedIsFinal ==
    [][\A i \in Ids : rows[i].status = "complete" => rows'[i].status \in {"complete", "absent"}]_rows

\* The promise made to callers (module TaskLifecycle).
Stage(i) ==
    CASE rows[i].status = "pending"  -> "queued"
      [] rows[i].status = "active"   ->
            IF \E t \in threads : t.id = i THEN "running" ELSE "interrupted"
      [] rows[i].status = "complete" -> "done"
      [] rows[i].status = "absent"   -> IF i < nextId THEN "gone" ELSE "unborn"

Lifecycle == INSTANCE TaskLifecycle WITH life <- [i \in Ids |-> Stage(i)],
                                         key  <- [i \in Ids |-> rows[i].key]

\* Every step of the queue is a step of the task lifecycle, or invisible to it.
ImplementsLifecycle == Lifecycle!LSpec

-----------------------------------------------------------------------------
(* Liveness.  The server is started again after it stops (every web worker  *)
(* tries to at start-up, task_manager.run_server), its loop keeps turning,  *)
(* task functions return, and time passes.  Clients owe nothing.            *)

Fairness ==
    /\ WF_vars(\E p \in Pids : StartServer(p))
    /\ WF_vars(MainStep) /\ SF_vars(CleanUp)
    /\ WF_vars(ThreadStep)
    /\ \A i \in Ids : WF_vars(KeepExpires(i))

FairSpec == Spec /\ Fairness

\* A posted task is eventually run to its end (or cancelled while it waits),
\* through kills, failures and restarts - unless one of these cut off a start that
\* had the task to recover.
PostedIsFinished ==
    \A i \in Ids : rows[i].status = "pending"
                       ~> rows[i].status = "absent" \/ i \in ended \cup adrift
=============================================================================
