---------------------------- MODULE TemplateCache ----------------------------
(***************************************************************************)
(* The image templates of template_manager.py.                            *)
(*                                                                         *)
(* Every process keeps the whole table of templates in memory, with lists *)
(* derived from it.  A version number in the database, incremented after  *)
(* each change, tells the processes that their copies are out of date;    *)
(* they compare it with their own at most once a minute, by whichever     *)
(* request comes first.  The others go on meanwhile, or wait if the copy  *)
(* is being replaced.                                                     *)
(*                                                                         *)
(* One process is modelled, with several threads.  The other processes    *)
(* share nothing with it but the database, and appear as changes to that. *)
(* A template is known by its name in lower case, and its content by the  *)
(* number of the change that has saved it.                                *)
(***************************************************************************)
EXTENDS Naturals

CONSTANTS Names, NoName,
          Absent,           \* in place of the content of a template that does not exist
          NoList,
          Threads, NoThread,
          Ops,              \* the calls made: "template", "default", "list"
          Changes,          \* the changes made: "save", "rename", "delete", "default"
          Started,          \* whether the process begins with its copy loaded
          SlowLoad,         \* whether loading may take more than ten seconds
          MaxChanges,       \* bound on changes
          MaxFaults         \* bound on errors of the database and on kills

ASSUME TemplateAssumption ==
    /\ NoName \notin Names /\ Names # {}
    /\ NoThread \notin Threads
    /\ Absent \notin Nat
    /\ Ops \subseteq {"template", "default", "list"}
    /\ Changes \subseteq {"save", "rename", "delete", "default"}
    /\ Started \in BOOLEAN /\ SlowLoad \in BOOLEAN
    /\ MaxChanges \in Nat /\ MaxFaults \in Nat

VARIABLES
    table, default, version, revision,  \* the database
    unannounced,                        \* a change by another process, not announced yet
    cache, list, dataVersion, defaultName, checked, lock, useable,  \* the process
    at, op, name, rows, todo, got,      \* per thread
    faults

database == <<table, default, version, revision, unannounced>>
process  == <<cache, list, dataVersion, defaultName, checked, lock, useable>>
locals   == <<at, op, name, rows, todo, got>>
vars     == <<database, process, locals, faults>>

Revisions == 0..MaxChanges
Contents  == [Names -> Revisions \cup {Absent}]
Lists     == [rows : Contents, default : Names \cup {NoName}]
Empty     == [n \in Names |-> Absent]
LoadSteps == {"checking", "clearing", "versioning", "configuring", "selecting", "filling"}
Steps     == LoadSteps \cup
    {"idle", "returned", "trying", "waiting", "looking", "naming", "fetching", "storing",
     "deleting", "resetting", "incrementing", "expiring"}

TypeOK ==
    /\ table \in Contents /\ default \in Names \cup {NoName} /\ version \in Nat \ {0}
    /\ revision \in Revisions /\ unannounced \in BOOLEAN
    /\ cache \in Contents /\ list \in Lists \cup {NoList} /\ dataVersion \in 0..version
    /\ defaultName \in Names \cup {NoName} /\ checked \in {"recent", "due"}
    /\ lock \in Threads \cup {NoThread} /\ useable \in BOOLEAN
    /\ at \in [Threads -> Steps] /\ op \in [Threads -> Ops \cup {"change"}]
    /\ name \in [Threads -> Names \cup {NoName}] /\ rows \in [Threads -> Contents]
    /\ todo \in [Threads -> SUBSET Names]
    /\ \A t \in Threads :
          at[t] = "returned" =>
              got[t] \in IF op[t] = "list" THEN Lists ELSE Revisions \cup {Absent}
    /\ faults \in 0..MaxFaults

\* A database that has been set up: its default template exists.
Init ==
    /\ table \in [Names -> {0, Absent}] /\ default \in Names /\ table[default] = 0
    /\ version = 1 /\ revision = 0 /\ unannounced = FALSE
    /\ IF Started
       THEN cache = table /\ defaultName = default /\ dataVersion = 1 /\ checked = "recent"
       ELSE cache = Empty /\ defaultName = NoName /\ dataVersion = 0 /\ checked = "due"
    /\ list = NoList /\ lock = NoThread /\ useable = TRUE
    /\ at = [t \in Threads |-> "idle"] /\ op = [t \in Threads |-> "change"]
    /\ name = [t \in Threads |-> NoName] /\ rows = [t \in Threads |-> Empty]
    /\ todo = [t \in Threads |-> {}] /\ got = [t \in Threads |-> Absent]
    /\ faults = 0

Free(t) == at[t] \in {"idle", "returned"}

Fault == faults < MaxFaults /\ faults' = faults + 1

Goto(t, step) ==
    /\ at' = [at EXCEPT ![t] = step]
    /\ UNCHANGED <<op, name, rows, todo, got>>

\* The thread goes on with the name and the table of templates given.
Locals(t, step, n, contents, left) ==
    /\ at' = [at EXCEPT ![t] = step]
    /\ name' = [name EXCEPT ![t] = n]
    /\ rows' = [rows EXCEPT ![t] = contents]
    /\ todo' = [todo EXCEPT ![t] = left]
    /\ UNCHANGED <<op, got>>

Return(t, answer) ==
    /\ at' = [at EXCEPT ![t] = "returned"]
    /\ name' = [name EXCEPT ![t] = NoName]
    /\ rows' = [rows EXCEPT ![t] = Empty]
    /\ got' = [got EXCEPT ![t] = answer]
    /\ UNCHANGED <<op, todo>>

-----------------------------------------------------------------------------
(* _check_data_version *)

\* What a call does after the check.
Work(o) == CASE o = "template" -> "looking" [] o = "default" -> "naming" [] OTHER -> "fetching"

\* Mutant: no comparison with the database once the templates are loaded.
NeverAgain == dataVersion = 0

NeedsCheck == dataVersion = 0 \/ checked = "due"

Begin(t, o, n) ==
    /\ Free(t) /\ (o = "template" \/ n = NoName)
    /\ at' = [at EXCEPT ![t] = IF NeedsCheck THEN "trying" ELSE Work(o)]
    /\ op' = [op EXCEPT ![t] = o]
    /\ name' = [name EXCEPT ![t] = n]
    /\ got' = [got EXCEPT ![t] = Absent]
    /\ UNCHANGED <<database, process, rows, todo, faults>>

\* The lock is not waited for.
Try(t) ==
    /\ at[t] = "trying"
    /\ IF lock = NoThread THEN lock' = t /\ Goto(t, "checking")
       ELSE Goto(t, "waiting") /\ UNCHANGED lock
    /\ UNCHANGED <<database, cache, list, dataVersion, defaultName, checked, useable, faults>>

\* If the event is set, the call goes on at once, with no version loaded too:
\* wait() returns immediately.
Proceed(t) ==
    /\ at[t] = "waiting" /\ useable
    /\ Goto(t, Work(op[t]))
    /\ UNCHANGED <<database, process, faults>>

WaitTimesOut(t) ==
    /\ at[t] = "waiting" /\ ~useable /\ SlowLoad
    /\ Goto(t, Work(op[t]))
    /\ UNCHANGED <<database, process, faults>>

\* The finally block.
Release(t) ==
    /\ checked' = "recent" /\ lock' = NoThread /\ useable' = TRUE

\* Mutant: the check is repeated until there is a new version.
AwaitVersion(t) ==
    /\ at[t] = "checking"
    /\ IF version = dataVersion THEN UNCHANGED <<checked, lock, useable, locals>>
       ELSE useable' = FALSE /\ Goto(t, "clearing") /\ UNCHANGED <<checked, lock>>
    /\ UNCHANGED <<database, cache, list, dataVersion, defaultName, faults>>

Compare(t) ==
    /\ at[t] = "checking"
    /\ IF version = dataVersion
       THEN Release(t) /\ Goto(t, Work(op[t]))
       ELSE useable' = FALSE /\ Goto(t, "clearing") /\ UNCHANGED <<checked, lock>>
    /\ UNCHANGED <<database, cache, list, dataVersion, defaultName, faults>>

-----------------------------------------------------------------------------
(* _load_data *)

Clear(t) ==
    /\ at[t] = "clearing"
    /\ cache' = Empty /\ list' = NoList
    /\ Goto(t, "versioning")
    /\ UNCHANGED <<database, dataVersion, defaultName, checked, lock, useable, faults>>

ReadVersion(t) ==
    /\ at[t] = "versioning"
    /\ dataVersion' = version
    /\ Goto(t, "configuring")
    /\ UNCHANGED <<database, cache, list, defaultName, checked, lock, useable, faults>>

ReadDefault(t) ==
    /\ at[t] = "configuring"
    /\ defaultName' = default
    /\ Goto(t, "selecting")
    /\ UNCHANGED <<database, cache, list, dataVersion, checked, lock, useable, faults>>

\* Mutant: the version is read after the templates.
SelectAndVersion(t) ==
    /\ at[t] = "selecting"
    /\ Locals(t, "filling", name[t], table, {n \in Names : table[n] # Absent})
    /\ dataVersion' = version
    /\ UNCHANGED <<database, cache, list, defaultName, checked, lock, useable, faults>>

SelectRows(t) ==
    /\ at[t] = "selecting"
    /\ Locals(t, "filling", name[t], table, {n \in Names : table[n] # Absent})
    /\ UNCHANGED <<database, process, faults>>

\* The templates are put into the copy one by one.
Fill(t) ==
    /\ at[t] = "filling"
    /\ \E n \in todo[t] :
         /\ cache' = [cache EXCEPT ![n] = rows[t][n]]
         /\ Locals(t, "filling", name[t], rows[t], todo[t] \ {n})
    /\ UNCHANGED <<database, list, dataVersion, defaultName, checked, lock, useable, faults>>

Loaded(t) ==
    /\ at[t] = "filling" /\ todo[t] = {}
    /\ Release(t)
    /\ Locals(t, Work(op[t]), name[t], Empty, {})
    /\ UNCHANGED <<database, cache, list, dataVersion, defaultName, faults>>

\* A query fails; the error ends the call.
LoadFails(t) ==
    /\ at[t] \in {"checking", "versioning", "configuring", "selecting"} /\ Fault
    /\ Release(t)
    /\ Locals(t, "idle", NoName, Empty, {})
    /\ UNCHANGED <<database, cache, list, dataVersion, defaultName>>

-----------------------------------------------------------------------------
(* get_template, get_default_template, get_template_list *)

ReadDefaultName(t) ==
    /\ at[t] = "naming"
    /\ Locals(t, "looking", defaultName, Empty, {})
    /\ UNCHANGED <<database, process, faults>>

\* A template that is not there is an error to the caller.
LookUp(t) ==
    /\ at[t] = "looking"
    /\ Return(t, IF name[t] \in Names THEN cache[name[t]] ELSE Absent)
    /\ UNCHANGED <<database, process, faults>>

\* The derived list, or what it will be from the templates that are there now.
GetList(t) ==
    /\ at[t] = "fetching"
    /\ IF list # NoList THEN Return(t, list) ELSE Locals(t, "storing", defaultName, cache, {})
    /\ UNCHANGED <<database, process, faults>>

StoreList(t) ==
    /\ at[t] = "storing"
    /\ list' = [rows |-> rows[t], default |-> name[t]]
    /\ Return(t, list')
    /\ UNCHANGED <<database, cache, dataVersion, defaultName, checked, lock, useable, faults>>

-----------------------------------------------------------------------------
(* Changes of the templates, by the administration API *)

\* A change that is not a deletion.  A template that is to be deleted keeps its
\* identity when it is renamed.
Save(n) ==
    /\ "save" \in Changes
    /\ table' = [table EXCEPT ![n] = revision']
    /\ UNCHANGED <<default, name>>

Rename(n, m) ==
    /\ "rename" \in Changes /\ table[n] # Absent /\ table[m] = Absent
    /\ table' = [table EXCEPT ![n] = Absent, ![m] = revision']
    /\ name' = [t \in Threads |-> IF at[t] = "deleting" /\ name[t] = n THEN m ELSE name[t]]
    /\ UNCHANGED default

\* Any value is accepted; NoName stands for one that no template has.
SetDefault(n) ==
    /\ "default" \in Changes
    /\ default' = n
    /\ UNCHANGED <<table, name>>

Change ==
    /\ revision < MaxChanges /\ revision' = revision + 1
    /\ \/ \E n, m \in Names : Save(n) \/ Rename(n, m)
       \/ \E n \in Names \cup {NoName} : SetDefault(n)

ChangeHere(t) ==
    /\ Free(t) /\ Change
    /\ at' = [at EXCEPT ![t] = "resetting"]
    /\ op' = [op EXCEPT ![t] = "change"]
    /\ got' = [got EXCEPT ![t] = Absent]
    /\ UNCHANGED <<version, unannounced, process, rows, todo, faults>>

\* "The system default template cannot be deleted"
MayDelete(n) == n # default

\* The template and the name of the default are looked up, and in another
\* transaction the template is deleted.
BeginDelete(t, n) ==
    /\ "delete" \in Changes /\ Free(t) /\ table[n] # Absent /\ MayDelete(n)
    /\ at' = [at EXCEPT ![t] = "deleting"]
    /\ op' = [op EXCEPT ![t] = "change"]
    /\ name' = [name EXCEPT ![t] = n]
    /\ got' = [got EXCEPT ![t] = Absent]
    /\ UNCHANGED <<database, process, rows, todo, faults>>

\* One that has gone meanwhile is an error, with no reset.
Delete(t) ==
    /\ at[t] = "deleting"
    /\ IF table[name[t]] = Absent
       THEN UNCHANGED table /\ Locals(t, "idle", NoName, Empty, {})
       ELSE table' = [table EXCEPT ![name[t]] = Absent] /\ Locals(t, "resetting", NoName, Empty, {})
    /\ UNCHANGED <<default, version, revision, unannounced, process, faults>>

\* reset: the lock is waited for, the version incremented under it.
LockForReset(t) ==
    /\ at[t] = "resetting" /\ lock = NoThread
    /\ lock' = t /\ Goto(t, "incrementing")
    /\ UNCHANGED <<database, cache, list, dataVersion, defaultName, checked, useable, faults>>

Increment(t) ==
    /\ at[t] = "incrementing"
    /\ version' = version + 1
    /\ lock' = NoThread /\ Goto(t, "expiring")
    /\ UNCHANGED <<table, default, revision, unannounced,
                   cache, list, dataVersion, defaultName, checked, useable, faults>>

IncrementFails(t) ==
    /\ at[t] = "incrementing" /\ Fault
    /\ lock' = NoThread /\ Goto(t, "idle")
    /\ UNCHANGED <<database, cache, list, dataVersion, defaultName, checked, useable>>

Expire(t) ==
    /\ at[t] = "expiring"
    /\ checked' = "due" /\ Goto(t, "idle")
    /\ UNCHANGED <<database, cache, list, dataVersion, defaultName, lock, useable, faults>>

ChangeElsewhere ==
    /\ ~unannounced /\ unannounced' = TRUE
    /\ Change
    /\ UNCHANGED <<version, process, at, op, rows, todo, got, faults>>

AnnounceElsewhere ==
    /\ unannounced /\ unannounced' = FALSE
    /\ version' = version + 1
    /\ UNCHANGED <<table, default, revision, process, locals, faults>>

\* The other process fails to announce its change.
KillElsewhere ==
    /\ unannounced /\ unannounced' = FALSE
    /\ Fault
    /\ UNCHANGED <<table, default, version, revision, process, locals>>

\* The minute since the last check is over.
TimePasses ==
    /\ checked = "recent" /\ checked' = "due"
    /\ UNCHANGED <<database, cache, list, dataVersion, defaultName, lock, useable, locals, faults>>

-----------------------------------------------------------------------------

Asked(t) == \E o \in Ops, n \in Names \cup {NoName} :
               (o = "template") = (n \in Names) /\ Begin(t, o, n)

Step(t) ==
    \/ Try(t) \/ Proceed(t) \/ WaitTimesOut(t) \/ Compare(t)
    \/ Clear(t) \/ ReadVersion(t) \/ ReadDefault(t) \/ SelectRows(t) \/ Fill(t) \/ Loaded(t)
    \/ LoadFails(t) \/ ReadDefaultName(t) \/ LookUp(t) \/ GetList(t) \/ StoreList(t)
    \/ Delete(t) \/ LockForReset(t) \/ Increment(t) \/ IncrementFails(t) \/ Expire(t)

Next ==
    \/ \E t \in Threads :
          Asked(t) \/ Step(t) \/ ChangeHere(t) \/ (\E n \in Names : BeginDelete(t, n))
    \/ ChangeElsewhere \/ AnnounceElsewhere \/ KillElsewhere \/ TimePasses

Spec == Init /\ [][Next]_vars

-----------------------------------------------------------------------------
(* Properties *)

Loading == \E t \in Threads : at[t] \in LoadSteps \ {"checking"}
Pending == unannounced \/ \E t \in Threads : at[t] \in {"resetting", "incrementing"}

\* A process that has the current version has the current templates, as soon as
\* it has loaded them and no change is waiting to be announced: a change that
\* comes between the queries of a load is not missed ("The cache is invalidated
\* and refreshed automatically").  An error of the database in the middle of a
\* load, or before the announcement of a change, voids this: the new version is
\* adopted before the templates are there.
CurrentCopyIsComplete ==
    faults = 0 /\ dataVersion = version /\ ~Loading /\ ~Pending
        => cache = table /\ defaultName = default

-----------------------------------------------------------------------------
(* Liveness.  Threads run, a minute passes, and the process goes on being    *)
(* asked for templates; nobody has to change any.  reset() waits for a lock  *)
(* that is held for some queries once a minute, and gets it.                 *)

Fairness ==
    /\ \A t \in Threads : WF_vars(Step(t)) /\ SF_vars(LockForReset(t))
    /\ WF_vars(\E t \in Threads : Asked(t))
    /\ WF_vars(TimePasses)

FairSpec == Spec /\ Fairness

\* Every change that is announced arrives in the process: reset() says that it is
\* detected "within the SYNC_INTERVAL by all other processes".  The version always
\* does; the templates do unless a query failed or a process ended in between.
EveryChangeArrives ==
    <>[](dataVersion = version /\ (~Pending /\ faults = 0 => cache = table))

\* Every call for templates and every change of them ends.
EveryCallEnds == \A t \in Threads : ~Free(t) ~> Free(t)
=============================================================================
