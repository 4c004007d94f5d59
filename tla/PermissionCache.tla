-------------------------- MODULE PermissionCache --------------------------
(***************************************************************************)
(* The caches of permissions_manager.py and of session_manager.py.        *)
(*                                                                         *)
(* A change of permissions is committed to the database and then          *)
(* announced by incrementing a version number there.  Each web process    *)
(* keeps a copy of the number, refreshed once a minute, and caches what   *)
(* it calculates: folder permissions of the public in its own memory, and *)
(* of users in memcached, filed under the version the process knew; the   *)
(* public's portfolio permissions in its own memory, under no version.    *)
(* The logged in user object, with its groups, is cached in memcached.    *)
(*                                                                         *)
(* Permission data is abstracted to the number of changes made to it, so   *)
(* that a calculated permission is the numbers it was calculated from.    *)
(* One folder, one portfolio and one user stand for all: nothing relates  *)
(* the cache entries of two of them.                                      *)
(***************************************************************************)
EXTENDS Naturals

CONSTANTS Procs,            \* web worker processes
          Threads,          \* their threads
          Home,             \* Threads -> Procs
          NoThread,
          Ops,              \* what requests do
          DbMayFail,        \* whether a query may raise a DBError
          MaxChanges, MaxFaults   \* bounds: failed queries and restarts are faults

Lookups == {"folder", "user", "folio"}  \* of the public, of the user, of the public
Changes == {"setFolder", "setGroups", "setFolio"}
Data    == {"folder", "groups", "folio"}
Kinds   == {"folder", "folio"}          \* the version numbers

ASSUME PermissionAssumption ==
    /\ Home \in [Threads -> Procs] /\ NoThread \notin Threads
    /\ Ops \subseteq Lookups \cup Changes
    /\ DbMayFail \in BOOLEAN
    /\ MaxChanges \in Nat /\ MaxFaults \in Nat

VARIABLES
    data, version,             \* the database: changes committed, version properties
    known, checked, lock,      \* per process: data version, last check, refresh lock
    pubFolder, pubFolio,       \* per process: the public caches
    session, entry,            \* memcached: the user object, its folder permission
    at, op, kind, ver, user, read,   \* per thread
    told, seen, asof, clashed, faults   \* history: see below

dbVars      == <<data, version, told>>
processVars == <<known, checked, lock, seen, clashed>>
cacheVars   == <<pubFolder, pubFolio, session, entry>>
threadVars  == <<at, op, kind, ver, user, read, asof>>
vars == <<dbVars, processVars, cacheVars, threadVars, faults>>

Steps    == {"idle", "caching", "boot", "booting", "check", "refreshing", "adopting",
             "clearing", "lookup", "reading", "storing", "answered",
             "forgetting", "announce", "announcing", "due"}
Versions == 1..(MaxChanges + 1)
Count    == 0..MaxChanges
\* A cache slot is a set of at most one value.
UserEntry   == [ver : Versions, folder : Count, groups : Count]
PublicEntry == [ver : Versions, folder : Count]

TypeOK ==
    /\ data \in [Data -> Count] /\ version \in [Kinds -> Versions]
    /\ known \in [Procs -> [Kinds -> Versions \cup {0}]]
    /\ checked \in [Procs -> [Kinds -> {"never", "due", "recent"}]]
    /\ lock \in [Procs -> Threads \cup {NoThread}]
    /\ pubFolder \in [Procs -> SUBSET PublicEntry] /\ pubFolio \in [Procs -> SUBSET Count]
    /\ session \subseteq Count /\ entry \subseteq UserEntry
    /\ at \in [Threads -> Steps] /\ op \in [Threads -> Lookups \cup Changes]
    /\ kind \in [Threads -> Kinds] /\ ver \in [Threads -> Versions \cup {0}]
    /\ user \in [Threads -> Count] /\ read \in [Threads -> Count]
    /\ told \in [Data -> [Versions -> Count]]
    /\ seen \in [Procs -> [Kinds -> Versions \cup {0}]]
    /\ asof \in [Threads -> Versions \cup {0}] /\ clashed \subseteq Procs \X Kinds
    /\ faults \in 0..MaxFaults

Init ==
    /\ data = [d \in Data |-> 0] /\ version = [k \in Kinds |-> 1]
    /\ known = [p \in Procs |-> [k \in Kinds |-> 0]] /\ seen = known
    /\ checked = [p \in Procs |-> [k \in Kinds |-> "never"]]
    /\ lock = [p \in Procs |-> NoThread]
    /\ pubFolder = [p \in Procs |-> {}] /\ pubFolio = [p \in Procs |-> {}]
    /\ session = {} /\ entry = {}
    /\ at = [t \in Threads |-> "idle"] /\ op = [t \in Threads |-> "folder"]
    /\ kind = [t \in Threads |-> "folder"] /\ ver = [t \in Threads |-> 0]
    /\ user = [t \in Threads |-> 0] /\ read = [t \in Threads |-> 0]
    /\ told = [d \in Data |-> [v \in Versions |-> 0]]
    /\ asof = [t \in Threads |-> 0] /\ clashed = {}
    /\ faults = 0

Goto(t, step) == at' = [at EXCEPT ![t] = step]

\* The request ends, and its local variables with it.
End(t) ==
    /\ Goto(t, "idle")
    /\ op' = [op EXCEPT ![t] = "folder"] /\ kind' = [kind EXCEPT ![t] = "folder"]
    /\ ver' = [ver EXCEPT ![t] = 0] /\ user' = [user EXCEPT ![t] = 0]
    /\ read' = [read EXCEPT ![t] = 0] /\ asof' = [asof EXCEPT ![t] = 0]

-----------------------------------------------------------------------------
(* A request that looks up a permission *)

\* get_session_user: the user comes from memcached, or from the database to be
\* put into memcached in a further step.
BeginLookup(t, o) ==
    /\ at[t] = "idle" /\ o \in Ops \cap Lookups
    /\ op' = [op EXCEPT ![t] = o] /\ kind' = [kind EXCEPT ![t] = "folder"]
    /\ \/ /\ o # "user" \/ session # {}
          /\ \/ o # "user" /\ UNCHANGED user
             \/ o = "user" /\ \E g \in session : user' = [user EXCEPT ![t] = g]
          /\ Goto(t, "boot")
       \/ /\ o = "user" /\ session = {}
          /\ user' = [user EXCEPT ![t] = data["groups"]]
          /\ Goto(t, "caching")
    /\ UNCHANGED <<dbVars, processVars, cacheVars, ver, read, asof, faults>>

CacheUser(t) ==
    /\ at[t] = "caching"
    /\ session' = {user[t]}
    /\ Goto(t, "boot")
    /\ UNCHANGED <<dbVars, processVars, pubFolder, pubFolio, entry, op, kind, ver, user, read,
                   asof, faults>>

\* _check_data_version goes over the two kinds twice: first to initialise the
\* process, then to look for newer versions.
NextKind(t, step, after) ==
    IF kind[t] = "folder"
    THEN kind' = [kind EXCEPT ![t] = "folio"] /\ Goto(t, step)
    ELSE kind' = [kind EXCEPT ![t] = "folder"] /\ Goto(t, after)

NotStarted(p, k) == known[p][k] = 0 \/ checked[p][k] = "never"

\* Start up: reads the version number.  No lock is held, so that several threads
\* of a new process may be here at once.
Boot(t) ==
    LET p == Home[t] IN
    /\ at[t] = "boot"
    /\ IF NotStarted(p, kind[t])
       THEN /\ ver' = [ver EXCEPT ![t] = version[kind[t]]]
            /\ Goto(t, "booting") /\ UNCHANGED kind
       ELSE NextKind(t, "boot", "check") /\ UNCHANGED ver
    /\ UNCHANGED <<dbVars, processVars, cacheVars, op, user, read, asof, faults>>

\* seen: the newest version that the process has known.
Adopted(p, k, v) ==
    /\ known' = [known EXCEPT ![p][k] = v]
    /\ seen'  = [seen EXCEPT ![p][k] = IF v > @ THEN v ELSE @]

\* clashed: a thread set the version it had read in a process that another thread
\* had started meanwhile, and no refresh has caught up since.
BootSet(t) ==
    LET p == Home[t] IN
    /\ at[t] = "booting"
    /\ Adopted(p, kind[t], ver[t])
    /\ clashed' = IF NotStarted(p, kind[t]) THEN clashed ELSE clashed \cup {<<p, kind[t]>>}
    /\ checked' = [checked EXCEPT ![p][kind[t]] = "recent"]
    /\ NextKind(t, "boot", "check")
    /\ UNCHANGED <<dbVars, lock, cacheVars, op, ver, user, read, asof, faults>>

\* The last check was more than FP_CACHE_SYNC_INTERVAL ago: the thread that gets
\* the lock refreshes the version, the others go on with the one they have.
Check(t) ==
    LET p == Home[t] IN
    /\ at[t] = "check"
    /\ IF checked[p][kind[t]] = "due" /\ lock[p] = NoThread
       THEN lock' = [lock EXCEPT ![p] = t] /\ Goto(t, "refreshing") /\ UNCHANGED kind
       ELSE NextKind(t, "check", "lookup") /\ UNCHANGED lock
    /\ UNCHANGED <<dbVars, known, checked, seen, clashed, cacheVars, op, ver, user, read, asof,
                   faults>>

\* The finally clause of the refresh.
Release(t) ==
    /\ checked' = [checked EXCEPT ![Home[t]][kind[t]] = "recent"]
    /\ lock' = [lock EXCEPT ![Home[t]] = NoThread]

Refresh(t) ==
    /\ at[t] = "refreshing"
    /\ ver' = [ver EXCEPT ![t] = version[kind[t]]]
    /\ IF version[kind[t]] # known[Home[t]][kind[t]]
       THEN Goto(t, "adopting") /\ UNCHANGED <<kind, checked, lock, clashed>>
       ELSE /\ Release(t) /\ NextKind(t, "check", "lookup")
            /\ clashed' = clashed \ {<<Home[t], kind[t]>>}
    /\ UNCHANGED <<dbVars, known, seen, cacheVars, op, user, read, asof, faults>>

Adopt(t) ==
    /\ at[t] = "adopting"
    /\ Adopted(Home[t], kind[t], ver[t])
    /\ clashed' = IF ver[t] >= seen[Home[t]][kind[t]]
                  THEN clashed \ {<<Home[t], kind[t]>>} ELSE clashed
    /\ Goto(t, "clearing")
    /\ UNCHANGED <<dbVars, checked, lock, cacheVars, op, kind, ver, user, read, asof, faults>>

\* The public cache of the kind is cleared after its version is set.
ClearCache(t) ==
    /\ at[t] = "clearing"
    /\ IF kind[t] = "folder"
       THEN pubFolder' = [pubFolder EXCEPT ![Home[t]] = {}] /\ UNCHANGED pubFolio
       ELSE pubFolio' = [pubFolio EXCEPT ![Home[t]] = {}] /\ UNCHANGED pubFolder
    /\ Release(t) /\ NextKind(t, "check", "lookup")
    /\ UNCHANGED <<dbVars, known, seen, clashed, session, entry, op, ver, user, read, asof, faults>>

\* Mutant: the version of an entry is not looked at.
AnyHits(t) ==
    CASE op[t] = "folder" -> {[read |-> e.folder, user |-> user[t]] : e \in pubFolder[Home[t]]}
      [] op[t] = "user"   -> {[read |-> e.folder, user |-> e.groups] : e \in entry}
      [] op[t] = "folio"  -> {[read |-> n, user |-> user[t]] : n \in pubFolio[Home[t]]}
      [] OTHER            -> {}

\* What the caches hold for the thread's lookup: [read, user] of each usable entry.
Hits(t) ==
    LET p == Home[t] IN
    CASE op[t] = "folder" -> {[read |-> e.folder, user |-> user[t]] :
                                 e \in {f \in pubFolder[p] : f.ver = known[p]["folder"]}}
      [] op[t] = "user"   -> {[read |-> e.folder, user |-> e.groups] :
                                 e \in {f \in entry : f.ver = known[p]["folder"]}}
      [] op[t] = "folio"  -> {[read |-> n, user |-> user[t]] : n \in pubFolio[p]}
      [] OTHER            -> {}

OpKind(t) == IF op[t] = "folio" THEN "folio" ELSE "folder"

\* Notes the version first, then tries the cache.  The answer is held against the
\* newest version that the process has known, or against the one it knows if its
\* initialisation clashed.
LookUp(t) ==
    LET p == Home[t]  k == OpKind(t) IN
    /\ at[t] = "lookup"
    /\ ver' = [ver EXCEPT ![t] = known[p]["folder"]]
    /\ asof' = [asof EXCEPT ![t] = IF <<p, k>> \in clashed THEN known[p][k] ELSE seen[p][k]]
    /\ IF Hits(t) = {}
       THEN Goto(t, "reading") /\ UNCHANGED <<read, user>>
       ELSE \E h \in Hits(t) : /\ read' = [read EXCEPT ![t] = h.read]
                               /\ user' = [user EXCEPT ![t] = h.user]
                               /\ Goto(t, "answered")
    /\ UNCHANGED <<dbVars, processVars, cacheVars, op, kind, faults>>

\* Calculates the permission, in several queries of which this is the first; the
\* groups are those of the user object, which has them loaded.
ReadData(t) ==
    /\ at[t] = "reading"
    /\ read' = [read EXCEPT ![t] = data[OpKind(t)]]
    /\ Goto(t, "storing")
    /\ UNCHANGED <<dbVars, processVars, cacheVars, op, kind, ver, user, asof, faults>>

\* Mutant: the entry is filed under the version that is the database's by now.
StoreUnderNewest(t) ==
    LET p == Home[t]  v == version["folder"] IN
    /\ at[t] = "storing"
    /\ CASE op[t] = "folder" ->
              /\ pubFolder' = [pubFolder EXCEPT ![p] = {[ver |-> v, folder |-> read[t]]}]
              /\ UNCHANGED <<pubFolio, entry>>
         [] op[t] = "user" ->
              /\ entry' = {[ver |-> v, folder |-> read[t], groups |-> user[t]]}
              /\ UNCHANGED <<pubFolder, pubFolio>>
         [] op[t] = "folio" ->
              /\ pubFolio' = [pubFolio EXCEPT ![p] = {read[t]}]
              /\ UNCHANGED <<pubFolder, entry>>
    /\ Goto(t, "answered")
    /\ UNCHANGED <<dbVars, processVars, session, op, kind, ver, user, read, asof, faults>>

Store(t) ==
    LET p == Home[t] IN
    /\ at[t] = "storing"
    /\ CASE op[t] = "folder" ->
              /\ pubFolder' = [pubFolder EXCEPT ![p] = {[ver |-> ver[t], folder |-> read[t]]}]
              /\ UNCHANGED <<pubFolio, entry>>
         [] op[t] = "user" ->
              /\ entry' = {[ver |-> ver[t], folder |-> read[t], groups |-> user[t]]}
              /\ UNCHANGED <<pubFolder, pubFolio>>
         [] op[t] = "folio" ->
              /\ pubFolio' = [pubFolio EXCEPT ![p] = {read[t]}]
              /\ UNCHANGED <<pubFolder, entry>>
    /\ Goto(t, "answered")
    /\ UNCHANGED <<dbVars, processVars, session, op, kind, ver, user, read, asof, faults>>

Finish(t) ==
    /\ at[t] = "answered"
    /\ End(t)
    /\ UNCHANGED <<dbVars, processVars, cacheVars, faults>>

-----------------------------------------------------------------------------
(* A request that changes permissions, and announces the change *)

DataOf(o) == CASE o = "setFolder" -> "folder" [] o = "setGroups" -> "groups"
               [] OTHER -> "folio"

\* reset() announces portfolio permissions before folder permissions.
Commit(t, o) ==
    /\ at[t] = "idle" /\ o \in Ops \cap Changes
    /\ data["folder"] + data["groups"] + data["folio"] < MaxChanges
    /\ op' = [op EXCEPT ![t] = o]
    /\ kind' = [kind EXCEPT ![t] = IF o = "setFolder" THEN "folder" ELSE "folio"]
    /\ data' = [data EXCEPT ![DataOf(o)] = @ + 1]
    /\ Goto(t, IF o = "setGroups" THEN "forgetting" ELSE "announce")
    /\ UNCHANGED <<version, told, processVars, cacheVars, ver, user, read, asof, faults>>

\* reset_user_sessions
ForgetUser(t) ==
    /\ at[t] = "forgetting"
    /\ session' = {}
    /\ Goto(t, "announce")
    /\ UNCHANGED <<dbVars, processVars, pubFolder, pubFolio, entry, op, kind, ver, user, read,
                   asof, faults>>

AnnounceLock(t) ==
    /\ at[t] = "announce" /\ lock[Home[t]] = NoThread
    /\ lock' = [lock EXCEPT ![Home[t]] = t]
    /\ Goto(t, "announcing")
    /\ UNCHANGED <<dbVars, known, checked, seen, clashed, cacheVars, op, kind, ver, user, read,
                   asof, faults>>

\* One UPDATE ... SET value = value + 1, then the lock is released.
Announce(t) ==
    LET k == kind[t]  v == version[k] + 1 IN
    /\ at[t] = "announcing"
    /\ version[k] <= MaxChanges   \* a bound; each change announces each version once
    /\ version' = [version EXCEPT ![k] = v]
    /\ told' = [d \in Data |-> IF (d = "folio") = (k = "folio")
                               THEN [told[d] EXCEPT ![v] = data[d]] ELSE told[d]]
    /\ lock' = [lock EXCEPT ![Home[t]] = NoThread]
    /\ Goto(t, "due")
    /\ UNCHANGED <<data, known, checked, seen, clashed, cacheVars, op, kind, ver, user, read,
                   asof, faults>>

\* The process that announced will check at its next lookup.
MarkDue(t) ==
    /\ at[t] = "due"
    /\ checked' = [checked EXCEPT ![Home[t]][kind[t]] = "due"]
    /\ IF op[t] = "setGroups" /\ kind[t] = "folio"
       THEN /\ kind' = [kind EXCEPT ![t] = "folder"] /\ Goto(t, "announce")
            /\ UNCHANGED <<op, ver, user, read, asof>>
       ELSE End(t)
    /\ UNCHANGED <<dbVars, known, lock, seen, clashed, cacheVars, faults>>

-----------------------------------------------------------------------------
(* The environment *)

\* A query fails, and the request with it.  A failed refresh counts as a check; a
\* failed announcement leaves the change committed and nobody told.
DbError(t) ==
    /\ DbMayFail /\ faults < MaxFaults /\ faults' = faults + 1
    /\ \/ at[t] = "boot" /\ NotStarted(Home[t], kind[t]) /\ UNCHANGED <<checked, lock>>
       \/ at[t] = "refreshing" /\ Release(t)
       \/ at[t] = "reading" /\ UNCHANGED <<checked, lock>>
       \/ /\ at[t] = "announcing" /\ UNCHANGED checked
          /\ lock' = [lock EXCEPT ![Home[t]] = NoThread]
    /\ End(t)
    /\ UNCHANGED <<dbVars, known, seen, clashed, cacheVars>>

\* A minute has passed since the last check.
TimePasses(p, k) ==
    /\ checked[p][k] = "recent"
    /\ checked' = [checked EXCEPT ![p][k] = "due"]
    /\ UNCHANGED <<dbVars, known, lock, seen, clashed, cacheVars, threadVars, faults>>

\* Memcached drops what it likes; the timeouts of entries are among its reasons.
Evict ==
    /\ \/ session # {} /\ session' = {} /\ UNCHANGED entry
       \/ entry # {} /\ entry' = {} /\ UNCHANGED session
    /\ UNCHANGED <<dbVars, processVars, pubFolder, pubFolio, threadVars, faults>>

Reset(f, p, v) == [t \in Threads |-> IF Home[t] = p THEN v ELSE f[t]]

\* The web server replaces a worker process, whatever its threads are doing.
Restart(p) ==
    /\ faults < MaxFaults /\ faults' = faults + 1
    /\ known' = [known EXCEPT ![p] = [k \in Kinds |-> 0]]
    /\ seen' = [seen EXCEPT ![p] = [k \in Kinds |-> 0]]
    /\ clashed' = clashed \ ({p} \X Kinds)
    /\ checked' = [checked EXCEPT ![p] = [k \in Kinds |-> "never"]]
    /\ lock' = [lock EXCEPT ![p] = NoThread]
    /\ pubFolder' = [pubFolder EXCEPT ![p] = {}]
    /\ pubFolio' = [pubFolio EXCEPT ![p] = {}]
    /\ at' = Reset(at, p, "idle") /\ op' = Reset(op, p, "folder")
    /\ kind' = Reset(kind, p, "folder") /\ ver' = Reset(ver, p, 0)
    /\ user' = Reset(user, p, 0) /\ read' = Reset(read, p, 0) /\ asof' = Reset(asof, p, 0)
    /\ UNCHANGED <<dbVars, session, entry>>

Request(t) ==
    \/ CacheUser(t) \/ Boot(t) \/ BootSet(t) \/ Check(t) \/ Refresh(t) \/ DbError(t)
    \/ Adopt(t) \/ ClearCache(t) \/ LookUp(t) \/ ReadData(t) \/ Store(t) \/ Finish(t)
    \/ ForgetUser(t) \/ AnnounceLock(t) \/ Announce(t) \/ MarkDue(t)

Next ==
    \/ \E t \in Threads, o \in Ops : BeginLookup(t, o) \/ Commit(t, o)
    \/ \E t \in Threads : Request(t)
    \/ \E p \in Procs, k \in Kinds : TimePasses(p, k)
    \/ Evict
    \/ \E p \in Procs : Restart(p)

Spec == Init /\ [][Next]_vars

-----------------------------------------------------------------------------
(* Properties *)

\* A cached folder permission reflects every change of folder permissions that
\* the version it is filed under announced.
FolderEntriesAreFresh ==
    /\ \A e \in entry : e.folder >= told["folder"][e.ver]
    /\ \A p \in Procs : \A e \in pubFolder[p] : e.folder >= told["folder"][e.ver]

\* Once a process has adopted a version, its answers about folders reflect every
\* change of folder permissions that this version announced, hit or miss, whatever
\* older entries the caches hold.  Of a process that two threads initialised at
\* once, until its next refresh, this says so of the version it was left with.
FolderAnswersAreFresh ==
    \A t \in Threads :
        at[t] = "answered" /\ op[t] \in {"folder", "user"} => read[t] >= told["folder"][asof[t]]

\* A process never goes back to an older version than one it has adopted, except
\* when two threads initialise it at once: one of them, or the refresh that it
\* overtook, may put an older version back, until the next refresh.
VersionsMoveForward ==
    [][\A p \in Procs, k \in Kinds :
           known'[p][k] # 0 /\ <<p, k>> \notin clashed' => known'[p][k] >= known[p][k]]_known

=============================================================================
