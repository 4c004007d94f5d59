---------------------------- MODULE AccessRules ----------------------------
(***************************************************************************)
(* How PermissionsManager works out a user's access to a folder: once for  *)
(* is_folder_permitted, and once more, by code of its own, for the trace   *)
(* that is shown to administrators and that checks itself against the      *)
(* first.  A level is calculated record by record, while the records may   *)
(* be changed, and cached; when a cached level ceases to be valid is the   *)
(* subject of PermissionCache, so here it may be forgotten at any time.    *)
(* One question is answered at a time.                                     *)
(*                                                                         *)
(* Only one line of folders matters to a question: position 1 is the       *)
(* folder, position depth the root folder, and the parent of d is d + 1.   *)
(***************************************************************************)
EXTENDS Integers

CONSTANTS Groups,       \* the groups of users
          Public,       \* the group of unknown users
          FileAdmins    \* the groups with admin_files or admin_all

All       == Groups \cup {Public}
AccessAll == 70
Levels    == 0..AccessAll \* the API takes those between the named ones as well
NoRecord  == -1

VARIABLES depth,        \* the number of folders in the line
          perm,         \* the access level in the record of a group and a folder
          known,        \* the folders with a record, that is active above the first
          members,      \* the groups of the user; none for an unknown one
          pc, tracing,  \* what is done, and whether for a trace
          home, at,     \* the folder a search starts from, and where it is
          sought, todo, \* the group searched for, and those still to come
          public,       \* the access of the public group
          level,        \* the calculated access level
          kept,         \* the level in the cache, of the version in use, or none
          traced,       \* the access level of the trace
          changed,      \* whether a record was changed since the question
          aged          \* or since the calculation of the level that is, or will be, cached

data      == <<depth, perm, known, members>>
search    == <<home, at, sought, todo>>
results   == <<public, level, traced>>
rulesVars == <<data, pc, tracing, search, results, kept, changed, aged>>

Line    == 1..depth
Resting == {"idle", "granted", "agreed", "mismatch"}

RulesInit ==
    /\ depth \in Nat \ {0}
    /\ perm \in [All -> [Line -> Levels \cup {NoRecord}]]
    /\ known \in {K \in SUBSET Line : depth \in K} /\ members \in SUBSET All
    /\ pc = "idle" /\ tracing = FALSE /\ kept = NoRecord /\ changed = FALSE /\ aged = FALSE
    /\ home = 1 /\ at = 1 /\ sought = Public /\ todo = {}
    /\ public = 0 /\ level = 0 /\ traced = 0

Greater(a, b) == IF a > b THEN a ELSE b

\* is_permitted('admin_files'): one group with the right is enough.
IsFileAdmin == members \cap FileAdmins # {}

SearchFor(g, from) == sought' = g /\ home' = from /\ at' = from

----------------------------------------------------------------------------
(* get_nearest_folder_permission *)

Searching == pc \in {"tracePublic", "traceGroup", "public", "group"}

\* No record of the group for this folder: its parent is tried.
Up ==
    /\ Searching /\ perm[sought][at] = NoRecord /\ at < depth
    /\ at' = at + 1
    /\ UNCHANGED <<data, pc, tracing, home, sought, todo, results, kept, changed, aged>>

\* The search is over, with the level of a record or with none.
Found(value) ==
    /\ perm[sought][at] # NoRecord \/ at = depth
    /\ value = perm[sought][at]

\* The next of the user's groups, in any order, or what comes after them.
NextGroup(step, after) ==
    \/ /\ todo # {} /\ pc' = step
       /\ \E g \in todo : SearchFor(g, home) /\ todo' = todo \ {g}
    \/ todo = {} /\ pc' = after /\ UNCHANGED search

----------------------------------------------------------------------------
(* is_folder_permitted, calculate_folder_permissions *)

\* What the cache answers with: the level it has, or none when that has expired
\* or is of a version older than the one the process has just adopted.
LookUp(v) == v \in {kept, NoRecord}

\* A cached level is the answer.
FromCache(v, step) ==
    v # NoRecord /\ pc' = step /\ level' = v /\ UNCHANGED <<search, public, kept, aged>>

\* Without one the level is calculated.  A folder without a record is looked for
\* from the root down, if the caller allows for that.
Calculated(v) ==
    /\ v = NoRecord
    /\ level' = 0 /\ public' = 0 /\ todo' = members
    /\ kept' = NoRecord /\ aged' = FALSE
    /\ IF 1 \in known THEN pc' = "public" /\ SearchFor(Public, 1)
       ELSE pc' = "descend" /\ SearchFor(Public, depth)

\* A file administrator is permitted everything.
Ask ==
    /\ pc \in Resting
    /\ tracing' = FALSE /\ changed' = FALSE
    /\ IF IsFileAdmin
       THEN pc' = "granted" /\ level' = AccessAll /\ UNCHANGED <<search, public, kept, aged>>
       ELSE \E v \in Levels \cup {NoRecord} :
              LookUp(v) /\ (FromCache(v, "granted") \/ Calculated(v))
    /\ UNCHANGED <<data, traced>>

\* _get_nearest_parent_folder: down from the root as long as the folders are
\* active; the folder itself is not tried.
Descend ==
    /\ pc = "descend"
    /\ IF at > 2 /\ at - 1 \in known THEN SearchFor(Public, at - 1) /\ UNCHANGED pc
       ELSE pc' = "public" /\ UNCHANGED <<home, at, sought>>
    /\ UNCHANGED <<data, tracing, todo, results, kept, changed, aged>>

CalcPublic ==
    /\ pc = "public"
    /\ \E v \in Levels \cup {NoRecord} : Found(v) /\ public' = Greater(v, 0)
    /\ NextGroup("group", "combine")
    /\ UNCHANGED <<data, tracing, level, traced, kept, changed, aged>>

\* The highest level of all groups, until one gives full access.
CalcGroup ==
    /\ pc = "group"
    /\ \E v \in Levels \cup {NoRecord} : Found(v) /\ level' = Greater(v, level)
    /\ IF level' = AccessAll THEN pc' = "combine" /\ UNCHANGED search
       ELSE NextGroup("group", "combine")
    /\ UNCHANGED <<data, tracing, public, traced, kept, changed, aged>>

\* The trace compares v, or full access for a file administrator, with its own.
Verdict(v) == IF (IF IsFileAdmin THEN AccessAll ELSE v) = traced THEN "agreed" ELSE "mismatch"

\* What the public may, everybody may.  The result is cached.
Combine ==
    /\ pc = "combine"
    /\ level' = Greater(public, level) /\ kept' = level'
    /\ pc' = IF tracing THEN Verdict(level') ELSE "granted"
    /\ UNCHANGED <<data, tracing, search, public, traced, changed, aged>>

----------------------------------------------------------------------------
(* _trace_folder_permissions *)

Trace ==
    /\ pc \in Resting /\ 1 \in known
    /\ tracing' = TRUE /\ changed' = FALSE /\ pc' = "tracePublic"
    /\ traced' = 0 /\ todo' = members /\ SearchFor(Public, 1)
    /\ UNCHANGED <<data, public, level, kept, aged>>

TracePublic ==
    /\ pc = "tracePublic"
    /\ \E v \in Levels \cup {NoRecord} : Found(v) /\ traced' = Greater(v, 0)
    /\ NextGroup("traceGroup", "check")
    /\ UNCHANGED <<data, tracing, public, level, kept, changed, aged>>

\* A group of file administrators gives full access, whatever its records.
TraceGroup ==
    /\ pc = "traceGroup"
    /\ \E v \in Levels \cup {NoRecord} :
         Found(v) /\ traced' = IF sought \in FileAdmins THEN AccessAll ELSE Greater(v, traced)
    /\ NextGroup("traceGroup", "check")
    /\ UNCHANGED <<data, tracing, public, level, kept, changed, aged>>

\* "Verify the result against ourself": the access that the others are given
\* is calculated as well, or is still in the cache.
Check ==
    /\ pc = "check"
    /\ \E v \in Levels \cup {NoRecord} :
         LookUp(v) /\ (FromCache(v, Verdict(v)) \/ Calculated(v))
    /\ UNCHANGED <<data, tracing, traced, changed>>

----------------------------------------------------------------------------
\* An administrator sets, changes or deletes the record of a group.
SetPermission(g, d, v) ==
    /\ perm[g][d] # v
    /\ perm' = [perm EXCEPT ![g] = [@ EXCEPT ![d] = v]]
    /\ changed' = TRUE /\ aged' = TRUE
    /\ UNCHANGED <<depth, known, members, pc, tracing, search, results, kept>>

RulesNext ==
    \/ Ask \/ Up \/ Descend \/ CalcPublic \/ CalcGroup \/ Combine
    \/ Trace \/ TracePublic \/ TraceGroup \/ Check
    \/ \E g \in All, d \in Line, v \in Levels \cup {NoRecord} : SetPermission(g, d, v)

RulesSpec == RulesInit /\ [][RulesNext]_rulesVars

----------------------------------------------------------------------------
RulesTypeOK ==
    /\ depth \in Nat \ {0}
    /\ perm \in [All -> [Line -> Levels \cup {NoRecord}]]
    /\ known \subseteq Line /\ members \subseteq All
    /\ pc \in Resting \cup {"descend", "public", "group", "combine",
                            "tracePublic", "traceGroup", "check"}
    /\ tracing \in BOOLEAN /\ changed \in BOOLEAN /\ aged \in BOOLEAN
    /\ kept \in Levels \cup {NoRecord}
    /\ home \in Line /\ at \in Line /\ sought \in All /\ todo \subseteq members
    /\ public \in Levels /\ level \in Levels /\ traced \in Levels

\* v is the level of group g for the folder at d: that of its nearest record.
Inherits(g, d, v) ==
    /\ v # NoRecord
    /\ \E n \in d..depth : perm[g][n] = v /\ \A m \in d..(n - 1) : perm[g][m] = NoRecord

\* x is the highest level that one of the groups G inherits, or the lowest.
IsHighest(x, G, d) ==
    /\ x = 0 \/ \E g \in G : Inherits(g, d, x)
    /\ \A g \in G, v \in Levels : Inherits(g, d, v) => v <= x

\* What is_folder_permitted goes by is full access for a file administrator,
\* and for others the highest level that the user's groups and the public one
\* inherit, in whatever order they are looked at, although the search stops at
\* full access, and also if it comes from the cache - unless a record was
\* changed since the calculation of that level began.
AccessIsHighest ==
    pc = "granted" =>
        IF IsFileAdmin THEN level = AccessAll
        ELSE ~aged => IsHighest(level, members \cup {Public}, home)

\* A folder that does not exist has the access of the nearest folder above
\* it that does: all folders above that one are active, the next is not.
MissingFoldersInherit ==
    pc \in {"public", "group", "combine"} =>
        IF 1 \in known THEN home = 1
        ELSE /\ home..depth \subseteq known /\ (depth > 1 => home > 1)
             /\ home > 2 => home - 1 \notin known

\* The trace has "duplicated the logic" of the calculation: its check raises
\* "Data integrity error" only if a record was changed in the meantime, or had
\* been since the calculation of a level that was still in the cache.
TraceAgrees == pc = "mismatch" => changed \/ aged
=============================================================================
