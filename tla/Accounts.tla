------------------------------ MODULE Accounts ------------------------------
(***************************************************************************)
(* User accounts, groups and sessions: the administration API that changes *)
(* them, the log in and log out of the web pages and of the API, the       *)
(* user objects that the sessions keep in the memory cache, and the check  *)
(* that takes back a change which locks an administrator out.              *)
(*                                                                         *)
(* The handlers load an object in one transaction, change the detached     *)
(* copy and merge it in another.  A merge writes every attribute that was  *)
(* loaded: a group goes with its permissions, its list of members and the  *)
(* account of each member; and what has been deleted is inserted again.    *)
(* Each transaction, and each use of the cache, is one step.  Of an        *)
(* account the status is kept, and of a group its type, permissions and    *)
(* members.  A permission flag is known by its name in SystemPermissions.  *)
(***************************************************************************)
EXTENDS Naturals, Functions

CONSTANTS
    StartUsers, Admin,          \* accounts at the start; the one with ID 1
    Everyone, Administrators,   \* groups that _init_db creates
    StartGroups,                \* local groups at the start: a set of tables
    StartAdmins, StartWeb,      \* administrators and browser sessions then
    Requests,                   \* requests that are served at a time
    Calls, SignIns,             \* calls of the API and pages, and log-ins
    LdapUsers, ApiUsers,        \* known to the LDAP server; allow_api
    MaxRequests, MaxFaults      \* bounds

ASSUME BoundAssumption == MaxRequests \in Nat /\ MaxFaults \in Nat

Flags == {"admin_users", "admin_permissions", "admin_all"}
Types == {"system", "local", "ldap"}
Edits == [type : Types, perms : SUBSET Flags]   \* what passes the validation

Account == {"active", "deleted"}
Group(users) == [type : Types, perms : SUBSET Flags, users : SUBSET users]

ASSUME CallsAssumption ==
    \A c \in Calls : c.op \in {"createGroup", "putGroup"} => c.edit \in Edits

ASSUME StartAssumption ==
    /\ Admin \in StartAdmins /\ StartAdmins \subseteq StartUsers
    /\ StartWeb \subseteq StartUsers /\ Everyone # Administrators
    /\ \A local \in StartGroups : \A g \in DOMAIN local :
         g \notin {Everyone, Administrators} /\ local[g] \in Group(StartUsers)

VARIABLES
    user,       \* table users: [accounts -> "active" or "deleted"]
    group,      \* tables groups, syspermissions and usergroups
    cached,     \* SESS_USER:<id> in the memory cache: rights of the copy
    web,        \* users with a browser session
    tokens,     \* users with an API token
    req,        \* [Requests -> request in progress]
    requests,   \* history: number of requests that began
    faults,     \* history: number of faults
    raced,      \* history: a change was overwritten, or undone with another
    dropped,    \* history: a group went that gave the administrator rights
    failed,     \* history: a request ended between its change and its check
    late        \* history: users whose cached copy was out of date when
                \* it was stored, or was not removed by a roll back

tables == <<user, group>>
sessions == <<cached, web, tokens>>
bounds == <<requests, faults>>
history == <<raced, dropped, failed, late>>
vars == <<tables, sessions, req, bounds, history>>

Idle == [at |-> "idle"]
Windows == {"reset", "check", "restore"}    \* after the change of a request

----------------------------------------------------------------------------
\* System permissions

Members(g) == group[g].users
RightsIn(groups, u) == UNION {groups[g].perms : g \in {h \in DOMAIN groups : u \in groups[h].users}}
Rights(u) == RightsIn(group, u)
Permitted(rights, flag) == rights \cap {flag, "admin_all"} # {}

HoldsIn(groups) == /\ Permitted(RightsIn(groups, Admin), "admin_users")
                   /\ Permitted(RightsIn(groups, Admin), "admin_permissions")
AdminHolds == HoldsIn(group)

\* Mutant: only the one who makes the change is looked at.
OnlyHimself(by) == by \in DOMAIN user /\ ~Permitted(Rights(by), "admin_users")

LockedOut(by) == \/ by \in DOMAIN user /\ ~Permitted(Rights(by), "admin_users")
                 \/ ~AdminHolds

\* The decorators of the classes let in a user administrator, and anybody
\* who changes his own account.
LetIn(q) == Permitted(q.me, "admin_users")
OwnRecord(c) == c.op = "putUser" /\ c.by = c.user

Grants(g) == g \in DOMAIN group /\ group[g].perms \cap {"admin_permissions", "admin_all"} # {}

\* Mutant: whoever may administer users adds members to any group.
AnyGroup(q) ==
    \/ q.call.op = "page" \/ OwnRecord(q.call)
    \/ /\ LetIn(q)
       /\ q.call.op \in {"createGroup", "deleteGroup"} => Permitted(q.me, "admin_permissions")

Allowed(q) ==
    LET mayPermit == Permitted(q.me, "admin_permissions")
        c == q.call
    IN  \/ c.op = "page" \/ OwnRecord(c)
        \/ /\ LetIn(q)
           /\ c.op \in {"createGroup", "deleteGroup"} => mayPermit
           /\ c.op = "addMember" /\ Grants(c.group) => mayPermit

----------------------------------------------------------------------------
\* What a handler loads, and what a merge does with it

\* The table f with a record y for x, and with all the records of new.
With(f, x, y) == [z \in DOMAIN f \cup {x} |-> IF z = x THEN y ELSE f[z]]
Over(new, f) == [z \in DOMAIN new \cup DOMAIN f |-> IF z \in DOMAIN new THEN new[z] ELSE f[z]]

UserOps == {"putUser", "deleteUser", "addMember", "removeMember"}
GroupOps == {"putGroup", "deleteGroup", "addMember", "removeMember"}

LoadedGroups(c) == IF c.op \in GroupOps THEN DOMAIN group \cap {c.group} ELSE {}
LoadedUsers(c) ==
    {u \in DOMAIN user :
        \/ \E g \in LoadedGroups(c) : u \in Members(g)
        \/ c.op \in UserOps \ {"removeMember"} /\ u = c.user}

Missing(c) == \/ c.op \in GroupOps /\ c.group \notin DOMAIN group
              \/ c.op \in UserOps \ {"removeMember"} /\ c.user \notin DOMAIN user

NothingToDo(c) == \/ c.op = "page"
                  \/ c.op = "deleteUser" /\ c.user = Admin
                  \/ c.op = "addMember" /\ c.user \in Members(c.group)
                  \/ c.op = "removeMember" /\ c.user \notin Members(c.group)

\* The copies differ by now from the database.
OldRows(r) == Restrict(user, DOMAIN req[r].rows) # req[r].rows
OldCopy(r) == OldRows(r) \/ \E g \in DOMAIN req[r].copy :
                                g \notin DOMAIN group \/ group[g] # req[r].copy[g]

Advance(r, at) == [req[r] EXCEPT !.at = at]

\* The change of r is committed: those who are about to check or to undo
\* a change of theirs may now judge by, or undo, this one.
Commit(r, next, users, groups) ==
    /\ user' = users
    /\ group' = groups
    /\ req' = [q \in Requests |->
                 IF q = r THEN next
                 ELSE IF req[q].at \in Windows /\ groups # group
                      THEN [req[q] EXCEPT !.touched = TRUE] ELSE req[q]]

At(r, at, op) == req[r].at = at /\ req[r].call.op = op
Merged(r) == Over(req[r].rows, user)

\* Rights to administer permissions that end when groups becomes the table.
Delegating == {"admin_permissions", "admin_all"}
Lost(groups) == {lost \in (DOMAIN user) \X Delegating :
                    lost[2] \in Rights(lost[1]) \ RightsIn(groups, lost[1])}

\* A request that has made a change.  If another has not been checked yet
\* then to undo this one may bring back what that one would have undone.
\* took is history: what the change took away.
Changed(r, groups) ==
    [req[r] EXCEPT !.at = "reset", !.took = Lost(groups),
                   !.touched = groups # group /\ \E q \in Requests \ {r} : req[q].at \in Windows]

----------------------------------------------------------------------------
Init ==
    /\ user = [u \in StartUsers |-> "active"]
    /\ \E local \in StartGroups :
         group = With(With(local, Everyone, [type |-> "system", perms |-> {}, users |-> StartUsers]),
                      Administrators, [type |-> "system", perms |-> Flags, users |-> StartAdmins])
    /\ cached \in {Restrict([u \in StartUsers |-> Rights(u)], S) : S \in {{}, StartWeb}}
    /\ web = StartWeb
    /\ tokens = {}
    /\ req = [r \in Requests |-> Idle]
    /\ requests = 0 /\ faults = 0
    /\ raced = FALSE /\ dropped = FALSE /\ failed = FALSE /\ late = {}

LoggedIn(u) == u \in web \cup tokens
Room == requests < MaxRequests
Finish(r) == req' = [req EXCEPT ![r] = Idle]

\* A request of someone who is logged in: the session's user comes from
\* the cache, or else from the database.
Begin(r, c) ==
    /\ req[r] = Idle /\ Room
    /\ LoggedIn(c.by)
    /\ requests' = requests + 1
    /\ req' = [req EXCEPT ![r] =
         [at |-> IF c.by \in DOMAIN cached THEN "load" ELSE "session",
          call |-> c, rows |-> <<>>, copy |-> <<>>, touched |-> FALSE, took |-> {},
          me |-> IF c.by \in DOMAIN cached THEN cached[c.by] ELSE Rights(c.by)]]
    /\ UNCHANGED <<tables, sessions, faults, history>>

\* The copy that came from the database is stored for the next requests.
CacheUser(r) ==
    LET u == req[r].call.by IN
    /\ req[r].at = "session"
    /\ cached' = With(cached, u, req[r].me)
    /\ late' = IF req[r].me = Rights(u) THEN late \ {u} ELSE late \cup {u}
    /\ req' = [req EXCEPT ![r] = Advance(r, "load")]
    /\ UNCHANGED <<tables, web, tokens, bounds, raced, dropped, failed>>

\* The checks of the decorator and the handler; the objects are loaded.
Load(r) ==
    LET c == req[r].call IN
    /\ req[r].at = "load"
    /\ IF ~Allowed(req[r]) \/ Missing(c) \/ NothingToDo(c)
       THEN Finish(r)
       ELSE req' = [req EXCEPT ![r] = [@ EXCEPT !.at = "save",
                                                !.rows = Restrict(user, LoadedUsers(c)),
                                                !.copy = Restrict(group, LoadedGroups(c))]]
    /\ UNCHANGED <<tables, sessions, bounds, history>>

----------------------------------------------------------------------------
\* Changes

\* A new account joins Everyone in the same transaction.
InsertUser(u) == With(user, u, "active")
JoinEveryone(u) == With(group, Everyone, [group[Everyone] EXCEPT !.users = @ \cup {u}])
InsertGroup(g, edit) == With(group, g, [type |-> edit.type, perms |-> edit.perms, users |-> {}])
FlagAsDeleted(u) == [user EXCEPT ![u] = "deleted"]
Removable(copy) == copy.type = "local"

CreateUser(r) ==
    LET u == req[r].call.user
        next == IF req[r].call.op = "login" THEN Advance(r, "enter") ELSE Idle
    IN  /\ At(r, "save", "createUser") \/ req[r].at = "create"
        /\ IF u \in DOMAIN user
           THEN Finish(r) /\ UNCHANGED tables
           ELSE Commit(r, next, InsertUser(u), JoinEveryone(u))
        /\ UNCHANGED <<sessions, bounds, history>>

\* Mutant: the form's default for the status is saved with the other fields.
PutStatus(r) ==
    /\ At(r, "save", "putUser")
    /\ Commit(r, Changed(r, group), InsertUser(req[r].call.user), group)
    /\ raced' = (raced \/ OldCopy(r))
    /\ UNCHANGED <<sessions, bounds, dropped, failed, late>>

PutUser(r) ==
    /\ At(r, "save", "putUser")
    /\ Commit(r, Changed(r, group), Merged(r), group)
    /\ raced' = (raced \/ OldCopy(r))
    /\ UNCHANGED <<sessions, bounds, dropped, failed, late>>

DeleteUser(r) ==
    /\ At(r, "save", "deleteUser")
    /\ Commit(r, Changed(r, group), FlagAsDeleted(req[r].call.user), group)
    /\ UNCHANGED <<sessions, bounds, history>>

CreateGroup(r) ==
    LET c == req[r].call IN
    /\ At(r, "save", "createGroup")
    /\ IF c.group \in DOMAIN group \/ c.edit.type = "system"
       THEN Finish(r) /\ UNCHANGED tables
       ELSE Commit(r, Idle, user, InsertGroup(c.group, c.edit))
    /\ UNCHANGED <<sessions, bounds, history>>

\* Without the permission to change them, the permissions are saved as they
\* were loaded and nothing is reset.
SetsPermissions(q) == Permitted(q.me, "admin_permissions")

PutGroup(r) ==
    LET c == req[r].call
        may == SetsPermissions(req[r])
        new == [req[r].copy[c.group] EXCEPT
                   !.type = IF @ = "system" THEN @ ELSE c.edit.type,
                   !.perms = IF may THEN c.edit.perms ELSE @]
        merged == With(group, c.group, new)
    IN  /\ At(r, "save", "putGroup")
        /\ Commit(r, IF may THEN Changed(r, merged) ELSE Idle, Merged(r), merged)
        /\ raced' = (raced \/ OldCopy(r))
        /\ UNCHANGED <<sessions, bounds, dropped, failed, late>>

\* A group that is gone is merged as a new one, which cannot be deleted.
DeleteGroup(r) ==
    LET g == req[r].call.group
        others == Restrict(group, DOMAIN group \ {g})
    IN
    /\ At(r, "save", "deleteGroup")
    /\ IF g \notin DOMAIN group \/ ~Removable(req[r].copy[g])
       THEN Finish(r) /\ UNCHANGED <<tables, raced>>
       ELSE /\ Commit(r, Changed(r, others), Merged(r), others)
            /\ raced' = (raced \/ OldCopy(r))
    /\ dropped' = (dropped \/ (AdminHolds /\ ~AdminHolds'))
    /\ UNCHANGED <<sessions, bounds, failed, late>>

ChangeMembers(r, users) ==
    LET g == req[r].call.group
        merged == With(group, g, [req[r].copy[g] EXCEPT !.users = users])
    IN  /\ Commit(r, Changed(r, merged), Merged(r), merged)
        /\ raced' = (raced \/ OldCopy(r))
        /\ UNCHANGED <<sessions, bounds, dropped, failed, late>>

AddMember(r) ==
    /\ At(r, "save", "addMember")
    /\ ChangeMembers(r, req[r].copy[req[r].call.group].users \cup {req[r].call.user})

RemoveMember(r) ==
    /\ At(r, "save", "removeMember")
    /\ ChangeMembers(r, req[r].copy[req[r].call.group].users \ {req[r].call.user})

----------------------------------------------------------------------------
\* After a change

\* Mutant: the session that is reset is that of the one who makes the change.
ResetOwn(q) == {q.call.by}

ResetUsers(q) == IF q.call.op \in {"putGroup", "deleteGroup"}
                 THEN q.copy[q.call.group].users ELSE {q.call.user}

Uncache(S) == /\ cached' = Restrict(cached, DOMAIN cached \ S)
              /\ late' = late \ S

\* The session caches are reset, and one who deleted himself is logged out.
Reset(r) ==
    LET c == req[r].call IN
    /\ req[r].at = "reset"
    /\ Uncache(ResetUsers(req[r]))
    /\ web' = IF c.op = "deleteUser" /\ c.by = c.user THEN web \ {c.by} ELSE web
    /\ req' = [req EXCEPT ![r] =
                 IF c.op \in {"putGroup", "removeMember"} THEN Advance(r, "check") ELSE Idle]
    /\ UNCHANGED <<tables, tokens, bounds, raced, dropped, failed>>

CheckForUserLockout(r) ==
    /\ req[r].at = "check"
    /\ req' = [req EXCEPT ![r] =
                 IF LockedOut(req[r].call.by) THEN Advance(r, "restore") ELSE Idle]
    /\ UNCHANGED <<tables, sessions, bounds, history>>

\* The copy of before the change is merged.  The sessions that saw the
\* change keep what they cached of it.
RollBack(r) ==
    LET g == req[r].call.group
        merged == With(group, g, req[r].copy[g])
    IN  /\ req[r].at = "restore"
        /\ Commit(r, Idle, Merged(r), merged)
        /\ raced' = (raced \/ req[r].touched \/ OldRows(r))
        /\ late' = late \cup {u \in DOMAIN cached : cached[u] # Rights(u)'}
        /\ UNCHANGED <<sessions, bounds, dropped, failed>>

\* An error of the database or the cache, or the end of the process.
Fault(r) ==
    /\ req[r].at \in Windows
    /\ faults < MaxFaults
    /\ faults' = faults + 1
    /\ failed' = TRUE
    /\ Finish(r)
    /\ UNCHANGED <<tables, sessions, requests, raced, dropped, late>>

----------------------------------------------------------------------------
\* Sessions

\* The login page and the call for a token look at the account as it was
\* loaded to check the password.
LogsIn(c) == c.op = "login" /\ user[c.user] = "active"
GetsToken(c) == c.op = "token" /\ user[c.user] = "active" /\ c.user \in ApiUsers
LdapAccepts(u) == u \in LdapUsers

\* An unknown account that the LDAP server accepts is to be created.
Authenticate(r, c) ==
    /\ req[r] = Idle /\ Room
    /\ requests' = requests + 1
    /\ \/ /\ c.user \in DOMAIN user
          /\ LogsIn(c) \/ GetsToken(c)
          /\ req' = [req EXCEPT ![r] = [at |-> "enter", call |-> c, touched |-> FALSE]]
       \/ /\ c.user \notin DOMAIN user /\ LdapAccepts(c.user)
          /\ req' = [req EXCEPT ![r] = [at |-> "create", call |-> c, touched |-> FALSE]]
    /\ UNCHANGED <<tables, sessions, faults, history>>

Enter(r) ==
    LET c == req[r].call IN
    /\ req[r].at = "enter"
    /\ IF c.op = "login"
       THEN web' = web \cup {c.user} /\ Uncache({c.user}) /\ UNCHANGED tokens
       ELSE tokens' = tokens \cup {c.user} /\ UNCHANGED <<web, cached, late>>
    /\ Finish(r)
    /\ UNCHANGED <<tables, bounds, raced, dropped, failed>>

LogOut(u) ==
    /\ u \in web
    /\ web' = web \ {u}
    /\ Uncache({u})
    /\ UNCHANGED <<tables, tokens, req, bounds, raced, dropped, failed>>

\* Ten minutes have passed, or the cache needed the room.
Expire(u) ==
    /\ u \in DOMAIN cached
    /\ Uncache({u})
    /\ UNCHANGED <<tables, web, tokens, req, bounds, raced, dropped, failed>>

----------------------------------------------------------------------------
Change(r) == \/ CreateUser(r) \/ PutUser(r) \/ DeleteUser(r)
             \/ CreateGroup(r) \/ PutGroup(r) \/ DeleteGroup(r)
             \/ AddMember(r) \/ RemoveMember(r)

Next ==
    \/ \E r \in Requests :
         \/ \E c \in Calls : Begin(r, c)
         \/ \E c \in SignIns : Authenticate(r, c)
         \/ CacheUser(r) \/ Load(r) \/ Change(r)
         \/ Reset(r) \/ CheckForUserLockout(r) \/ RollBack(r) \/ Fault(r)
         \/ Enter(r)
    \/ \E u \in DOMAIN user : LogOut(u) \/ Expire(u)

Spec == Init /\ [][Next]_vars

----------------------------------------------------------------------------
TypeOK ==
    /\ DOMAIN user \subseteq StartUsers \cup LdapUsers \cup {c.user : c \in {d \in Calls : d.op = "createUser"}}
    /\ \A u \in DOMAIN user : user[u] \in Account
    /\ {Everyone, Administrators} \subseteq DOMAIN group
    /\ \A g \in DOMAIN group : group[g] \in Group(DOMAIN user)
    /\ \A u \in DOMAIN cached : u \in DOMAIN user /\ cached[u] \subseteq Flags
    /\ web \subseteq DOMAIN user /\ tokens \subseteq DOMAIN user

\* A change that leaves the administrator, or the one who makes it, without
\* user administration is taken back; so the administrator is without it
\* only if a group was deleted (which is not checked), a change was
\* overwritten or rolled back over another, or a request did not get as far
\* as its check.  Two who take the rights away together, each leaving the
\* other's group, are both held (_check_for_user_lockout).
LockoutHasAReason ==
    (\A r \in Requests : req[r].at \notin Windows)
        => AdminHolds \/ raced \/ dropped \/ failed

\* A deleted account stays deleted, but for one who loaded it before: the
\* handlers mean never to set the status ("Don't update the status field
\* with this method", UserAPI.put), but a merge writes what was loaded.
DeletedStaysDeleted ==
    [][\A u \in DOMAIN user : user[u] = "deleted" => user'[u] = "deleted" \/ raced']_vars

\* Rights are taken from the sessions with the change: when no reset is
\* due, a cached user has the rights of the database, unless the copy was
\* read before a change and stored after it, or a change was rolled back.
SessionsHaveTheRights ==
    (\A r \in Requests : req[r].at # "reset")
        => \A u \in DOMAIN cached : cached[u] = Rights(u) \/ u \in late \/ raced \/ failed

\* One who may administer users but not permissions gives nobody the
\* administration of permissions, as a group's member or by an edit of a
\* group; and when his change is taken back, nobody gets more than that very
\* change took from him.  Excepted are changes that were overwritten, and
\* roll backs of a change when another was made before or since.
RightsComeFromTheirOwners ==
    [][\A u \in DOMAIN user \cap DOMAIN user' :
         LET gained == (Rights(u)' \ Rights(u)) \cap Delegating
         IN  gained # {}
               => \/ raced'
                  \/ \E r \in Requests :
                        /\ req'[r] # req[r]
                        /\ \/ Permitted(req[r].me, "admin_permissions")
                           \/ req[r].at = "restore" /\ {u} \X gained \subseteq req[r].took]_vars
=============================================================================
