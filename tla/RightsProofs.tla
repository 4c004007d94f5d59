---------------------------- MODULE RightsProofs ----------------------------
(***************************************************************************)
(* Who may do what.                                                        *)
(*                                                                         *)
(* Accounts: for any accounts, groups, calls and number of requests at a   *)
(* time, what the lock-out check, the reset of the sessions and the checks *)
(* of permissions promise together.                                        *)
(*                                                                         *)
(* Access rules: that the two ways in which the permissions manager works  *)
(* out an access level agree, and what they amount to, for any groups, any *)
(* number of folders and any records, in whatever order groups are tried.  *)
(***************************************************************************)
EXTENDS Accounts, AccessRules, TLAPS

----------------------------------------------------------------------------
(* Accounts: the inductive invariant *)

CheckedOps == {"putGroup", "removeMember"}
SystemGroups == {Everyone, Administrators}
Accountable == StartUsers \cup LdapUsers \cup {c.user : c \in {d \in Calls : d.op = "createUser"}}

\* Records of the tables, while there are the accounts U.
RowsOK(rows, U) == DOMAIN rows \subseteq U /\ \A u \in DOMAIN rows : rows[u] \in Account
CopyOK(copy, U) ==
    \A g \in DOMAIN copy : copy[g] \in Group(U) /\ (g \in SystemGroups => copy[g].type = "system")
TablesOK(users, groups) ==
    /\ RowsOK(users, Accountable) /\ CopyOK(groups, DOMAIN users)
    /\ SystemGroups \subseteq DOMAIN groups

\* A request in progress: what it has loaded is what was there, and it goes
\* on only with what its call needs.
SigningIn(q, U) ==
    /\ DOMAIN q = {"at", "call", "touched"}
    /\ \/ q.at = "enter" /\ q.call.user \in U
       \/ q.at = "create" /\ q.call.user \in LdapUsers

Serving(q, U) ==
    /\ DOMAIN q = {"at", "call", "rows", "copy", "touched", "took", "me"}
    /\ q.at \in {"session", "load", "save"} \cup Windows
    /\ q.call \in Calls /\ q.call.by \in U /\ q.me \subseteq Flags
    /\ RowsOK(q.rows, U) /\ CopyOK(q.copy, U)
    /\ q.at \in {"save"} \cup Windows =>
         /\ q.call.op \in GroupOps => DOMAIN q.copy = {q.call.group}
         /\ q.call.op \in {"putUser", "deleteUser", "addMember"} => q.call.user \in U
    /\ q.at \in {"check", "restore"} => q.call.op \in CheckedOps

RequestOK(q, U) == q.at = "idle" \/ SigningIn(q, U) \/ Serving(q, U)

SessionsOK ==
    /\ \A u \in DOMAIN cached : u \in DOMAIN user /\ cached[u] \subseteq Flags
    /\ web \subseteq DOMAIN user /\ tokens \subseteq DOMAIN user

\* Types, and what a request may do that has got as far as its change.
Typed ==
    /\ TablesOK(user, group) /\ SessionsOK
    /\ DOMAIN req = Requests
    /\ \A r \in Requests : RequestOK(req[r], DOMAIN user)

\* Who adds a member to a group that gives the administration of permissions
\* had it himself when the group was loaded.
MayAdd(q) ==
    q.at = "save" /\ q.call.op = "addMember"
        /\ q.copy[q.call.group].perms \cap {"admin_permissions", "admin_all"} # {}
      => Permitted(q.me, "admin_permissions")

\* A change that is still to be checked, and whether undoing it leaves the
\* administrator his rights.
WillCheck(q) == q.at \in Windows /\ q.call.op \in CheckedOps
Undone(q) == With(group, q.call.group, q.copy[q.call.group])
GivesBack(q) == HoldsIn(Undone(q))

Excused == raced \/ dropped \/ failed

\* To undo a change gives nobody more than the change took.
Returns(q) ==
    \A u : \A f \in Delegating :
        f \in RightsIn(Undone(q), u) => f \in Rights(u) \/ <<u, f>> \in q.took

\* An administrator without his rights has a request on its way that gives
\* them back, and none takes them away, or gives more than it took, unless it
\* was touched by another.
LockInv ==
    /\ Excused \/ AdminHolds
         \/ \E r \in Requests : WillCheck(req[r]) /\ (req[r].touched \/ GivesBack(req[r]))
    /\ \A r \in Requests :
         WillCheck(req[r]) => Excused \/ req[r].touched \/ (AdminHolds => GivesBack(req[r]))
    /\ raced \/ \A r \in Requests : WillCheck(req[r]) => req[r].touched \/ Returns(req[r])

\* A copy that is out of date is one that a request is about to remove.
SessionInv ==
    \A u \in DOMAIN cached :
        \/ cached[u] = Rights(u) \/ u \in late \/ raced \/ failed
        \/ \E r \in Requests : req[r].at = "reset" /\ u \in ResetUsers(req[r])

IInv == Typed /\ LockInv /\ SessionInv /\ \A r \in Requests : MayAdd(req[r])

----------------------------------------------------------------------------
(* Accounts: rights *)

LEMMA RightsAre ==
  ASSUME NEW groups, NEW u, NEW f
  PROVE  f \in RightsIn(groups, u)
           <=> \E g \in DOMAIN groups : u \in groups[g].users /\ f \in groups[g].perms
BY DEF RightsIn

\* More groups, members and permissions give no less rights.
LEMMA RightsGrow ==
  ASSUME NEW old, NEW new, NEW u,
         \A g \in DOMAIN old : u \in old[g].users =>
            g \in DOMAIN new /\ u \in new[g].users /\ old[g].perms \subseteq new[g].perms
  PROVE  RightsIn(old, u) \subseteq RightsIn(new, u)
<1>1. ASSUME NEW f \in RightsIn(old, u) PROVE f \in RightsIn(new, u)
  <2>1. PICK g \in DOMAIN old : u \in old[g].users /\ f \in old[g].perms
    BY <1>1, RightsAre
  <2> QED
    BY <2>1, RightsAre
<1> QED
  BY <1>1

\* A record that has another one's permissions and, as far as u goes, its
\* members, replaces it without a difference for u.
LEMMA SameRights ==
  ASSUME NEW groups, NEW g \in DOMAIN groups, NEW new, NEW u,
         u \in new.users <=> u \in groups[g].users, new.perms = groups[g].perms
  PROVE  RightsIn(With(groups, g, new), u) = RightsIn(groups, u)
<1>1. RightsIn(With(groups, g, new), u) \subseteq RightsIn(groups, u)
  BY RightsGrow DEF With
<1>2. RightsIn(groups, u) \subseteq RightsIn(With(groups, g, new), u)
  BY RightsGrow DEF With
<1> QED
  BY <1>1, <1>2

\* What is undone leaves what was there.
LEMMA UndoneRights ==
  ASSUME NEW groups, NEW g \in DOMAIN groups, NEW new, NEW u
  PROVE  RightsIn(With(With(groups, g, new), g, groups[g]), u) = RightsIn(groups, u)
<1> DEFINE last == With(With(groups, g, new), g, groups[g])
<1>1. DOMAIN last = DOMAIN groups /\ \A h \in DOMAIN groups : last[h] = groups[h]
  BY DEF With
<1> HIDE DEF last
<1>2. RightsIn(last, u) \subseteq RightsIn(groups, u)
  BY <1>1, RightsGrow
<1>3. RightsIn(groups, u) \subseteq RightsIn(last, u)
  BY <1>1, RightsGrow
<1> QED
  BY <1>2, <1>3 DEF last

\* The administrator holds what he holds by his rights.
LEMMA HoldsByRights ==
  ASSUME NEW old, NEW new, RightsIn(old, Admin) \subseteq RightsIn(new, Admin), HoldsIn(old)
  PROVE  HoldsIn(new)
BY DEF HoldsIn, Permitted

----------------------------------------------------------------------------
(* Accounts: types *)

\* What is left of a request when another one makes a change.
Keeps(p, q) ==
    /\ DOMAIN p = DOMAIN q
    /\ p.at = q.at /\ p.call = q.call /\ p.rows = q.rows /\ p.copy = q.copy /\ p.me = q.me
    /\ p.took = q.took

LEMMA GroupGrows == ASSUME NEW U, NEW V, U \subseteq V PROVE Group(U) \subseteq Group(V)
BY DEF Group

LEMMA RequestKept ==
  ASSUME NEW U, NEW V, U \subseteq V, NEW p, NEW q, Keeps(p, q), RequestOK(q, U)
  PROVE  RequestOK(p, V)
<1>1. CopyOK(q.copy, U) => CopyOK(p.copy, V)
  BY GroupGrows DEF Keeps, CopyOK
<1>2. RowsOK(q.rows, U) => RowsOK(p.rows, V)
  BY DEF Keeps, RowsOK
<1>3. Serving(q, U) => Serving(p, V)
  BY <1>1, <1>2 DEF Serving, Keeps
<1>4. SigningIn(q, U) => SigningIn(p, V)
  BY DEF SigningIn, Keeps
<1> QED
  BY <1>3, <1>4 DEF RequestOK, Keeps

\* A table with one more record, or another one.
LEMMA GroupsWith ==
  ASSUME NEW groups, NEW U, NEW V, U \subseteq V, CopyOK(groups, U), NEW g, NEW new \in Group(V),
         g \in SystemGroups => new.type = "system"
  PROVE  CopyOK(With(groups, g, new), V) /\ DOMAIN With(groups, g, new) = DOMAIN groups \cup {g}
BY GroupGrows DEF CopyOK, With

LEMMA UsersWith ==
  ASSUME NEW users, NEW U, RowsOK(users, U), NEW u \in U, NEW x \in Account
  PROVE  RowsOK(With(users, u, x), U) /\ DOMAIN With(users, u, x) = DOMAIN users \cup {u}
BY DEF RowsOK, With

LEMMA UsersOver ==
  ASSUME NEW users, NEW U, RowsOK(users, U), NEW rows, RowsOK(rows, DOMAIN users)
  PROVE  RowsOK(Over(rows, users), U) /\ DOMAIN Over(rows, users) = DOMAIN users
BY DEF RowsOK, Over

\* What a commit is to the requests.
LEMMA Commits ==
  ASSUME Typed, NEW r \in Requests, NEW next, NEW users, NEW groups, Commit(r, next, users, groups)
  PROVE  /\ user' = users /\ group' = groups /\ DOMAIN req' = Requests /\ req'[r] = next
         /\ \A q \in Requests \ {r} :
              /\ Keeps(req'[q], req[q])
              /\ groups = group => req'[q] = req[q]
              /\ req[q].at \in Windows /\ (groups # group \/ req[q].touched) => req'[q].touched
<1>1. /\ user' = users /\ group' = groups /\ DOMAIN req' = Requests /\ req'[r] = next
      /\ \A q \in Requests \ {r} :
           req'[q] = IF req[q].at \in Windows /\ groups # group
                     THEN [req[q] EXCEPT !.touched = TRUE] ELSE req[q]
  BY DEF Commit
<1>2. ASSUME NEW q \in Requests \ {r}
      PROVE  /\ Keeps(req'[q], req[q])
             /\ groups = group => req'[q] = req[q]
             /\ req[q].at \in Windows /\ (groups # group \/ req[q].touched) => req'[q].touched
  <2>1. CASE req[q].at \in Windows /\ groups # group
    <3>1. "touched" \in DOMAIN req[q]
      BY <2>1 DEF Typed, RequestOK, SigningIn, Serving, Windows
    <3>2. req'[q] = [req[q] EXCEPT !.touched = TRUE]
      BY <1>1, <2>1
    <3>3. req'[q].touched = TRUE
      BY <3>1, <3>2
    <3>4. Keeps(req'[q], req[q])
      BY <3>2 DEF Keeps
    <3> QED
      BY <2>1, <3>3, <3>4
  <2>2. CASE ~(req[q].at \in Windows /\ groups # group)
    BY <1>1, <2>2 DEF Keeps
  <2> QED
    BY <2>1, <2>2
<1> QED
  BY <1>1, <1>2

\* Types are kept by a commit, and by a step of one request that commits nothing.
LEMMA CommitTyped ==
  ASSUME Typed, NEW r \in Requests, NEW next, NEW users, NEW groups, Commit(r, next, users, groups),
         TablesOK(users, groups), DOMAIN user \subseteq DOMAIN users,
         RequestOK(next, DOMAIN users), UNCHANGED sessions
  PROVE  Typed'
<1>1. SessionsOK'
  BY Commits DEF Typed, SessionsOK, sessions
<1>2. ASSUME NEW q \in Requests PROVE RequestOK(req'[q], DOMAIN users)
  BY Commits, RequestKept DEF Typed
<1> QED
  BY <1>1, <1>2, Commits DEF Typed

LEMMA StepTyped ==
  ASSUME Typed, NEW r \in Requests, NEW next, req' = [req EXCEPT ![r] = next],
         UNCHANGED tables, SessionsOK', RequestOK(next, DOMAIN user)
  PROVE  Typed'
BY DEF Typed, tables

\* What a request has at its change and after.
LEMMA AtSave ==
  ASSUME Typed, NEW r \in Requests, req[r].at \in {"save"} \cup Windows
  PROVE  /\ Serving(req[r], DOMAIN user)
         /\ req[r].call.op \in GroupOps => DOMAIN req[r].copy = {req[r].call.group}
BY DEF Typed, RequestOK, SigningIn, Serving, Windows

LEMMA ChangedIs ==
  ASSUME Typed, NEW r \in Requests, req[r].at = "save", NEW groups
  PROVE  /\ DOMAIN Changed(r, groups) = DOMAIN req[r] /\ Changed(r, groups).at = "reset"
         /\ Changed(r, groups).call = req[r].call /\ Changed(r, groups).copy = req[r].copy
         /\ Changed(r, groups).rows = req[r].rows /\ Changed(r, groups).me = req[r].me
         /\ Changed(r, groups).took = Lost(groups)
         /\ Changed(r, groups).touched
              = (groups # group /\ \E q \in Requests \ {r} : req[q].at \in Windows)
BY AtSave DEF Changed, Serving

LEMMA ChangedOK ==
  ASSUME Typed, NEW r \in Requests, req[r].at = "save", NEW groups, NEW U, DOMAIN user \subseteq U
  PROVE  RequestOK(Changed(r, groups), U)
<1> DEFINE next == Changed(r, groups)
<1>1. Serving(req[r], DOMAIN user)
  BY AtSave
<1>2. /\ DOMAIN next = DOMAIN req[r] /\ next.at = "reset" /\ next.call = req[r].call
      /\ next.rows = req[r].rows /\ next.copy = req[r].copy /\ next.me = req[r].me
  BY ChangedIs
<1> HIDE DEF next
<1>3. CopyOK(next.copy, U) /\ RowsOK(next.rows, U)
  BY <1>1, <1>2, GroupGrows DEF Serving, CopyOK, RowsOK
<1>4. Serving(next, U)
  BY <1>1, <1>2, <1>3 DEF Serving, Windows
<1> QED
  BY <1>4 DEF RequestOK, next

\* A copy that is merged is a group of the database again.
LEMMA MergedOK ==
  ASSUME Typed, NEW r \in Requests, req[r].at \in {"save"} \cup Windows, NEW new \in Group(DOMAIN user),
         NEW g, g \in SystemGroups => new.type = "system"
  PROVE  /\ TablesOK(Merged(r), With(group, g, new))
         /\ DOMAIN Merged(r) = DOMAIN user
<1>1. RowsOK(Merged(r), Accountable) /\ DOMAIN Merged(r) = DOMAIN user
  BY AtSave, UsersOver DEF Typed, TablesOK, Serving, Merged
<1>2. CopyOK(With(group, g, new), DOMAIN user) /\ DOMAIN With(group, g, new) = DOMAIN group \cup {g}
  BY GroupsWith DEF Typed, TablesOK
<1> QED
  BY <1>1, <1>2 DEF Typed, TablesOK

\* Reading: the copies of a group operation.
LEMMA CopyOf ==
  ASSUME Typed, NEW r \in Requests, req[r].at \in {"save"} \cup Windows, req[r].call.op \in GroupOps
  PROVE  /\ req[r].call.group \in DOMAIN req[r].copy
         /\ req[r].copy[req[r].call.group] \in Group(DOMAIN user)
         /\ req[r].call.group \in SystemGroups => req[r].copy[req[r].call.group].type = "system"
BY AtSave DEF Serving, CopyOK

LEMMA IdleOK == ASSUME NEW U PROVE RequestOK(Idle, U)
BY DEF RequestOK, Idle

\* Handlers that commit.
LEMMA ChangeTyped == Typed /\ (\E r \in Requests : Change(r) \/ RollBack(r)) => Typed'
<1> SUFFICES ASSUME Typed, NEW r \in Requests, Change(r) \/ RollBack(r) PROVE Typed'
  OBVIOUS
<1> DEFINE c == req[r].call
           g == c.group
           old == req[r].copy[g]
<1>0. /\ TablesOK(user, group) /\ RequestOK(req[r], DOMAIN user) /\ RequestOK(Idle, DOMAIN user)
      /\ DOMAIN req = Requests /\ SessionsOK
  BY IdleOK DEF Typed
<1>a. ASSUME Finish(r), UNCHANGED tables, UNCHANGED sessions PROVE Typed'
  <2>1. SessionsOK'
    BY <1>0, <1>a DEF SessionsOK, sessions, tables
  <2> QED
    BY <1>0, <1>a, <2>1, StepTyped DEF Finish
<1>1. CASE CreateUser(r)
  <2>1. UNCHANGED sessions
    BY <1>1 DEF CreateUser
  <2>2. CASE c.user \in DOMAIN user
    BY <1>1, <1>a, <2>1, <2>2 DEF CreateUser
  <2>3. CASE c.user \notin DOMAIN user
    <3> DEFINE next == IF c.op = "login" THEN Advance(r, "enter") ELSE Idle
    <3>1. Commit(r, next, InsertUser(c.user), JoinEveryone(c.user))
      BY <1>1, <2>3 DEF CreateUser
    <3>2. c.user \in Accountable
      <4>1. CASE At(r, "save", "createUser")
        <5>1. c \in Calls /\ c.op = "createUser"
          BY <4>1, AtSave DEF At, Serving
        <5> QED
          BY <5>1 DEF Accountable
      <4>2. CASE req[r].at = "create"
        BY <1>0, <4>2 DEF RequestOK, SigningIn, Serving, Windows, Accountable
      <4> QED
        BY <1>1, <4>1, <4>2 DEF CreateUser
    <3>3. /\ RowsOK(InsertUser(c.user), Accountable)
          /\ DOMAIN InsertUser(c.user) = DOMAIN user \cup {c.user}
      BY <1>0, <3>2, UsersWith DEF TablesOK, InsertUser, Account
    <3>4. /\ Everyone \in DOMAIN group /\ group[Everyone] \in Group(DOMAIN user)
          /\ group[Everyone].type = "system" /\ CopyOK(group, DOMAIN user)
      BY <1>0 DEF TablesOK, CopyOK, SystemGroups
    <3>5. TablesOK(InsertUser(c.user), JoinEveryone(c.user))
      <4> DEFINE U == DOMAIN user \cup {c.user}
                 joined == [group[Everyone] EXCEPT !.users = @ \cup {c.user}]
      <4>1. joined \in Group(U) /\ joined.type = group[Everyone].type
        BY <3>4 DEF Group
      <4> HIDE DEF joined
      <4>2. /\ CopyOK(With(group, Everyone, joined), U)
            /\ DOMAIN With(group, Everyone, joined) = DOMAIN group \cup {Everyone}
        <5>1. DOMAIN user \subseteq U
          OBVIOUS
        <5>2. joined \in Group(U) /\ joined.type = "system" /\ CopyOK(group, DOMAIN user)
          BY <3>4, <4>1
        <5> HIDE DEF U
        <5>3. CopyOK(With(group, Everyone, joined), U)
          BY <5>1, <5>2, GroupsWith
        <5> QED
          BY <5>3 DEF With
      <4>3. JoinEveryone(c.user) = With(group, Everyone, joined)
        BY DEF JoinEveryone, joined
      <4> QED
        BY <1>0, <3>3, <4>2, <4>3 DEF TablesOK
    <3>6. RequestOK(next, DOMAIN InsertUser(c.user))
      <4>1. CASE c.op = "login"
        <5>1. req[r].at = "create"
          BY <1>1, <4>1 DEF CreateUser, At
        <5>2. SigningIn(req[r], DOMAIN user)
          BY <1>0, <5>1 DEF RequestOK, Serving, Windows
        <5>3. DOMAIN next = {"at", "call", "touched"} /\ next.at = "enter" /\ next.call = c
          BY <4>1, <5>2 DEF Advance, SigningIn
        <5> QED
          BY <3>3, <5>3 DEF RequestOK, SigningIn
      <4>2. CASE c.op # "login"
        BY <4>2, IdleOK
      <4> QED
        BY <4>1, <4>2
    <3> HIDE DEF next
    <3> QED
      BY <2>1, <3>1, <3>3, <3>5, <3>6, CommitTyped
  <2> QED
    BY <2>2, <2>3
<1>2. CASE PutUser(r)
  <2>1. /\ req[r].at = "save" /\ UNCHANGED sessions
        /\ Commit(r, Changed(r, group), Merged(r), group)
    BY <1>2 DEF PutUser, At
  <2>2. TablesOK(Merged(r), group) /\ DOMAIN Merged(r) = DOMAIN user
    BY <1>0, <2>1, AtSave, UsersOver DEF TablesOK, Serving, Merged
  <2> QED
    BY <2>1, <2>2, ChangedOK, CommitTyped
<1>3. CASE DeleteUser(r)
  <2>1. /\ req[r].at = "save" /\ UNCHANGED sessions
        /\ Commit(r, Changed(r, group), FlagAsDeleted(c.user), group)
    BY <1>3 DEF DeleteUser, At
  <2>2. TablesOK(FlagAsDeleted(c.user), group) /\ DOMAIN FlagAsDeleted(c.user) = DOMAIN user
    BY <1>0 DEF TablesOK, RowsOK, FlagAsDeleted, Account
  <2> QED
    BY <2>1, <2>2, ChangedOK, CommitTyped
<1>4. CASE CreateGroup(r)
  <2>1. req[r].at = "save" /\ c.op = "createGroup" /\ UNCHANGED sessions
    BY <1>4 DEF CreateGroup, At
  <2>2. CASE g \in DOMAIN group \/ c.edit.type = "system"
    BY <1>4, <1>a, <2>1, <2>2 DEF CreateGroup
  <2>3. CASE ~(g \in DOMAIN group \/ c.edit.type = "system")
    <3>1. Commit(r, Idle, user, InsertGroup(g, c.edit))
      BY <1>4, <2>3 DEF CreateGroup
    <3>2. c \in Calls
      BY <2>1, AtSave DEF Serving
    <3>3. c.edit \in Edits
      BY <2>1, <3>2, CallsAssumption
    <3> DEFINE new == [type |-> c.edit.type, perms |-> c.edit.perms, users |-> {}]
    <3>4. new \in Group(DOMAIN user) /\ InsertGroup(g, c.edit) = With(group, g, new)
      BY <3>3 DEF Edits, Group, InsertGroup
    <3> HIDE DEF new
    <3>5. g \notin SystemGroups
      BY <1>0, <2>3 DEF TablesOK
    <3>6. TablesOK(user, InsertGroup(g, c.edit))
      <4>1. CopyOK(group, DOMAIN user) /\ SystemGroups \subseteq DOMAIN group
        BY <1>0 DEF TablesOK
      <4>2. CopyOK(With(group, g, new), DOMAIN user) /\ DOMAIN With(group, g, new) = DOMAIN group \cup {g}
        BY <3>4, <3>5, <4>1, GroupsWith
      <4> QED
        BY <1>0, <3>4, <4>1, <4>2 DEF TablesOK
    <3> QED
      BY <1>0, <2>1, <3>1, <3>6, CommitTyped
  <2> QED
    BY <2>2, <2>3
<1>5. CASE PutGroup(r)
  <2> DEFINE may == SetsPermissions(req[r])
             new == [old EXCEPT !.type = IF @ = "system" THEN @ ELSE c.edit.type,
                                !.perms = IF may THEN c.edit.perms ELSE @]
             merged == With(group, g, new)
  <2>1. /\ req[r].at = "save" /\ c.op = "putGroup" /\ UNCHANGED sessions
        /\ Commit(r, IF may THEN Changed(r, merged) ELSE Idle, Merged(r), merged)
    BY <1>5 DEF PutGroup, At
  <2>2. c.edit \in Edits
    BY <2>1, AtSave, CallsAssumption DEF Serving
  <2>3. old \in Group(DOMAIN user) /\ (g \in SystemGroups => old.type = "system")
    BY <2>1, CopyOf DEF GroupOps
  <2>4. new \in Group(DOMAIN user) /\ (g \in SystemGroups => new.type = "system")
    BY <2>2, <2>3 DEF Group, Edits
  <2> HIDE DEF new
  <2>5. TablesOK(Merged(r), merged) /\ DOMAIN Merged(r) = DOMAIN user
    BY <2>1, <2>4, MergedOK
  <2>6. RequestOK(IF may THEN Changed(r, merged) ELSE Idle, DOMAIN user)
    BY <2>1, ChangedOK, IdleOK
  <2> QED
    BY <2>1, <2>5, <2>6, CommitTyped
<1>6. CASE DeleteGroup(r)
  <2>1. req[r].at = "save" /\ c.op = "deleteGroup" /\ UNCHANGED sessions
    BY <1>6 DEF DeleteGroup, At
  <2>2. CASE g \notin DOMAIN group \/ ~Removable(old)
    BY <1>6, <1>a, <2>1, <2>2 DEF DeleteGroup
  <2>3. CASE ~(g \notin DOMAIN group \/ ~Removable(old))
    <3> DEFINE others == Restrict(group, DOMAIN group \ {g})
    <3>1. Commit(r, Changed(r, others), Merged(r), others)
      BY <1>6, <2>3 DEF DeleteGroup
    <3>2. g \notin SystemGroups
      BY <2>1, <2>3, CopyOf DEF Removable, GroupOps
    <3>3. RowsOK(Merged(r), Accountable) /\ DOMAIN Merged(r) = DOMAIN user
      BY <1>0, <2>1, AtSave, UsersOver DEF TablesOK, Serving, Merged
    <3>4. CopyOK(others, DOMAIN user) /\ SystemGroups \subseteq DOMAIN others
      BY <1>0, <3>2 DEF TablesOK, CopyOK, Restrict
    <3>5. TablesOK(Merged(r), others)
      BY <3>3, <3>4 DEF TablesOK
    <3> QED
      BY <2>1, <3>1, <3>3, <3>5, ChangedOK, CommitTyped
  <2> QED
    BY <2>2, <2>3
<1>7. ASSUME NEW users \in SUBSET DOMAIN user, req[r].at = "save", c.op \in GroupOps,
             UNCHANGED sessions, ChangeMembers(r, users)
      PROVE  Typed'
  <2> DEFINE new == [old EXCEPT !.users = users]
             merged == With(group, g, new)
  <2>1. Commit(r, Changed(r, merged), Merged(r), merged)
    BY <1>7 DEF ChangeMembers
  <2>2. new \in Group(DOMAIN user) /\ (g \in SystemGroups => new.type = "system")
    BY <1>7, CopyOf DEF Group
  <2> HIDE DEF new
  <2>3. TablesOK(Merged(r), merged) /\ DOMAIN Merged(r) = DOMAIN user
    BY <1>7, <2>2, MergedOK
  <2> QED
    BY <1>7, <2>1, <2>3, ChangedOK, CommitTyped
<1>8. CASE AddMember(r)
  <2>1. /\ req[r].at = "save" /\ c.op = "addMember" /\ UNCHANGED sessions
        /\ ChangeMembers(r, old.users \cup {c.user})
    BY <1>8 DEF AddMember, ChangeMembers, At
  <2>2. old.users \cup {c.user} \subseteq DOMAIN user
    BY <2>1, AtSave, CopyOf DEF Serving, Group, GroupOps
  <2> QED
    BY <1>7, <2>1, <2>2 DEF GroupOps
<1>9. CASE RemoveMember(r)
  <2>1. /\ req[r].at = "save" /\ c.op = "removeMember" /\ UNCHANGED sessions
        /\ ChangeMembers(r, old.users \ {c.user})
    BY <1>9 DEF RemoveMember, ChangeMembers, At
  <2>2. old.users \ {c.user} \subseteq DOMAIN user
    BY <2>1, CopyOf DEF Group, GroupOps
  <2> QED
    BY <1>7, <2>1, <2>2 DEF GroupOps
<1>10. CASE RollBack(r)
  <2>1. /\ req[r].at = "restore" /\ UNCHANGED sessions
        /\ Commit(r, Idle, Merged(r), With(group, g, old))
    BY <1>10 DEF RollBack
  <2>2. c.op \in GroupOps
    BY <2>1, AtSave DEF Serving, CheckedOps, GroupOps, Windows
  <2>3. TablesOK(Merged(r), With(group, g, old)) /\ DOMAIN Merged(r) = DOMAIN user
    BY <2>1, <2>2, CopyOf, MergedOK DEF Windows
  <2> QED
    BY <1>0, <2>1, <2>3, CommitTyped
<1> QED
  BY <1>1, <1>2, <1>3, <1>4, <1>5, <1>6, <1>8, <1>9, <1>10 DEF Change

\* Handlers and sessions that only read the tables.
LEMMA ReadTyped ==
  Typed /\ (\/ \E r \in Requests : \/ \E c \in Calls : Begin(r, c)
                                   \/ \E c \in SignIns : Authenticate(r, c)
                                   \/ CacheUser(r) \/ Load(r) \/ Reset(r)
                                   \/ CheckForUserLockout(r) \/ Fault(r) \/ Enter(r)
            \/ \E u \in DOMAIN user : LogOut(u) \/ Expire(u))
    => Typed'
<1> SUFFICES ASSUME Typed PROVE
      (\/ \E r \in Requests : \/ \E c \in Calls : Begin(r, c)
                              \/ \E c \in SignIns : Authenticate(r, c)
                              \/ CacheUser(r) \/ Load(r) \/ Reset(r)
                              \/ CheckForUserLockout(r) \/ Fault(r) \/ Enter(r)
       \/ \E u \in DOMAIN user : LogOut(u) \/ Expire(u)) => Typed'
  OBVIOUS
<1> USE DEF tables, sessions, history, bounds
<1>0. /\ TablesOK(user, group) /\ DOMAIN req = Requests /\ SessionsOK
      /\ \A u : Rights(u) \subseteq Flags
      /\ UNCHANGED <<tables, sessions>> => SessionsOK'
  <2>1. ASSUME NEW u, NEW f \in Rights(u) PROVE f \in Flags
    <3>1. PICK g \in DOMAIN group : f \in group[g].perms
      BY <2>1, RightsAre DEF Rights
    <3> QED
      BY <3>1 DEF Typed, TablesOK, CopyOK, Group
  <2> QED
    BY <2>1 DEF Typed, SessionsOK
<1>1. ASSUME NEW r \in Requests, NEW c \in Calls, Begin(r, c) PROVE Typed'
  <2> DEFINE next == [at |-> IF c.by \in DOMAIN cached THEN "load" ELSE "session",
                      call |-> c, rows |-> <<>>, copy |-> <<>>, touched |-> FALSE, took |-> {},
                      me |-> IF c.by \in DOMAIN cached THEN cached[c.by] ELSE Rights(c.by)]
  <2>1. req' = [req EXCEPT ![r] = next] /\ UNCHANGED <<tables, sessions>>
    BY <1>1 DEF Begin
  <2>2. c.by \in DOMAIN user
    BY <1>0, <1>1 DEF Begin, LoggedIn, SessionsOK
  <2>3. next.me \subseteq Flags
    BY <1>0 DEF SessionsOK
  <2>4. DOMAIN next.rows = {} /\ DOMAIN next.copy = {}
    OBVIOUS
  <2>5. next.at \in {"load", "session"} /\ next.call = c
        /\ DOMAIN next = {"at", "call", "rows", "copy", "touched", "took", "me"}
    OBVIOUS
  <2> HIDE DEF next
  <2>6. Serving(next, DOMAIN user)
    BY <2>2, <2>3, <2>4, <2>5 DEF Serving, RowsOK, CopyOK, Windows
  <2> QED
    BY <1>0, <2>1, <2>6, StepTyped DEF RequestOK
<1>2. ASSUME NEW r \in Requests, NEW c \in SignIns, Authenticate(r, c) PROVE Typed'
  <2>1. UNCHANGED <<tables, sessions>>
    BY <1>2 DEF Authenticate
  <2>2. PICK where \in {"enter", "create"} :
          /\ req' = [req EXCEPT ![r] = [at |-> where, call |-> c, touched |-> FALSE]]
          /\ where = "enter" => c.user \in DOMAIN user
          /\ where = "create" => c.user \in LdapUsers
    BY <1>2 DEF Authenticate, LdapAccepts
  <2>3. SigningIn([at |-> where, call |-> c, touched |-> FALSE], DOMAIN user)
    BY <2>2 DEF SigningIn
  <2> QED
    BY <1>0, <2>1, <2>2, <2>3, StepTyped DEF RequestOK
<1>3. ASSUME NEW r \in Requests, req[r].at \in {"session", "load"} \cup Windows,
             NEW at2 \in {"load", "check", "restore"},
             at2 \in {"check", "restore"} => req[r].at \in Windows /\ req[r].call.op \in CheckedOps
      PROVE  RequestOK(Advance(r, at2), DOMAIN user)
  <2>1. Serving(req[r], DOMAIN user)
    BY <1>3 DEF Typed, RequestOK, SigningIn, Serving, Windows
  <2>2. /\ Advance(r, at2).at = at2 /\ DOMAIN Advance(r, at2) = DOMAIN req[r]
        /\ Advance(r, at2).call = req[r].call /\ Advance(r, at2).rows = req[r].rows
        /\ Advance(r, at2).copy = req[r].copy /\ Advance(r, at2).me = req[r].me
    BY <2>1 DEF Advance, Serving
  <2>3. Serving(Advance(r, at2), DOMAIN user)
    BY <1>3, <2>1, <2>2 DEF Serving, Windows
  <2> QED
    BY <2>3 DEF RequestOK
<1>4. ASSUME NEW S, Uncache(S)
      PROVE  DOMAIN cached' \subseteq DOMAIN cached /\ \A u \in DOMAIN cached' : cached'[u] = cached[u]
  BY <1>4 DEF Uncache, Restrict
<1>5. ASSUME NEW r \in Requests, CacheUser(r) PROVE Typed'
  <2>1. /\ req[r].at = "session" /\ UNCHANGED <<tables, web, tokens>>
        /\ cached' = With(cached, req[r].call.by, req[r].me)
        /\ req' = [req EXCEPT ![r] = Advance(r, "load")]
    BY <1>5 DEF CacheUser
  <2>2. req[r].call.by \in DOMAIN user /\ req[r].me \subseteq Flags
    BY <2>1 DEF Typed, RequestOK, SigningIn, Serving
  <2>3. SessionsOK'
    BY <1>0, <2>1, <2>2 DEF SessionsOK, With
  <2> QED
    BY <1>3, <2>1, <2>3, StepTyped
<1>6. ASSUME NEW r \in Requests, Load(r) PROVE Typed'
  <2> DEFINE c == req[r].call
             next == [req[r] EXCEPT !.at = "save",
                                    !.rows = Restrict(user, LoadedUsers(c)),
                                    !.copy = Restrict(group, LoadedGroups(c))]
  <2>1. UNCHANGED <<tables, sessions>> /\ req[r].at = "load"
    BY <1>6 DEF Load
  <2>2. CASE Finish(r)
    BY <1>0, <2>1, <2>2, IdleOK, StepTyped DEF Finish
  <2>3. CASE ~Missing(c) /\ req' = [req EXCEPT ![r] = next]
    <3>1. Serving(req[r], DOMAIN user)
      BY <2>1 DEF Typed, RequestOK, SigningIn, Serving
    <3>2. /\ DOMAIN next = DOMAIN req[r] /\ next.at = "save" /\ next.call = c /\ next.me = req[r].me
          /\ next.rows = Restrict(user, LoadedUsers(c)) /\ next.copy = Restrict(group, LoadedGroups(c))
      BY <3>1 DEF Serving
    <3> HIDE DEF next
    <3>3. LoadedUsers(c) \subseteq DOMAIN user
      BY DEF LoadedUsers
    <3>4. RowsOK(next.rows, DOMAIN user)
      BY <1>0, <3>2, <3>3 DEF TablesOK, RowsOK, Restrict
    <3>5. CopyOK(next.copy, DOMAIN user)
      BY <1>0, <3>2 DEF TablesOK, CopyOK, Restrict, LoadedGroups
    <3>6. /\ c.op \in GroupOps => DOMAIN next.copy = {c.group}
          /\ c.op \in {"putUser", "deleteUser", "addMember"} => c.user \in DOMAIN user
      BY <2>3, <3>2 DEF Missing, LoadedGroups, Restrict, UserOps
    <3>7. Serving(next, DOMAIN user)
      BY <3>1, <3>2, <3>4, <3>5, <3>6 DEF Serving
    <3> QED
      BY <1>0, <2>1, <2>3, <3>7, StepTyped DEF RequestOK
  <2> QED
    BY <1>6, <2>2, <2>3 DEF Load
<1>7. ASSUME NEW r \in Requests, Reset(r) PROVE Typed'
  <2> DEFINE next == IF req[r].call.op \in CheckedOps THEN Advance(r, "check") ELSE Idle
  <2>1. /\ req[r].at = "reset" /\ UNCHANGED <<tables, tokens>> /\ web' \subseteq web
        /\ Uncache(ResetUsers(req[r])) /\ req' = [req EXCEPT ![r] = next]
    BY <1>7 DEF Reset, CheckedOps
  <2>2. RequestOK(next, DOMAIN user)
    BY <1>3, <2>1, IdleOK DEF Windows
  <2>3. SessionsOK'
    BY <1>0, <1>4, <2>1 DEF SessionsOK
  <2> HIDE DEF next
  <2> QED
    BY <2>1, <2>2, <2>3, StepTyped
<1>8. ASSUME NEW r \in Requests, CheckForUserLockout(r) PROVE Typed'
  <2> DEFINE next == IF LockedOut(req[r].call.by) THEN Advance(r, "restore") ELSE Idle
  <2>1. /\ req[r].at = "check" /\ UNCHANGED <<tables, sessions>> /\ req' = [req EXCEPT ![r] = next]
    BY <1>8 DEF CheckForUserLockout
  <2>2. req[r].call.op \in CheckedOps
    BY <2>1, AtSave DEF Serving, Windows
  <2>3. RequestOK(next, DOMAIN user)
    BY <1>3, <2>1, <2>2, IdleOK DEF Windows
  <2> HIDE DEF next
  <2> QED
    BY <1>0, <2>1, <2>3, StepTyped
<1>9. ASSUME NEW r \in Requests, Fault(r) PROVE Typed'
  BY <1>0, <1>9, IdleOK, StepTyped DEF Fault, Finish
<1>10. ASSUME NEW r \in Requests, Enter(r) PROVE Typed'
  <2>1. req[r].at = "enter" /\ UNCHANGED tables /\ Finish(r)
    BY <1>10 DEF Enter
  <2>2. req[r].call.user \in DOMAIN user
    BY <2>1 DEF Typed, RequestOK, SigningIn, Serving, Windows
  <2>3. SessionsOK'
    BY <1>0, <1>4, <1>10, <2>2 DEF Enter, SessionsOK
  <2> QED
    BY <2>1, <2>3, IdleOK, StepTyped DEF Finish
<1>11. ASSUME NEW u \in DOMAIN user, LogOut(u) \/ Expire(u) PROVE Typed'
  <2>1. UNCHANGED <<tables, tokens, req>> /\ Uncache({u}) /\ web' \subseteq web
    BY <1>11 DEF LogOut, Expire
  <2>2. SessionsOK'
    BY <1>0, <1>4, <2>1 DEF SessionsOK
  <2> QED
    BY <2>1, <2>2 DEF Typed
<1> QED
  BY <1>1, <1>2, <1>5, <1>6, <1>7, <1>8, <1>9, <1>10, <1>11

LEMMA TypesStay == Typed /\ [Next]_vars => Typed'
<1>1. Typed /\ UNCHANGED vars => Typed'
  BY DEF vars, tables, sessions, Typed, SessionsOK
<1> QED
  BY <1>1, ChangeTyped, ReadTyped DEF Next

LEMMA TypesStart == Init => Typed
<1> SUFFICES ASSUME Init PROVE Typed
  OBVIOUS
<1>1. PICK local \in StartGroups :
        group = With(With(local, Everyone, [type |-> "system", perms |-> {}, users |-> StartUsers]),
                     Administrators, [type |-> "system", perms |-> Flags, users |-> StartAdmins])
  BY DEF Init
<1>2. DOMAIN user = StartUsers /\ RowsOK(user, Accountable)
  BY DEF Init, RowsOK, Account, Accountable
<1>3. CopyOK(group, StartUsers) /\ SystemGroups \subseteq DOMAIN group
  <2>1. /\ [type |-> "system", perms |-> {}, users |-> StartUsers] \in Group(StartUsers)
        /\ [type |-> "system", perms |-> Flags, users |-> StartAdmins] \in Group(StartUsers)
    BY StartAssumption DEF Group, Types
  <2>2. CopyOK(local, StartUsers)
    BY StartAssumption DEF CopyOK, SystemGroups
  <2>3. CopyOK(With(local, Everyone, [type |-> "system", perms |-> {}, users |-> StartUsers]), StartUsers)
    BY <2>1, <2>2, GroupsWith
  <2>4. CopyOK(group, StartUsers)
    BY <1>1, <2>1, <2>3, GroupsWith
  <2> QED
    BY <1>1, <2>4 DEF With, SystemGroups
<1>4. TablesOK(user, group)
  BY <1>2, <1>3 DEF TablesOK
<1>5. SessionsOK
  <2>1. ASSUME NEW u, NEW f \in Rights(u) PROVE f \in Flags
    <3>1. PICK g \in DOMAIN group : f \in group[g].perms
      BY <2>1, RightsAre DEF Rights
    <3> QED
      BY <1>3, <3>1 DEF CopyOK, Group
  <2>2. PICK S \in {{}, StartWeb} : cached = Restrict([u \in StartUsers |-> Rights(u)], S)
    BY DEF Init
  <2>3. \A u \in DOMAIN cached : u \in StartUsers /\ cached[u] = Rights(u)
    BY <2>2, StartAssumption DEF Restrict
  <2> QED
    BY <1>2, <2>1, <2>3, StartAssumption DEF Init, SessionsOK
<1> QED
  BY <1>4, <1>5, IdleOK DEF Init, Typed, Idle, RequestOK

----------------------------------------------------------------------------
(* Accounts: what a request saves *)

\* What was not overwritten in between is as it was loaded.
LEMMA Fresh ==
  ASSUME Typed, NEW r \in Requests, req[r].at \in {"save"} \cup Windows
  PROVE  /\ ~OldRows(r) => Merged(r) = Over(req[r].rows, user)
                             /\ \A u \in DOMAIN user : Merged(r)[u] = user[u]
         /\ ~OldCopy(r) => /\ ~OldRows(r)
                           /\ \A g \in DOMAIN req[r].copy : g \in DOMAIN group /\ group[g] = req[r].copy[g]
<1>1. DOMAIN req[r].rows \subseteq DOMAIN user
  BY AtSave DEF Serving, RowsOK
<1>2. ASSUME ~OldRows(r) PROVE \A u \in DOMAIN user : Merged(r)[u] = user[u]
  <2>1. Restrict(user, DOMAIN req[r].rows) = req[r].rows
    BY <1>2 DEF OldRows
  <2>2. \A u \in DOMAIN req[r].rows : req[r].rows[u] = user[u]
    BY <2>1 DEF Restrict
  <2> QED
    BY <2>2 DEF Merged, Over
<1> QED
  BY <1>2 DEF OldCopy, Merged

\* A request that changes members or permissions, unless it overwrites.
LEMMA FreshGroup ==
  ASSUME Typed, NEW r \in Requests, req[r].at \in {"save"} \cup Windows,
         req[r].call.op \in GroupOps, ~OldCopy(r)
  PROVE  req[r].call.group \in DOMAIN group /\ group[req[r].call.group] = req[r].copy[req[r].call.group]
BY Fresh, CopyOf

\* A commit has one request step on and the others as they were.
LEMMA AddingKept ==
  Typed /\ (\A r \in Requests : MayAdd(req[r])) /\ [Next]_vars => \A r \in Requests : MayAdd(req[r])'
<1> SUFFICES ASSUME Typed, \A r \in Requests : MayAdd(req[r]), [Next]_vars, NEW q \in Requests
             PROVE  MayAdd(req'[q])
  BY DEF MayAdd, Permitted
<1>0. DOMAIN req = Requests /\ MayAdd(req[q])
  BY DEF Typed
<1>1. ASSUME NEW r \in Requests, NEW next, req' = [req EXCEPT ![r] = next], next.at # "save"
      PROVE  MayAdd(req'[q])
  BY <1>0, <1>1 DEF MayAdd
<1>2. ASSUME NEW r \in Requests, NEW next, NEW users, NEW groups,
             Commit(r, next, users, groups), next.at # "save"
      PROVE  MayAdd(req'[q])
  BY <1>0, <1>2, Commits DEF MayAdd, Keeps
<1>3. Idle.at # "save"
  BY DEF Idle
<1>4. ASSUME NEW r \in Requests, NEW at2, req[r].at # "idle" PROVE Advance(r, at2).at = at2
  <2>1. "at" \in DOMAIN req[r]
    BY <1>4 DEF Typed, RequestOK, SigningIn, Serving
  <2> QED
    BY <2>1 DEF Advance
<1>5. ASSUME NEW r \in Requests, req[r].at = "save", NEW groups PROVE Changed(r, groups).at # "save"
  BY <1>5, ChangedIs
<1>6. ASSUME NEW r \in Requests, NEW c \in Calls, Begin(r, c) PROVE MayAdd(req'[q])
  <2> DEFINE next == [at |-> IF c.by \in DOMAIN cached THEN "load" ELSE "session",
                      call |-> c, rows |-> <<>>, copy |-> <<>>, touched |-> FALSE, took |-> {},
                      me |-> IF c.by \in DOMAIN cached THEN cached[c.by] ELSE Rights(c.by)]
  <2>1. req' = [req EXCEPT ![r] = next]
    BY <1>6 DEF Begin
  <2>2. next.at # "save"
    OBVIOUS
  <2> HIDE DEF next
  <2> QED
    BY <1>1, <2>1, <2>2
<1>7. ASSUME NEW r \in Requests, NEW c \in SignIns, Authenticate(r, c) PROVE MayAdd(req'[q])
  <2>1. PICK where \in {"enter", "create"} :
          req' = [req EXCEPT ![r] = [at |-> where, call |-> c, touched |-> FALSE]]
    BY <1>7 DEF Authenticate
  <2> DEFINE next == [at |-> where, call |-> c, touched |-> FALSE]
  <2>2. next.at # "save"
    OBVIOUS
  <2>3. req' = [req EXCEPT ![r] = next]
    BY <2>1
  <2> HIDE DEF next
  <2> QED
    BY <1>1, <2>2, <2>3
<1>8. ASSUME NEW r \in Requests, CacheUser(r) PROVE MayAdd(req'[q])
  <2>1. req[r].at = "session" /\ req' = [req EXCEPT ![r] = Advance(r, "load")]
    BY <1>8 DEF CacheUser
  <2>2. Advance(r, "load").at = "load"
    BY <1>4, <2>1
  <2> QED
    BY <1>1, <2>1, <2>2
<1>9. ASSUME NEW r \in Requests, Load(r) PROVE MayAdd(req'[q])
  <2> DEFINE c == req[r].call
             next == [req[r] EXCEPT !.at = "save",
                                    !.rows = Restrict(user, LoadedUsers(c)),
                                    !.copy = Restrict(group, LoadedGroups(c))]
  <2>1. CASE Finish(r)
    BY <1>1, <1>3, <2>1 DEF Finish
  <2>2. CASE /\ req[r].at = "load" /\ Allowed(req[r]) /\ ~Missing(c)
             /\ req' = [req EXCEPT ![r] = next]
    <3>1. DOMAIN req[r] = {"at", "call", "rows", "copy", "touched", "took", "me"}
      BY <2>2 DEF Typed, RequestOK, SigningIn, Serving
    <3>2. next.call = c /\ next.me = req[r].me /\ next.copy = Restrict(group, LoadedGroups(c))
      BY <3>1
    <3> HIDE DEF next
    <3>3. CASE c.op = "addMember"
      <4>1. Grants(c.group) => Permitted(req[r].me, "admin_permissions")
        BY <2>2, <3>3 DEF Allowed, OwnRecord
      <4>2. c.group \in DOMAIN group /\ next.copy[c.group] = group[c.group]
        BY <2>2, <3>2, <3>3 DEF Missing, LoadedGroups, Restrict, GroupOps
      <4>3. MayAdd(next)
        BY <3>2, <4>1, <4>2 DEF MayAdd, Grants
      <4> QED
        BY <1>0, <2>2, <4>3
    <3>4. CASE c.op # "addMember"
      BY <1>0, <2>2, <3>2, <3>4 DEF MayAdd
    <3> QED
      BY <3>3, <3>4
  <2> QED
    BY <1>9, <2>1, <2>2 DEF Load
<1>10. ASSUME NEW r \in Requests, Change(r) PROVE MayAdd(req'[q])
  <2>1. req[r].at \in {"save", "create"}
    BY <1>10 DEF Change, CreateUser, PutUser, DeleteUser, CreateGroup, PutGroup, DeleteGroup,
                 AddMember, RemoveMember, At
  <2>2. CASE CreateUser(r)
    BY <1>1, <1>2, <1>3, <1>4, <2>1, <2>2 DEF CreateUser, Finish
  <2>3. CASE PutUser(r) \/ DeleteUser(r)
    BY <1>2, <1>5, <2>3 DEF PutUser, DeleteUser, At
  <2>4. CASE CreateGroup(r)
    BY <1>1, <1>2, <1>3, <2>4 DEF CreateGroup, Finish
  <2>5. CASE PutGroup(r)
    BY <1>2, <1>3, <1>5, <2>5 DEF PutGroup, At
  <2>6. CASE DeleteGroup(r)
    BY <1>1, <1>2, <1>3, <1>5, <2>6 DEF DeleteGroup, At, Finish
  <2>7. CASE AddMember(r) \/ RemoveMember(r)
    BY <1>2, <1>5, <2>7 DEF AddMember, RemoveMember, ChangeMembers, At
  <2> QED
    BY <1>10, <2>2, <2>3, <2>4, <2>5, <2>6, <2>7 DEF Change
<1>11. ASSUME NEW r \in Requests, Reset(r) \/ CheckForUserLockout(r) PROVE MayAdd(req'[q])
  BY <1>1, <1>3, <1>4, <1>11 DEF Reset, CheckForUserLockout
<1>12. ASSUME NEW r \in Requests, RollBack(r) PROVE MayAdd(req'[q])
  BY <1>2, <1>3, <1>12 DEF RollBack
<1>13. ASSUME NEW r \in Requests, Fault(r) \/ Enter(r) PROVE MayAdd(req'[q])
  BY <1>1, <1>3, <1>13 DEF Fault, Enter, Finish
<1>14. ASSUME NEW u \in DOMAIN user, LogOut(u) \/ Expire(u) PROVE MayAdd(req'[q])
  BY <1>0, <1>14 DEF LogOut, Expire
<1>15. CASE UNCHANGED vars
  BY <1>0, <1>15 DEF vars
<1> QED
  BY <1>6, <1>7, <1>8, <1>9, <1>10, <1>11, <1>12, <1>13, <1>14, <1>15 DEF Next

----------------------------------------------------------------------------
(* Accounts: what a change is to the rights *)

LEMMA UntouchedRights ==
  ASSUME NEW groups, NEW g, NEW new, NEW u, u \notin new.users,
         g \in DOMAIN groups => u \notin groups[g].users
  PROVE  RightsIn(With(groups, g, new), u) = RightsIn(groups, u)
<1>1. RightsIn(With(groups, g, new), u) \subseteq RightsIn(groups, u)
  BY RightsGrow DEF With
<1>2. RightsIn(groups, u) \subseteq RightsIn(With(groups, g, new), u)
  BY RightsGrow DEF With
<1> QED
  BY <1>1, <1>2

LEMMA MoreMembers ==
  ASSUME NEW groups, NEW g \in DOMAIN groups, NEW new, NEW u,
         new.perms = groups[g].perms, groups[g].users \subseteq new.users
  PROVE  /\ RightsIn(groups, u) \subseteq RightsIn(With(groups, g, new), u)
         /\ RightsIn(With(groups, g, new), u) \subseteq RightsIn(groups, u) \cup new.perms
<1>1. RightsIn(groups, u) \subseteq RightsIn(With(groups, g, new), u)
  BY RightsGrow DEF With
<1>2. ASSUME NEW f \in RightsIn(With(groups, g, new), u) PROVE f \in RightsIn(groups, u) \cup new.perms
  <2>1. PICK h \in DOMAIN With(groups, g, new) :
          u \in With(groups, g, new)[h].users /\ f \in With(groups, g, new)[h].perms
    BY <1>2, RightsAre
  <2>2. CASE h = g
    BY <2>1, <2>2 DEF With
  <2>3. CASE h # g
    <3>1. h \in DOMAIN groups /\ u \in groups[h].users /\ f \in groups[h].perms
      BY <2>1, <2>3 DEF With
    <3> QED
      BY <3>1, RightsAre
  <2> QED
    BY <2>2, <2>3
<1> QED
  BY <1>1, <1>2

LEMMA FewerMembers ==
  ASSUME NEW groups, NEW g \in DOMAIN groups, NEW new, NEW u,
         new.perms = groups[g].perms, new.users \subseteq groups[g].users
  PROVE  RightsIn(With(groups, g, new), u) \subseteq RightsIn(groups, u)
BY RightsGrow DEF With

LEMMA OneGroupLess ==
  ASSUME NEW groups, NEW g \in DOMAIN groups, NEW u
  PROVE  /\ RightsIn(Restrict(groups, DOMAIN groups \ {g}), u) \subseteq RightsIn(groups, u)
         /\ u \notin groups[g].users =>
              RightsIn(Restrict(groups, DOMAIN groups \ {g}), u) = RightsIn(groups, u)
<1>1. RightsIn(Restrict(groups, DOMAIN groups \ {g}), u) \subseteq RightsIn(groups, u)
  BY RightsGrow DEF Restrict
<1>2. ASSUME u \notin groups[g].users
      PROVE  RightsIn(groups, u) \subseteq RightsIn(Restrict(groups, DOMAIN groups \ {g}), u)
  BY <1>2, RightsGrow DEF Restrict
<1> QED
  BY <1>1, <1>2

\* Rights change only for those whose sessions are reset; they are gained
\* only by a change of permissions or as a member, and lost only by a change
\* that will be checked, or with a group.
LEMMA RightsChange ==
  ASSUME Typed, NEW r \in Requests, Change(r), ~raced', NEW u
  PROVE  /\ \/ Rights(u)' = Rights(u) \/ u \notin DOMAIN user
            \/ req'[r].at = "reset" /\ u \in ResetUsers(req'[r])
         /\ \/ Rights(u)' \subseteq Rights(u) \/ u \notin DOMAIN user
            \/ At(r, "save", "putGroup") /\ SetsPermissions(req[r])
            \/ /\ At(r, "save", "addMember")
               /\ Rights(u)' \subseteq Rights(u) \cup req[r].copy[req[r].call.group].perms
         /\ \/ Rights(u) \subseteq Rights(u)' \/ At(r, "save", "deleteGroup")
            \/ WillCheck(req'[r])
<1> DEFINE c == req[r].call
           g == c.group
           old == req[r].copy[g]
<1>0. Rights(u) = RightsIn(group, u) /\ Rights(u)' = RightsIn(group', u)
  BY DEF Rights
<1>a. ASSUME group' = group PROVE Rights(u)' = Rights(u)
  BY <1>0, <1>a
<1>b. ASSUME NEW groups, NEW users, req[r].at = "save", Commit(r, Changed(r, groups), users, groups)
      PROVE  /\ group' = groups /\ req'[r].at = "reset" /\ ResetUsers(req'[r]) = ResetUsers(req[r])
             /\ c.op \in CheckedOps => WillCheck(req'[r])
  <2>1. group' = groups /\ req'[r] = Changed(r, groups)
    BY <1>b, Commits
  <2>2. /\ Changed(r, groups).at = "reset" /\ Changed(r, groups).call = req[r].call
        /\ Changed(r, groups).copy = req[r].copy
    BY <1>b, ChangedIs
  <2> QED
    BY <2>1, <2>2 DEF ResetUsers, WillCheck, Windows
<1>c. ASSUME req[r].at = "save", c.op \in GroupOps, ~OldCopy(r)
      PROVE  g \in DOMAIN group /\ group[g] = old /\ old \in Group(DOMAIN user)
  BY <1>c, FreshGroup, CopyOf
<1>1. CASE CreateUser(r)
  <2>1. CASE UNCHANGED tables
    BY <1>a, <2>1 DEF tables
  <2>2. CASE c.user \notin DOMAIN user /\ group' = JoinEveryone(c.user)
    <3> DEFINE joined == [group[Everyone] EXCEPT !.users = @ \cup {c.user}]
    <3>1. Everyone \in DOMAIN group /\ group[Everyone] \in Group(DOMAIN user)
      BY DEF Typed, TablesOK, CopyOK, SystemGroups
    <3>2. joined.users = group[Everyone].users \cup {c.user} /\ joined.perms = group[Everyone].perms
      BY <3>1 DEF Group
    <3>3. group' = With(group, Everyone, joined)
      BY <2>2 DEF JoinEveryone
    <3> HIDE DEF joined
    <3>4. RightsIn(group, u) \subseteq RightsIn(group', u)
      BY <3>1, <3>2, <3>3, MoreMembers
    <3>5. u # c.user => RightsIn(group', u) = RightsIn(group, u)
      BY <3>1, <3>2, <3>3, SameRights
    <3> QED
      BY <1>0, <2>2, <3>4, <3>5
  <2> QED
    BY <1>1, <2>1, <2>2 DEF CreateUser, Commit
<1>2. CASE PutUser(r) \/ DeleteUser(r)
  <2>1. group' = group
    BY <1>2 DEF PutUser, DeleteUser, Commit
  <2> QED
    BY <1>a, <2>1
<1>3. CASE CreateGroup(r)
  <2>1. CASE UNCHANGED tables
    BY <1>a, <2>1 DEF tables
  <2>2. CASE g \notin DOMAIN group /\ group' = InsertGroup(g, c.edit)
    <3> DEFINE new == [type |-> c.edit.type, perms |-> c.edit.perms, users |-> {}]
    <3>1. u \notin new.users /\ group' = With(group, g, new)
      BY <2>2 DEF InsertGroup
    <3> HIDE DEF new
    <3>2. RightsIn(group', u) = RightsIn(group, u)
      BY <2>2, <3>1, UntouchedRights
    <3> QED
      BY <1>0, <3>2
  <2> QED
    BY <1>3, <2>1, <2>2 DEF CreateGroup, Commit
<1>4. CASE PutGroup(r)
  <2> DEFINE may == SetsPermissions(req[r])
             new == [old EXCEPT !.type = IF @ = "system" THEN @ ELSE c.edit.type,
                                !.perms = IF may THEN c.edit.perms ELSE @]
             merged == With(group, g, new)
  <2>1. /\ req[r].at = "save" /\ c.op = "putGroup" /\ ~OldCopy(r)
        /\ Commit(r, IF may THEN Changed(r, merged) ELSE Idle, Merged(r), merged)
    BY <1>4 DEF PutGroup, At
  <2>2. g \in DOMAIN group /\ group[g] = old /\ old \in Group(DOMAIN user)
    BY <1>c, <2>1 DEF GroupOps
  <2>3. new.users = old.users /\ (~may => new.perms = old.perms)
    BY <2>2 DEF Group
  <2> HIDE DEF new
  <2>6. group' = merged
    BY <2>1, Commits
  <2>4. CASE ~may
    <3>1. RightsIn(merged, u) = RightsIn(group, u)
      BY <2>2, <2>3, <2>4, SameRights
    <3> QED
      BY <1>0, <2>6, <3>1
  <2>5. CASE may
    <3>1. /\ req'[r].at = "reset" /\ ResetUsers(req'[r]) = old.users /\ WillCheck(req'[r])
      BY <1>b, <2>1, <2>5 DEF ResetUsers, CheckedOps
    <3>2. u \notin old.users => RightsIn(merged, u) = RightsIn(group, u)
      BY <2>2, <2>3, UntouchedRights
    <3> QED
      BY <1>0, <2>1, <2>5, <2>6, <3>1, <3>2 DEF At
  <2> QED
    BY <2>4, <2>5
<1>5. CASE DeleteGroup(r)
  <2>1. CASE UNCHANGED tables
    BY <1>a, <2>1 DEF tables
  <2>2. CASE ~UNCHANGED tables
    <3> DEFINE others == Restrict(group, DOMAIN group \ {g})
    <3>1. /\ req[r].at = "save" /\ c.op = "deleteGroup" /\ ~OldCopy(r)
          /\ Commit(r, Changed(r, others), Merged(r), others)
      BY <1>5, <2>2 DEF DeleteGroup, At
    <3>2. g \in DOMAIN group /\ group[g] = old
      BY <1>c, <3>1 DEF GroupOps
    <3>3. group' = others /\ req'[r].at = "reset" /\ ResetUsers(req'[r]) = old.users
      BY <1>b, <3>1 DEF ResetUsers
    <3>4. /\ RightsIn(others, u) \subseteq RightsIn(group, u)
          /\ u \notin old.users => RightsIn(others, u) = RightsIn(group, u)
      BY <3>2, OneGroupLess
    <3> QED
      BY <1>0, <3>1, <3>3, <3>4 DEF At
  <2> QED
    BY <2>1, <2>2
<1>6. CASE AddMember(r)
  <2> DEFINE new == [old EXCEPT !.users = old.users \cup {c.user}]
             merged == With(group, g, new)
  <2>1. /\ req[r].at = "save" /\ c.op = "addMember" /\ ~OldCopy(r)
        /\ Commit(r, Changed(r, merged), Merged(r), merged)
    BY <1>6 DEF AddMember, ChangeMembers, At
  <2>2. g \in DOMAIN group /\ group[g] = old /\ old \in Group(DOMAIN user)
    BY <1>c, <2>1 DEF GroupOps
  <2>3. new.users = old.users \cup {c.user} /\ new.perms = old.perms
    BY <2>2 DEF Group
  <2>4. group' = merged /\ req'[r].at = "reset" /\ ResetUsers(req'[r]) = {c.user}
    BY <1>b, <2>1 DEF ResetUsers
  <2> HIDE DEF new
  <2>5. u # c.user => RightsIn(merged, u) = RightsIn(group, u)
    BY <2>2, <2>3, SameRights
  <2>6. /\ RightsIn(group, u) \subseteq RightsIn(merged, u)
        /\ RightsIn(merged, u) \subseteq RightsIn(group, u) \cup old.perms
    BY <2>2, <2>3, MoreMembers
  <2> QED
    BY <1>0, <2>1, <2>4, <2>5, <2>6 DEF At
<1>7. CASE RemoveMember(r)
  <2> DEFINE new == [old EXCEPT !.users = old.users \ {c.user}]
             merged == With(group, g, new)
  <2>1. /\ req[r].at = "save" /\ c.op = "removeMember" /\ ~OldCopy(r)
        /\ Commit(r, Changed(r, merged), Merged(r), merged)
    BY <1>7 DEF RemoveMember, ChangeMembers, At
  <2>2. g \in DOMAIN group /\ group[g] = old /\ old \in Group(DOMAIN user)
    BY <1>c, <2>1 DEF GroupOps
  <2>3. new.users = old.users \ {c.user} /\ new.perms = old.perms
    BY <2>2 DEF Group
  <2>4. /\ group' = merged /\ req'[r].at = "reset" /\ ResetUsers(req'[r]) = {c.user}
        /\ WillCheck(req'[r])
    BY <1>b, <2>1 DEF ResetUsers, CheckedOps
  <2> HIDE DEF new
  <2>5. u # c.user => RightsIn(merged, u) = RightsIn(group, u)
    BY <2>2, <2>3, SameRights
  <2>6. RightsIn(merged, u) \subseteq RightsIn(group, u)
    BY <2>2, <2>3, FewerMembers
  <2> QED
    BY <1>0, <2>4, <2>5, <2>6
<1> QED
  BY <1>1, <1>2, <1>3, <1>4, <1>5, <1>6, <1>7 DEF Change

\* What a change or a roll back is to the rest.
LEMMA CommitFrame ==
  ASSUME Typed, NEW r \in Requests, Change(r) \/ RollBack(r)
  PROVE  /\ req[r].at \in {"save", "create", "restore"}
         /\ UNCHANGED <<cached, failed>> /\ (raced => raced') /\ (dropped => dropped')
         /\ \A q \in Requests \ {r} :
              /\ Keeps(req'[q], req[q])
              /\ group' = group => req'[q] = req[q]
              /\ req[q].at \in Windows /\ (group' # group \/ req[q].touched) => req'[q].touched
<1> USE DEF sessions
<1> DEFINE Frame ==
      \A q \in Requests \ {r} :
         /\ Keeps(req'[q], req[q])
         /\ group' = group => req'[q] = req[q]
         /\ req[q].at \in Windows /\ (group' # group \/ req[q].touched) => req'[q].touched
<1> SUFFICES /\ req[r].at \in {"save", "create", "restore"}
             /\ UNCHANGED <<cached, failed>> /\ (raced => raced') /\ (dropped => dropped')
             /\ Frame
  OBVIOUS
<1>1. ASSUME Finish(r), UNCHANGED tables PROVE Frame
  <2>1. \A q \in Requests \ {r} : req'[q] = req[q]
    BY <1>1 DEF Finish, Typed
  <2> QED
    BY <1>1, <2>1 DEF Keeps, tables
<1>2. ASSUME NEW next, NEW users, NEW groups, Commit(r, next, users, groups) PROVE Frame
  BY <1>2, Commits
<1> HIDE DEF Frame
<1>3. CASE CreateUser(r)
  <2>1. Frame
    BY <1>1, <1>2, <1>3 DEF CreateUser
  <2> QED
    BY <1>3, <2>1 DEF CreateUser, At, history
<1>4. CASE PutUser(r)
  BY <1>2, <1>4 DEF PutUser, At
<1>10. CASE DeleteUser(r)
  BY <1>2, <1>10 DEF DeleteUser, At, history
<1>5. CASE CreateGroup(r)
  BY <1>1, <1>2, <1>5 DEF CreateGroup, At, tables, history
<1>6. CASE PutGroup(r)
  BY <1>2, <1>6 DEF PutGroup, At
<1>7. CASE DeleteGroup(r)
  BY <1>1, <1>2, <1>7 DEF DeleteGroup, At, tables
<1>8. CASE AddMember(r)
  BY <1>2, <1>8 DEF AddMember, ChangeMembers, At
<1>11. CASE RemoveMember(r)
  BY <1>2, <1>11 DEF RemoveMember, ChangeMembers, At
<1>9. CASE RollBack(r)
  BY <1>2, <1>9 DEF RollBack
<1> QED
  BY <1>3, <1>4, <1>5, <1>6, <1>7, <1>8, <1>9, <1>10, <1>11 DEF Change

----------------------------------------------------------------------------
(* Accounts: the sessions *)

LEMMA SessionsStay == Typed /\ SessionInv /\ [Next]_vars => SessionInv'
<1> SUFFICES ASSUME Typed, SessionInv, [Next]_vars, NEW u \in DOMAIN cached',
                    ~raced', ~failed', u \notin late'
             PROVE  \/ cached'[u] = Rights(u)'
                    \/ \E r \in Requests : req'[r].at = "reset" /\ u \in ResetUsers(req'[r])
  BY DEF SessionInv, ResetUsers
<1>0. DOMAIN req = Requests
  BY DEF Typed
<1>a. ASSUME u \in DOMAIN cached, u \notin late, ~raced, ~failed
      PROVE  \/ cached[u] = Rights(u)
             \/ \E r \in Requests : req[r].at = "reset" /\ u \in ResetUsers(req[r])
  BY <1>a DEF SessionInv
<1>b. group' = group => Rights(u)' = Rights(u)
  BY DEF Rights
<1>c. ASSUME NEW r \in Requests, \A q \in Requests \ {r} : req'[q] = req[q], UNCHANGED <<raced, failed>>,
             group' = group, u \in DOMAIN cached, cached'[u] = cached[u], u \notin late,
             req[r].at = "reset" => u \notin ResetUsers(req[r])
      PROVE  \/ cached'[u] = Rights(u)'
             \/ \E q \in Requests : req'[q].at = "reset" /\ u \in ResetUsers(req'[q])
  <2>1. CASE cached[u] = Rights(u)
    BY <1>b, <1>c, <2>1
  <2>2. ASSUME NEW q \in Requests, req[q].at = "reset", u \in ResetUsers(req[q])
        PROVE  req'[q].at = "reset" /\ u \in ResetUsers(req'[q])
    BY <1>0, <1>c, <2>2
  <2> QED
    BY <1>a, <1>c, <2>1, <2>2
<1>d. ASSUME NEW S, Uncache(S)
      PROVE  u \in DOMAIN cached \ S /\ cached'[u] = cached[u] /\ u \notin late
  BY <1>d DEF Uncache, Restrict
<1>1. ASSUME NEW r \in Requests, NEW c \in Calls, Begin(r, c)
      PROVE  \E q \in Requests : req[q].at # "reset" /\ \A p \in Requests \ {q} : req'[p] = req[p]
  BY <1>0, <1>1 DEF Begin, Idle
<1>2. ASSUME NEW r \in Requests, NEW c \in SignIns, Authenticate(r, c)
      PROVE  \E q \in Requests : req[q].at # "reset" /\ \A p \in Requests \ {q} : req'[p] = req[p]
  BY <1>0, <1>2 DEF Authenticate, Idle
<1>3. ASSUME NEW r \in Requests, Load(r) \/ CheckForUserLockout(r)
      PROVE  \E q \in Requests : req[q].at # "reset" /\ \A p \in Requests \ {q} : req'[p] = req[p]
  BY <1>0, <1>3 DEF Load, CheckForUserLockout, Finish
<1>4. CASE \E r \in Requests : \/ \E c \in Calls : Begin(r, c)
                               \/ \E c \in SignIns : Authenticate(r, c)
                               \/ Load(r) \/ CheckForUserLockout(r)
  <2>1. UNCHANGED <<group, cached, raced, failed, late>>
    BY <1>4 DEF Begin, Authenticate, Load, CheckForUserLockout, tables, sessions, history
  <2> QED
    BY <1>1, <1>2, <1>3, <1>4, <1>c, <2>1
<1>5. ASSUME NEW r \in Requests, CacheUser(r)
      PROVE  \/ cached'[u] = Rights(u)'
             \/ \E q \in Requests : req'[q].at = "reset" /\ u \in ResetUsers(req'[q])
  <2>1. /\ req[r].at = "session" /\ group' = group /\ UNCHANGED <<raced, failed>>
        /\ cached' = With(cached, req[r].call.by, req[r].me)
        /\ \A q \in Requests \ {r} : req'[q] = req[q]
        /\ late' = IF req[r].me = Rights(req[r].call.by) THEN late \ {req[r].call.by}
                   ELSE late \cup {req[r].call.by}
    BY <1>0, <1>5 DEF CacheUser, tables
  <2>2. CASE u = req[r].call.by
    BY <1>b, <2>1, <2>2 DEF With
  <2>3. CASE u # req[r].call.by
    <3>1. u \in DOMAIN cached /\ cached'[u] = cached[u] /\ u \notin late
      BY <2>1, <2>3 DEF With
    <3> QED
      BY <1>c, <2>1, <3>1
  <2> QED
    BY <2>2, <2>3
<1>6. ASSUME NEW r \in Requests, Change(r)
      PROVE  \/ cached'[u] = Rights(u)'
             \/ \E q \in Requests : req'[q].at = "reset" /\ u \in ResetUsers(req'[q])
  <2>1. UNCHANGED <<cached, failed>> /\ (raced => raced') /\ req[r].at # "reset"
        /\ \A q \in Requests \ {r} : Keeps(req'[q], req[q])
    <3>1. req[r].at # "restore"
      BY <1>6 DEF Change, CreateUser, PutUser, DeleteUser, CreateGroup, PutGroup, DeleteGroup,
                  AddMember, RemoveMember, At
    <3> QED
      BY <1>6, <3>1, CommitFrame
  <2>2. late' = late
    BY <1>6 DEF Change, CreateUser, PutUser, DeleteUser, CreateGroup, PutGroup, DeleteGroup,
                AddMember, RemoveMember, ChangeMembers, history
  <2>3. u \in DOMAIN user
    BY <2>1 DEF Typed, SessionsOK
  <2>4. CASE cached[u] = Rights(u)
    <3>1. Rights(u)' = Rights(u) \/ (req'[r].at = "reset" /\ u \in ResetUsers(req'[r]))
      BY <1>6, <2>3, RightsChange
    <3> QED
      BY <2>1, <2>4, <3>1
  <2>5. ASSUME NEW q \in Requests, req[q].at = "reset", u \in ResetUsers(req[q])
        PROVE  req'[q].at = "reset" /\ u \in ResetUsers(req'[q])
    BY <2>1, <2>5 DEF Keeps, ResetUsers
  <2> QED
    BY <1>a, <2>1, <2>2, <2>4, <2>5
<1>7. ASSUME NEW r \in Requests, Reset(r)
      PROVE  \/ cached'[u] = Rights(u)'
             \/ \E q \in Requests : req'[q].at = "reset" /\ u \in ResetUsers(req'[q])
  BY <1>0, <1>7, <1>c, <1>d DEF Reset, tables
<1>8. ASSUME NEW r \in Requests, RollBack(r) PROVE cached'[u] = Rights(u)'
  BY <1>8 DEF RollBack, sessions
<1>9. ASSUME NEW r \in Requests, Fault(r) PROVE FALSE
  BY <1>9 DEF Fault
<1>10. ASSUME NEW r \in Requests, Enter(r)
       PROVE  \/ cached'[u] = Rights(u)'
              \/ \E q \in Requests : req'[q].at = "reset" /\ u \in ResetUsers(req'[q])
  <2>1. /\ req[r].at = "enter" /\ \A q \in Requests \ {r} : req'[q] = req[q]
        /\ UNCHANGED <<group, raced, failed>>
    BY <1>0, <1>10 DEF Enter, Finish, tables
  <2>2. u \in DOMAIN cached /\ cached'[u] = cached[u] /\ u \notin late
    BY <1>10, <1>d DEF Enter
  <2> QED
    BY <1>c, <2>1, <2>2
<1>11. ASSUME NEW v \in DOMAIN user, LogOut(v) \/ Expire(v)
       PROVE  \/ cached'[u] = Rights(u)'
              \/ \E q \in Requests : req'[q].at = "reset" /\ u \in ResetUsers(req'[q])
  <2>1. UNCHANGED <<group, req, raced, failed>> /\ Uncache({v})
    BY <1>11 DEF LogOut, Expire, tables
  <2> QED
    BY <1>a, <1>b, <1>d, <2>1
<1>12. CASE UNCHANGED vars
  BY <1>a, <1>b, <1>12 DEF vars, tables, sessions, history
<1> QED
  BY <1>4, <1>5, <1>6, <1>7, <1>8, <1>9, <1>10, <1>11, <1>12 DEF Next

----------------------------------------------------------------------------
(* Accounts: the lock-out check *)

\* A change that will be checked can be undone, and is touched already if
\* it was made while another one was on its way.
LEMMA CheckedChange ==
  ASSUME Typed, NEW r \in Requests, Change(r), ~raced', WillCheck(req'[r])
  PROVE  /\ GivesBack(req[r])' <=> AdminHolds
         /\ Returns(req[r])'
         /\ req'[r].touched = (group' # group /\ \E q \in Requests \ {r} : req[q].at \in Windows)
<1> DEFINE c == req[r].call
           g == c.group
           old == req[r].copy[g]
<1>1. ASSUME NEW new, NEW users, req[r].at = "save", c.op \in GroupOps, ~OldCopy(r),
             Commit(r, Changed(r, With(group, g, new)), users, With(group, g, new))
      PROVE  /\ GivesBack(req[r])' <=> AdminHolds
             /\ Returns(req[r])'
             /\ req'[r].touched = (group' # group /\ \E q \in Requests \ {r} : req[q].at \in Windows)
  <2> DEFINE merged == With(group, g, new)
  <2>1. group' = merged /\ req'[r] = Changed(r, merged)
    BY <1>1, Commits
  <2>2. /\ req'[r].call = c /\ req'[r].copy = req[r].copy /\ req'[r].took = Lost(merged)
        /\ req'[r].touched = (merged # group /\ \E q \in Requests \ {r} : req[q].at \in Windows)
    BY <1>1, <2>1, ChangedIs
  <2>3. g \in DOMAIN group /\ group[g] = old
    BY <1>1, FreshGroup
  <2>4. RightsIn(With(merged, g, old), Admin) = RightsIn(group, Admin)
    BY <2>3, UndoneRights
  <2>5. GivesBack(req[r])' <=> HoldsIn(With(merged, g, old))
    BY <2>1, <2>2 DEF GivesBack, Undone
  <2>6. ASSUME NEW u, NEW f \in Delegating, f \in RightsIn(With(merged, g, old), u),
               f \notin RightsIn(merged, u)
        PROVE  <<u, f>> \in Lost(merged)
    <3>1. f \in RightsIn(group, u)
      BY <2>3, <2>6, UndoneRights
    <3>2. u \in DOMAIN user
      BY <3>1, RightsAre DEF Typed, TablesOK, CopyOK, Group
    <3> QED
      BY <2>6, <3>1, <3>2 DEF Lost, Rights
  <2>7. Returns(req[r])' <=> \A u : \A f \in Delegating :
            f \in RightsIn(With(merged, g, old), u)
              => f \in RightsIn(merged, u) \/ <<u, f>> \in Lost(merged)
    BY <2>1, <2>2 DEF Returns, Undone, Rights
  <2> HIDE DEF merged
  <2> QED
    BY <2>1, <2>2, <2>4, <2>5, <2>6, <2>7 DEF HoldsIn, AdminHolds
<1>2. req'[r].at \in Windows /\ req'[r].call.op \in CheckedOps
  BY DEF WillCheck
<1>3. Idle.at \notin Windows
  BY DEF Idle, Windows
<1>4. DOMAIN req = Requests
  BY DEF Typed
<1>5. ~Finish(r)
  BY <1>2, <1>3, <1>4 DEF Finish
<1>6. ASSUME NEW users, NEW groups, Commit(r, Changed(r, groups), users, groups), req[r].at = "save"
      PROVE  c.op \in CheckedOps
  BY <1>2, <1>6, Commits, ChangedIs
<1>7. CASE CreateUser(r)
  <2>1. req'[r] = IF c.op = "login" THEN Advance(r, "enter") ELSE Idle
    BY <1>5, <1>7, Commits DEF CreateUser
  <2>2. req[r].at # "idle"
    BY <1>7 DEF CreateUser, At
  <2>3. "at" \in DOMAIN req[r]
    BY <2>2 DEF Typed, RequestOK, SigningIn, Serving
  <2> QED
    BY <1>2, <1>3, <2>1, <2>3 DEF Advance, Windows
<1>8. CASE PutUser(r) \/ DeleteUser(r)
  BY <1>6, <1>8 DEF PutUser, DeleteUser, At, CheckedOps
<1>9. CASE CreateGroup(r)
  BY <1>2, <1>3, <1>5, <1>9, Commits DEF CreateGroup
<1>10. CASE PutGroup(r)
  <2>1. PICK new : Commit(r, IF SetsPermissions(req[r]) THEN Changed(r, With(group, g, new)) ELSE Idle,
                          Merged(r), With(group, g, new))
    BY <1>10 DEF PutGroup
  <2>2. Commit(r, Changed(r, With(group, g, new)), Merged(r), With(group, g, new))
    BY <1>2, <1>3, <2>1, Commits
  <2> QED
    BY <1>1, <1>10, <2>2 DEF PutGroup, At, GroupOps
<1>11. CASE DeleteGroup(r)
  BY <1>5, <1>6, <1>11 DEF DeleteGroup, At, CheckedOps
<1>12. CASE AddMember(r)
  BY <1>6, <1>12 DEF AddMember, ChangeMembers, At, CheckedOps
<1>13. CASE RemoveMember(r)
  BY <1>1, <1>13 DEF RemoveMember, ChangeMembers, At, GroupOps
<1> QED
  BY <1>7, <1>8, <1>9, <1>10, <1>11, <1>12, <1>13 DEF Change

\* A step of one request that changes no table, and whose change, if it was
\* to be checked, still is or was found to be in order.
LEMMA LockSame ==
  ASSUME Typed, LockInv, Excused => Excused', raced => raced', group' = group,
         NEW r \in Requests, \A q \in Requests \ {r} : req'[q] = req[q],
         WillCheck(req'[r]) => /\ WillCheck(req[r]) /\ req'[r].call = req[r].call
                               /\ req'[r].copy = req[r].copy /\ req'[r].touched = req[r].touched
                               /\ req'[r].took = req[r].took,
         WillCheck(req[r]) => WillCheck(req'[r]) \/ AdminHolds
  PROVE  LockInv'
<1>1. /\ AdminHolds' <=> AdminHolds
      /\ \A q \in Requests \ {r} : /\ WillCheck(req[q])' <=> WillCheck(req[q])
                                   /\ GivesBack(req[q])' <=> GivesBack(req[q])
                                   /\ Returns(req[q])' <=> Returns(req[q])
  BY DEF AdminHolds, GivesBack, Returns, Rights, Undone, WillCheck
<1>2. /\ WillCheck(req[r])' <=> WillCheck(req'[r])
      /\ WillCheck(req'[r]) => /\ GivesBack(req[r])' <=> GivesBack(req[r])
                               /\ Returns(req[r])' <=> Returns(req[r])
  BY DEF GivesBack, Returns, Rights, Undone, WillCheck
<1>3. ASSUME ~Excused'
      PROVE  AdminHolds' \/ \E q \in Requests : WillCheck(req[q])' /\ (req'[q].touched \/ GivesBack(req[q])')
  <2>1. AdminHolds \/ \E q \in Requests : WillCheck(req[q]) /\ (req[q].touched \/ GivesBack(req[q]))
    BY <1>3 DEF LockInv
  <2>2. ASSUME ~AdminHolds, NEW q \in Requests, WillCheck(req[q]) /\ (req[q].touched \/ GivesBack(req[q]))
        PROVE  WillCheck(req[q])' /\ (req'[q].touched \/ GivesBack(req[q])')
    BY <1>1, <1>2, <2>2
  <2> QED
    BY <1>1, <2>1, <2>2
<1>4. ASSUME ~Excused', NEW q \in Requests, WillCheck(req[q])'
      PROVE  req'[q].touched \/ (AdminHolds' => GivesBack(req[q])')
  BY <1>1, <1>2, <1>4 DEF LockInv
<1>5. ASSUME ~raced', NEW q \in Requests, WillCheck(req[q])' PROVE req'[q].touched \/ Returns(req[q])'
  BY <1>1, <1>2, <1>5 DEF LockInv
<1> QED
  BY <1>3, <1>4, <1>5 DEF LockInv, WillCheck

\* What a commit leaves of the others' claims.
LEMMA LockOthers ==
  ASSUME Typed, NEW r \in Requests, Change(r) \/ RollBack(r), NEW q \in Requests \ {r}
  PROVE  /\ WillCheck(req[q])' <=> WillCheck(req[q])
         /\ WillCheck(req[q]) => /\ req[q].touched => req'[q].touched
                                 /\ req'[q].touched \/ group' = group
         /\ group' = group => /\ AdminHolds' <=> AdminHolds
                              /\ GivesBack(req[q])' <=> GivesBack(req[q])
                              /\ Returns(req[q])' <=> Returns(req[q])
<1>1. /\ Keeps(req'[q], req[q])
      /\ group' = group => req'[q] = req[q]
      /\ req[q].at \in Windows /\ (group' # group \/ req[q].touched) => req'[q].touched
  BY CommitFrame
<1> QED
  BY <1>1 DEF WillCheck, Keeps, AdminHolds, GivesBack, Returns, Rights, Undone

LEMMA ReturnsCommitted ==
  ASSUME Typed, LockInv, NEW r \in Requests, Change(r) \/ RollBack(r), ~raced',
         NEW q \in Requests, WillCheck(req[q])'
  PROVE  req'[q].touched \/ Returns(req[q])'
<1>1. ~raced
  BY CommitFrame
<1>2. CASE q # r
  <2>1. WillCheck(req[q]) => req[q].touched \/ Returns(req[q])
    BY <1>1 DEF LockInv
  <2> QED
    BY <1>2, <2>1, LockOthers
<1>3. CASE q = r /\ Change(r)
  BY <1>3, CheckedChange DEF WillCheck
<1>4. CASE q = r /\ RollBack(r)
  <2>1. req'[r] = Idle
    BY <1>4, Commits DEF RollBack
  <2> QED
    BY <1>4, <2>1 DEF WillCheck, Windows, Idle
<1> QED
  BY <1>2, <1>3, <1>4

LEMMA LockCommitted ==
  Typed /\ LockInv /\ (\E r \in Requests : Change(r) \/ RollBack(r)) => LockInv'
<1> SUFFICES ASSUME Typed, LockInv, NEW r \in Requests, Change(r) \/ RollBack(r), ~Excused'
             PROVE  /\ AdminHolds' \/ \E q \in Requests : WillCheck(req[q])' /\ (req'[q].touched \/ GivesBack(req[q])')
                    /\ \A q \in Requests :
                         WillCheck(req[q])' => req'[q].touched \/ (AdminHolds' => GivesBack(req[q])')
  BY ReturnsCommitted DEF LockInv
<1>1. ~Excused /\ ~raced' /\ ~dropped' /\ req[r].at \in {"save", "create", "restore"}
  BY CommitFrame DEF Excused
<1>2. /\ AdminHolds \/ \E q \in Requests : WillCheck(req[q]) /\ (req[q].touched \/ GivesBack(req[q]))
      /\ \A q \in Requests : WillCheck(req[q]) => req[q].touched \/ (AdminHolds => GivesBack(req[q]))
  BY <1>1 DEF LockInv
<1>3. ASSUME NEW q \in Requests \ {r}, WillCheck(req[q])'
      PROVE  req'[q].touched \/ (AdminHolds' => GivesBack(req[q])')
  BY <1>2, <1>3, LockOthers
<1>4. ASSUME NEW q \in Requests \ {r}, WillCheck(req[q]) /\ (req[q].touched \/ GivesBack(req[q]))
      PROVE  WillCheck(req[q])' /\ (req'[q].touched \/ GivesBack(req[q])')
  BY <1>4, LockOthers
<1>5. CASE Change(r)
  <2>1. req[r].at \in {"save", "create"}
    BY <1>5 DEF Change, CreateUser, PutUser, DeleteUser, CreateGroup, PutGroup, DeleteGroup,
                AddMember, RemoveMember, ChangeMembers, At
  <2>2. ~WillCheck(req[r])
    BY <2>1 DEF WillCheck, Windows
  <2>3. WillCheck(req[r])' => /\ GivesBack(req[r])' <=> AdminHolds
                              /\ req'[r].touched = (group' # group /\ \E q \in Requests \ {r} : req[q].at \in Windows)
    BY <1>1, <1>5, CheckedChange DEF WillCheck
  <2>4. WillCheck(req[r])' => req'[r].touched \/ (AdminHolds' => GivesBack(req[r])')
    <3>1. CASE group' = group
      BY <2>3, <3>1 DEF AdminHolds
    <3>2. CASE \E q \in Requests \ {r} : req[q].at \in Windows
      BY <2>3, <3>1, <3>2
    <3>3. CASE ~\E q \in Requests \ {r} : req[q].at \in Windows
      <4>1. AdminHolds
        BY <1>2, <2>2, <3>3 DEF WillCheck
      <4> QED
        BY <2>3, <4>1
    <3> QED
      BY <3>1, <3>2, <3>3
  <2>5. CASE AdminHolds
    <3>1. Rights(Admin) \subseteq Rights(Admin)' \/ At(r, "save", "deleteGroup") \/ WillCheck(req'[r])
      BY <1>1, <1>5, RightsChange
    <3>2. CASE Rights(Admin) \subseteq Rights(Admin)'
      <4>1. AdminHolds'
        BY <2>5, <3>2, HoldsByRights DEF AdminHolds, Rights
      <4> QED
        BY <1>3, <2>4, <4>1
    <3>3. CASE At(r, "save", "deleteGroup")
      <4>1. DeleteGroup(r)
        BY <1>5, <3>3 DEF Change, CreateUser, PutUser, DeleteUser, CreateGroup, PutGroup,
                          AddMember, RemoveMember, ChangeMembers, At
      <4>2. AdminHolds'
        BY <1>1, <2>5, <4>1 DEF DeleteGroup
      <4> QED
        BY <1>3, <2>4, <4>2
    <3>4. CASE WillCheck(req'[r])
      <4>1. WillCheck(req[r])' /\ GivesBack(req[r])'
        BY <2>3, <2>5, <3>4 DEF WillCheck
      <4> QED
        BY <1>3, <2>4, <4>1
    <3> QED
      BY <3>1, <3>2, <3>3, <3>4
  <2>6. CASE ~AdminHolds
    <3>1. PICK q \in Requests : WillCheck(req[q]) /\ (req[q].touched \/ GivesBack(req[q]))
      BY <1>2, <2>6
    <3>2. q # r
      BY <2>2, <3>1
    <3> QED
      BY <1>3, <1>4, <2>4, <3>1, <3>2
  <2> QED
    BY <2>5, <2>6
<1>6. CASE RollBack(r)
  <2>1. req[r].at = "restore" /\ ~req[r].touched /\ Commit(r, Idle, Merged(r), Undone(req[r]))
    BY <1>1, <1>6 DEF RollBack, Undone
  <2>2. WillCheck(req[r])
    BY <2>1, AtSave DEF Serving, WillCheck, Windows
  <2>3. AdminHolds' <=> GivesBack(req[r])
    BY <2>1 DEF Commit, AdminHolds, GivesBack
  <2>4. ~WillCheck(req[r])'
    <3>1. req'[r] = Idle
      BY <2>1, Commits
    <3> QED
      BY <3>1 DEF WillCheck, Windows, Idle
  <2>5. CASE AdminHolds
    BY <1>2, <1>3, <2>1, <2>2, <2>3, <2>4, <2>5
  <2>6. CASE ~AdminHolds
    <3>1. PICK q \in Requests : WillCheck(req[q]) /\ (req[q].touched \/ GivesBack(req[q]))
      BY <1>2, <2>6
    <3>2. CASE q = r
      BY <1>3, <2>1, <2>3, <2>4, <3>1, <3>2
    <3>3. CASE q # r
      BY <1>3, <1>4, <2>4, <3>1, <3>3
    <3> QED
      BY <3>2, <3>3
  <2> QED
    BY <2>5, <2>6
<1> QED
  BY <1>5, <1>6

LEMMA LockStays == Typed /\ LockInv /\ [Next]_vars => LockInv'
<1> SUFFICES ASSUME Typed, LockInv, [Next]_vars PROVE LockInv'
  OBVIOUS
<1> USE DEF tables, history
<1>0. DOMAIN req = Requests
  BY DEF Typed
<1>1. ASSUME NEW r \in Requests, NEW c \in Calls, Begin(r, c) PROVE LockInv'
  <2>1. req'[r].at \in {"load", "session"} /\ req[r].at = "idle"
    BY <1>0, <1>1 DEF Begin, Idle
  <2> QED
    BY <1>0, <1>1, <2>1, LockSame DEF Begin, Excused, WillCheck, Windows
<1>2. ASSUME NEW r \in Requests, NEW c \in SignIns, Authenticate(r, c) PROVE LockInv'
  <2>1. req'[r].at \in {"enter", "create"} /\ req[r].at = "idle"
    BY <1>0, <1>2 DEF Authenticate, Idle
  <2>2. \A q \in Requests \ {r} : req'[q] = req[q]
    BY <1>0, <1>2 DEF Authenticate
  <2> QED
    BY <1>2, <2>1, <2>2, LockSame DEF Authenticate, Excused, WillCheck, Windows
<1>a. ASSUME NEW r \in Requests, NEW at2, req[r].at # "idle", req'[r] = Advance(r, at2)
      PROVE  /\ req'[r].at = at2 /\ req'[r].call = req[r].call
             /\ Serving(req[r], DOMAIN user) =>
                  /\ req'[r].copy = req[r].copy /\ req'[r].touched = req[r].touched
                  /\ req'[r].took = req[r].took
  <2>1. "at" \in DOMAIN req[r] /\ "call" \in DOMAIN req[r]
    BY <1>a DEF Typed, RequestOK, SigningIn, Serving
  <2> QED
    BY <1>a, <2>1 DEF Advance, Serving
<1>3. ASSUME NEW r \in Requests, CacheUser(r) PROVE LockInv'
  <2>1. req[r].at = "session" /\ req'[r].at = "load"
    BY <1>0, <1>3, <1>a DEF CacheUser
  <2> QED
    BY <1>0, <1>3, <2>1, LockSame DEF CacheUser, Excused, WillCheck, Windows
<1>4. ASSUME NEW r \in Requests, Load(r) PROVE LockInv'
  <2>1. req[r].at = "load"
    BY <1>4 DEF Load
  <2>2. "at" \in DOMAIN req[r]
    BY <2>1 DEF Typed, RequestOK, SigningIn, Serving
  <2>3. req'[r].at \in {"idle", "save"}
    <3>1. CASE Finish(r)
      BY <1>0, <3>1 DEF Finish, Idle
    <3>2. CASE ~Finish(r)
      <4>1. req' = [req EXCEPT ![r] = [@ EXCEPT !.at = "save",
                                                !.rows = Restrict(user, LoadedUsers(req[r].call)),
                                                !.copy = Restrict(group, LoadedGroups(req[r].call))]]
        BY <1>4, <3>2 DEF Load
      <4>2. req'[r].at = "save"
        BY <1>0, <2>2, <4>1
      <4> QED
        BY <4>2
    <3> QED
      BY <3>1, <3>2
  <2>4. \A q \in Requests \ {r} : req'[q] = req[q]
    BY <1>0, <1>4 DEF Load, Finish
  <2> QED
    BY <1>4, <2>1, <2>3, <2>4, LockSame DEF Load, Excused, WillCheck, Windows
<1>5. ASSUME NEW r \in Requests, Reset(r) PROVE LockInv'
  <2>1. /\ req[r].at = "reset" /\ \A q \in Requests \ {r} : req'[q] = req[q]
        /\ req'[r] = IF req[r].call.op \in CheckedOps THEN Advance(r, "check") ELSE Idle
        /\ UNCHANGED <<group, raced, dropped, failed>>
    BY <1>0, <1>5 DEF Reset, CheckedOps
  <2>2. Serving(req[r], DOMAIN user)
    BY <2>1, AtSave DEF Windows
  <2>3. CASE req[r].call.op \in CheckedOps
    <3>1. /\ req'[r].at = "check" /\ req'[r].call = req[r].call
          /\ req'[r].copy = req[r].copy /\ req'[r].touched = req[r].touched
          /\ req'[r].took = req[r].took
      BY <1>a, <2>1, <2>2, <2>3
    <3> QED
      BY <2>1, <2>3, <3>1, LockSame DEF WillCheck, Excused, Windows
  <2>4. CASE req[r].call.op \notin CheckedOps
    <3>1. req'[r].at = "idle"
      BY <2>1, <2>4 DEF Idle
    <3> QED
      BY <2>1, <2>4, <3>1, LockSame DEF WillCheck, Excused, Windows
  <2> QED
    BY <2>3, <2>4
<1>6. ASSUME NEW r \in Requests, CheckForUserLockout(r) PROVE LockInv'
  <2>1. /\ req[r].at = "check" /\ \A q \in Requests \ {r} : req'[q] = req[q]
        /\ req'[r] = IF LockedOut(req[r].call.by) THEN Advance(r, "restore") ELSE Idle
        /\ UNCHANGED <<group, raced, dropped, failed>>
    BY <1>0, <1>6 DEF CheckForUserLockout
  <2>2. Serving(req[r], DOMAIN user)
    BY <2>1, AtSave DEF Windows
  <2>3. CASE LockedOut(req[r].call.by)
    <3>1. /\ req'[r].at = "restore" /\ req'[r].call = req[r].call
          /\ req'[r].copy = req[r].copy /\ req'[r].touched = req[r].touched
          /\ req'[r].took = req[r].took
      BY <1>a, <2>1, <2>2, <2>3
    <3> QED
      BY <2>1, <3>1, LockSame DEF WillCheck, Excused, Windows
  <2>4. CASE ~LockedOut(req[r].call.by)
    <3>1. req'[r].at = "idle" /\ AdminHolds
      BY <2>1, <2>4 DEF Idle, LockedOut
    <3> QED
      BY <2>1, <3>1, LockSame DEF WillCheck, Excused, Windows
  <2> QED
    BY <2>3, <2>4
<1>7. ASSUME NEW r \in Requests, Fault(r) PROVE LockInv'
  <2>1. Excused' /\ group' = group /\ raced' = raced
    BY <1>7 DEF Fault, Excused
  <2>2. ASSUME NEW q \in Requests, WillCheck(req[q])', ~raced'
        PROVE  req'[q].touched \/ Returns(req[q])'
    <3>1. req'[q] = req[q]
      BY <1>0, <1>7, <2>2 DEF Fault, Finish, Idle, WillCheck, Windows
    <3> QED
      BY <2>1, <2>2, <3>1 DEF LockInv, WillCheck, Returns, Undone, Rights
  <2> QED
    BY <2>1, <2>2 DEF LockInv
<1>8. ASSUME NEW r \in Requests, Enter(r) PROVE LockInv'
  <2>1. req[r].at = "enter" /\ req'[r].at = "idle" /\ \A q \in Requests \ {r} : req'[q] = req[q]
    BY <1>0, <1>8 DEF Enter, Finish, Idle
  <2> QED
    BY <1>8, <2>1, LockSame DEF Enter, Excused, WillCheck, Windows
<1>9. ASSUME UNCHANGED <<group, req, raced, dropped, failed>> PROVE LockInv'
  BY <1>9 DEF LockInv, Excused, AdminHolds, WillCheck, GivesBack, Returns, Rights, Undone
<1>10. ASSUME NEW u \in DOMAIN user, LogOut(u) \/ Expire(u) PROVE LockInv'
  BY <1>9, <1>10 DEF LogOut, Expire
<1>11. CASE UNCHANGED vars
  BY <1>9, <1>11 DEF vars
<1> QED
  BY <1>1, <1>2, <1>3, <1>4, <1>5, <1>6, <1>7, <1>8, <1>10, <1>11, LockCommitted DEF Next

----------------------------------------------------------------------------
(* Accounts: what becomes of accounts and permissions *)

LEMMA DeletedStay ==
  ASSUME Typed, [Next]_vars, ~raced', NEW u \in DOMAIN user, user[u] = "deleted"
  PROVE  user'[u] = "deleted"
<1>1. CASE user' = user
  BY <1>1
<1>2. ASSUME NEW r \in Requests, req[r].at \in {"save"} \cup Windows, ~OldRows(r), user' = Merged(r)
      PROVE  user'[u] = "deleted"
  BY <1>2, Fresh
<1>3. ASSUME NEW r \in Requests, CreateUser(r) PROVE user'[u] = "deleted"
  BY <1>1, <1>3 DEF CreateUser, Commit, InsertUser, With, tables
<1>4. ASSUME NEW r \in Requests, PutUser(r) PROVE user'[u] = "deleted"
  BY <1>2, <1>4 DEF PutUser, Commit, At, OldCopy
<1>5. ASSUME NEW r \in Requests, DeleteUser(r) PROVE user'[u] = "deleted"
  BY <1>5 DEF DeleteUser, Commit, FlagAsDeleted
<1>6. ASSUME NEW r \in Requests, CreateGroup(r) PROVE user'[u] = "deleted"
  BY <1>1, <1>6 DEF CreateGroup, Commit, tables
<1>7. ASSUME NEW r \in Requests, PutGroup(r) PROVE user'[u] = "deleted"
  BY <1>2, <1>7 DEF PutGroup, Commit, At, OldCopy
<1>8. ASSUME NEW r \in Requests, DeleteGroup(r) PROVE user'[u] = "deleted"
  BY <1>1, <1>2, <1>8 DEF DeleteGroup, Commit, At, OldCopy, tables
<1>9. ASSUME NEW r \in Requests, AddMember(r) \/ RemoveMember(r) PROVE user'[u] = "deleted"
  BY <1>2, <1>9 DEF AddMember, RemoveMember, ChangeMembers, Commit, At, OldCopy
<1>10. ASSUME NEW r \in Requests, RollBack(r) PROVE user'[u] = "deleted"
  BY <1>2, <1>10 DEF RollBack, Commit, Windows
<1>11. ASSUME \/ \E r \in Requests : \/ \E c \in Calls : Begin(r, c)
                                     \/ \E c \in SignIns : Authenticate(r, c)
                                     \/ CacheUser(r) \/ Load(r) \/ Reset(r)
                                     \/ CheckForUserLockout(r) \/ Fault(r) \/ Enter(r)
              \/ \E v \in DOMAIN user : LogOut(v) \/ Expire(v)
              \/ UNCHANGED vars
       PROVE  user' = user
  BY <1>11 DEF Begin, Authenticate, CacheUser, Load, Reset, CheckForUserLockout, Fault, Enter,
               LogOut, Expire, vars, tables
<1> QED
  BY <1>1, <1>3, <1>4, <1>5, <1>6, <1>7, <1>8, <1>9, <1>10, <1>11 DEF Next, Change

\* Who has given somebody the administration of permissions: one who has it,
\* or a roll back, which returns what the change took.
LEMMA GivenByOwners ==
  ASSUME Typed, LockInv, \A r \in Requests : MayAdd(req[r]), [Next]_vars, ~raced',
         NEW u \in DOMAIN user, (Rights(u)' \ Rights(u)) \cap Delegating # {}
  PROVE  \E r \in Requests :
            /\ req'[r] # req[r]
            /\ \/ Permitted(req[r].me, "admin_permissions")
               \/ /\ req[r].at = "restore"
                  /\ {u} \X ((Rights(u)' \ Rights(u)) \cap Delegating) \subseteq req[r].took
<1>1. group' # group
  BY DEF Rights
<1>2. ASSUME \/ \E r \in Requests : \/ \E c \in Calls : Begin(r, c)
                                    \/ \E c \in SignIns : Authenticate(r, c)
                                    \/ CacheUser(r) \/ Load(r) \/ Reset(r)
                                    \/ CheckForUserLockout(r) \/ Fault(r) \/ Enter(r)
             \/ \E v \in DOMAIN user : LogOut(v) \/ Expire(v)
             \/ UNCHANGED vars
      PROVE  FALSE
  BY <1>1, <1>2 DEF Begin, Authenticate, CacheUser, Load, Reset, CheckForUserLockout, Fault, Enter,
                    LogOut, Expire, vars, tables
<1>3. ASSUME NEW r \in Requests, RollBack(r)
      PROVE  /\ req[r].at = "restore" /\ req'[r] # req[r]
             /\ \A f \in (Rights(u)' \ Rights(u)) \cap Delegating : <<u, f>> \in req[r].took
  <2>1. req[r].at = "restore" /\ ~req[r].touched /\ ~raced
        /\ Commit(r, Idle, Merged(r), Undone(req[r]))
    BY <1>3 DEF RollBack, Undone
  <2>2. WillCheck(req[r])
    BY <2>1, AtSave DEF Serving, WillCheck, Windows
  <2>3. Returns(req[r])
    BY <2>1, <2>2 DEF LockInv
  <2>4. Rights(u)' = RightsIn(Undone(req[r]), u)
    BY <2>1, Commits DEF Rights
  <2>5. req'[r] # req[r]
    BY <2>1, Commits DEF Idle
  <2> QED
    BY <2>1, <2>3, <2>4, <2>5 DEF Returns
<1>4. ASSUME NEW r \in Requests, Change(r)
      PROVE  req'[r] # req[r] /\ Permitted(req[r].me, "admin_permissions")
  <2>0. PICK flag \in Delegating : flag \in Rights(u)' /\ flag \notin Rights(u)
    OBVIOUS
  <2>1. ASSUME NEW groups, NEW users, req[r].at = "save",
               Commit(r, Changed(r, groups), users, groups) \/ Commit(r, Idle, users, groups)
        PROVE  req'[r] # req[r]
    BY <2>1, Commits, ChangedIs DEF Idle
  <2>2. \/ At(r, "save", "putGroup") /\ SetsPermissions(req[r])
        \/ /\ At(r, "save", "addMember")
           /\ Rights(u)' \subseteq Rights(u) \cup req[r].copy[req[r].call.group].perms
    BY <1>4, <2>0, RightsChange
  <2>3. CASE At(r, "save", "putGroup") /\ SetsPermissions(req[r])
    <3>1. PutGroup(r)
      BY <1>4, <2>3 DEF Change, CreateUser, PutUser, DeleteUser, CreateGroup, DeleteGroup,
                        AddMember, RemoveMember, ChangeMembers, At
    <3>2. req'[r] # req[r]
      BY <2>1, <2>3, <3>1 DEF PutGroup, At
    <3> QED
      BY <2>3, <3>2 DEF SetsPermissions
  <2>4. CASE /\ At(r, "save", "addMember")
             /\ Rights(u)' \subseteq Rights(u) \cup req[r].copy[req[r].call.group].perms
    <3>1. AddMember(r)
      BY <1>4, <2>4 DEF Change, CreateUser, PutUser, DeleteUser, CreateGroup, PutGroup, DeleteGroup,
                        RemoveMember, ChangeMembers, At
    <3>2. req'[r] # req[r]
      BY <2>1, <2>4, <3>1 DEF AddMember, ChangeMembers, At
    <3>3. Permitted(req[r].me, "admin_permissions")
      BY <2>0, <2>4 DEF MayAdd, At, Delegating
    <3> QED
      BY <3>2, <3>3
  <2> QED
    BY <2>2, <2>3, <2>4
<1> QED
  BY <1>2, <1>3, <1>4 DEF Next

----------------------------------------------------------------------------
(* Accounts: the theorems *)

\* What holds of the accounts, the sessions and the requests in progress, for
\* any accounts, groups, calls and number of requests at a time.
THEOREM Invariant == Spec => []IInv
<1>1. Init => IInv
  <2> SUFFICES ASSUME Init PROVE IInv
    OBVIOUS
  <2>1. Typed
    BY TypesStart
  <2>2. \A r \in Requests : req[r] = Idle
    BY DEF Init
  <2>3. SessionInv
    BY StartAssumption DEF Init, SessionInv, Restrict
  <2>4. AdminHolds
    <3>1. PICK local \in StartGroups :
            group = With(With(local, Everyone, [type |-> "system", perms |-> {}, users |-> StartUsers]),
                         Administrators, [type |-> "system", perms |-> Flags, users |-> StartAdmins])
      BY DEF Init
    <3>2. Administrators \in DOMAIN group /\ Admin \in group[Administrators].users
          /\ group[Administrators].perms = Flags
      BY <3>1, StartAssumption DEF With
    <3>3. Flags \subseteq Rights(Admin)
      BY <3>2, RightsAre DEF Rights
    <3> QED
      BY <3>3 DEF AdminHolds, HoldsIn, Rights, Permitted, Flags
  <2> QED
    BY <2>1, <2>2, <2>3, <2>4 DEF IInv, LockInv, MayAdd, WillCheck, Windows, Idle
<1>2. IInv /\ [Next]_vars => IInv'
  <2> SUFFICES ASSUME IInv, [Next]_vars PROVE IInv'
    OBVIOUS
  <2>1. Typed' /\ SessionInv' /\ LockInv' /\ \A r \in Requests : MayAdd(req[r])'
    BY TypesStay, SessionsStay, LockStays, AddingKept DEF IInv
  <2> QED
    BY <2>1 DEF IInv
<1> QED
  BY <1>1, <1>2, PTL DEF Spec

\* The tables keep their types: groups have accounts as members, sessions and
\* cached users belong to accounts, and the system's two groups stay.
THEOREM TypeCorrect == Spec => []TypeOK
<1>1. IInv => TypeOK
  BY DEF IInv, Typed, TablesOK, SessionsOK, RowsOK, CopyOK, SystemGroups, Accountable, TypeOK
<1> QED
  BY <1>1, Invariant, PTL

\* The lock-out check works for any number of requests at a time: without an
\* overwritten change, a deleted group or a failure the administrator has his
\* rights whenever no change is waiting for its check.
THEOREM LockoutExplained == Spec => []LockoutHasAReason
<1>1. IInv => LockoutHasAReason
  BY DEF IInv, LockInv, LockoutHasAReason, WillCheck, Excused
<1> QED
  BY <1>1, Invariant, PTL

\* What the sessions have cached is what the tables give, once the resets
\* are done, but for the named exceptions.
THEOREM SessionsUpToDate == Spec => []SessionsHaveTheRights
<1>1. IInv => SessionsHaveTheRights
  BY DEF IInv, SessionInv, SessionsHaveTheRights
<1> QED
  BY <1>1, Invariant, PTL

\* No sequence of calls brings a deleted account back, but a merge of what
\* was loaded before.
THEOREM DeletedForGood == Spec => DeletedStaysDeleted
<1> DEFINE Stays == \A u \in DOMAIN user : user[u] = "deleted" => user'[u] = "deleted" \/ raced'
<1>1. IInv /\ [Next]_vars => [Stays]_vars
  BY DeletedStay DEF IInv
<1>2. Spec => [][Stays]_vars
  BY <1>1, Invariant, PTL DEF Spec
<1> QED
  BY <1>2 DEF DeletedStaysDeleted

\* The administration of permissions is given by those who have it, and a roll
\* back returns no more than the change took, for any accounts and groups.
THEOREM OwnersGive == Spec => RightsComeFromTheirOwners
<1> DEFINE Given ==
      \A u \in DOMAIN user \cap DOMAIN user' :
         LET gained == (Rights(u)' \ Rights(u)) \cap Delegating
         IN  gained # {}
               => \/ raced'
                  \/ \E r \in Requests :
                        /\ req'[r] # req[r]
                        /\ \/ Permitted(req[r].me, "admin_permissions")
                           \/ req[r].at = "restore" /\ {u} \X gained \subseteq req[r].took
<1>1. IInv /\ [Next]_vars => [Given]_vars
  BY GivenByOwners DEF IInv
<1>2. Spec => [][Given]_vars
  BY <1>1, Invariant, PTL DEF Spec
<1> QED
  BY <1>2 DEF RightsComeFromTheirOwners

----------------------------------------------------------------------------
(* Access rules: the search for a record *)

\* Group g has no record from position a up to before b.
Nothing(g, a, b) == \A m \in a..(b - 1) : perm[g][m] = NoRecord

\* The search of a group over, its value is what the group inherits, if any.
LEMMA SearchFinds ==
  ASSUME NEW g, NEW a \in Line, NEW b \in Line, depth \in Nat \ {0}, a <= b,
         Nothing(g, a, b), perm[g][b] # NoRecord \/ b = depth
  PROVE  /\ perm[g][b] # NoRecord => Inherits(g, a, perm[g][b])
         /\ \A w : Inherits(g, a, w) => w = perm[g][b]
<1> USE DEF Line, Nothing
<1>1. ASSUME perm[g][b] # NoRecord PROVE Inherits(g, a, perm[g][b])
  <2>1. b \in a..depth
    OBVIOUS
  <2> QED
    BY <1>1, <2>1 DEF Inherits
<1>2. ASSUME NEW w, Inherits(g, a, w) PROVE w = perm[g][b]
  <2>1. w # NoRecord
    BY <1>2 DEF Inherits
  <2>2. PICK n \in a..depth : perm[g][n] = w /\ \A m \in a..(n - 1) : perm[g][m] = NoRecord
    BY <1>2 DEF Inherits
  <2>3. ~(n < b)
    BY <2>1, <2>2
  <2>4. ~(b < n)
    BY <2>2
  <2> QED
    BY <2>2, <2>3, <2>4
<1> QED
  BY <1>1, <1>2

\* Taking a group in: the greater of the highest level and its own.
LEMMA HighestGrows ==
  ASSUME NEW g, NEW G, NEW a \in Line, NEW b \in Line, depth \in Nat \ {0}, a <= b,
         Nothing(g, a, b), perm[g][b] # NoRecord \/ b = depth,
         perm[g][b] \in Levels \cup {NoRecord}, NEW x \in Levels, IsHighest(x, G, a)
  PROVE  /\ Greater(perm[g][b], x) \in Levels
         /\ IsHighest(Greater(perm[g][b], x), G \cup {g}, a)
<1> DEFINE v == perm[g][b]
           y == Greater(v, x)
<1>1. /\ v # NoRecord => Inherits(g, a, v)
      /\ \A w : Inherits(g, a, w) => w = v
  BY SearchFinds
<1>2. y \in Levels /\ y >= x /\ y >= v /\ y \in {x, v} /\ (y = v => y = x \/ v # NoRecord)
  BY DEF Greater, Levels, AccessAll, NoRecord
<1>3. y = 0 \/ \E h \in G \cup {g} : Inherits(h, a, y)
  <2>1. CASE y = x
    BY <2>1 DEF IsHighest
  <2>2. CASE y = v /\ v # NoRecord
    BY <1>1, <2>2
  <2> QED
    BY <1>2, <2>1, <2>2
<1>4. ASSUME NEW h \in G \cup {g}, NEW w \in Levels, Inherits(h, a, w) PROVE w <= y
  <2>1. CASE h = g
    BY <1>1, <1>2, <1>4, <2>1
  <2>2. CASE h \in G
    <3>1. w <= x
      BY <1>4, <2>2 DEF IsHighest
    <3> QED
      BY <1>2, <3>1 DEF Levels, AccessAll
  <2> QED
    BY <2>1, <2>2
<1> QED
  BY <1>2, <1>3, <1>4 DEF IsHighest

\* Of no groups, 0 is the highest level.
LEMMA HighestOfNone == ASSUME NEW a PROVE IsHighest(0, {}, a)
BY DEF IsHighest

\* Of one group alone.
LEMMA HighestOfOne ==
  ASSUME NEW g, NEW a \in Line, NEW b \in Line, depth \in Nat \ {0}, a <= b,
         Nothing(g, a, b), perm[g][b] # NoRecord \/ b = depth,
         perm[g][b] \in Levels \cup {NoRecord}
  PROVE  /\ Greater(perm[g][b], 0) \in Levels
         /\ IsHighest(Greater(perm[g][b], 0), {g}, a)
<1>1. IsHighest(0, {}, a) /\ 0 \in Levels
  BY HighestOfNone DEF Levels, AccessAll
<1>2. /\ Greater(perm[g][b], 0) \in Levels
      /\ IsHighest(Greater(perm[g][b], 0), {} \cup {g}, a)
  BY <1>1, HighestGrows
<1>3. {} \cup {g} = {g}
  OBVIOUS
<1> QED
  BY <1>2, <1>3

\* Of the groups of two sets.
LEMMA HighestOfBoth ==
  ASSUME NEW G, NEW H, NEW a, NEW x \in Levels, NEW y \in Levels,
         IsHighest(x, G, a), IsHighest(y, H, a)
  PROVE  Greater(x, y) \in Levels /\ IsHighest(Greater(x, y), H \cup G, a)
<1> DEFINE z == Greater(x, y)
<1>1. z \in Levels /\ z \in {x, y} /\ z >= x /\ z >= y
  BY DEF Greater, Levels, AccessAll
<1>2. z = 0 \/ \E h \in H \cup G : Inherits(h, a, z)
  BY <1>1 DEF IsHighest
<1>3. ASSUME NEW h \in H \cup G, NEW w \in Levels, Inherits(h, a, w) PROVE w <= z
  <2>1. w <= x \/ w <= y
    BY <1>3 DEF IsHighest
  <2> QED
    BY <1>1, <2>1 DEF Levels, AccessAll
<1> QED
  BY <1>1, <1>2, <1>3 DEF IsHighest

\* Full access is the highest level if one group inherits it.
LEMMA FullIsHighest ==
  ASSUME NEW G, NEW H, NEW a, G \subseteq H, IsHighest(AccessAll, G, a)
  PROVE  IsHighest(AccessAll, H, a)
<1>1. AccessAll # 0 /\ \A w \in Levels : w <= AccessAll
  BY DEF AccessAll, Levels
<1>2. \E g \in H : Inherits(g, a, AccessAll)
  BY <1>1 DEF IsHighest
<1> QED
  BY <1>1, <1>2 DEF IsHighest

\* There is one highest level.
LEMMA HighestIsOne ==
  ASSUME NEW G, NEW a, NEW x \in Levels, NEW y \in Levels,
         IsHighest(x, G, a), IsHighest(y, G, a)
  PROVE  x = y
<1>1. x <= y
  BY DEF IsHighest, Levels, AccessAll
<1>2. y <= x
  BY DEF IsHighest, Levels, AccessAll
<1> QED
  BY <1>1, <1>2 DEF Levels, AccessAll

----------------------------------------------------------------------------
(* Access rules: types, and what a step is at *)

Tracing     == {"tracePublic", "traceGroup", "check"}
Calculating == {"public", "group", "combine"}

\* What holds of a step whether or not the records are changed.
Place ==
    /\ depth \in known
    /\ 1 \in known => home = 1
    /\ pc = "granted" /\ IsFileAdmin => level = AccessAll
    /\ pc \in Tracing => tracing
    /\ pc \in {"tracePublic", "descend", "public"} => sought = Public /\ todo = members
    /\ pc \in {"traceGroup", "group"} => sought \in members /\ sought \notin todo
    /\ pc \in Tracing \cup Calculating /\ tracing => 1 \in known /\ home = 1
    /\ pc \in Calculating \cup {"descend"} /\ ~tracing => ~IsFileAdmin
    /\ pc \in Tracing \cup Calculating \cup {"descend"} => home <= at
    /\ pc = "descend" => /\ 1 \notin known /\ ~tracing /\ home = at /\ kept = NoRecord
                         /\ home..depth \subseteq known /\ (depth > 1 => home > 1)

SInv == RulesTypeOK /\ Place /\ MissingFoldersInherit

\* The next group comes from those still to come.
LEMMA NextGroupKeeps ==
  ASSUME SInv, NEW step, NEW after, NextGroup(step, after)
  PROVE  /\ home' = home /\ home' \in Line /\ at' \in Line /\ sought' \in All
         /\ todo' \subseteq todo
         /\ \/ pc' = step /\ sought' \in todo /\ at' = home /\ todo' = todo \ {sought'}
            \/ pc' = after /\ todo = {} /\ UNCHANGED search
BY DEF NextGroup, SearchFor, search, SInv, RulesTypeOK

LEMMA Values == 0 \in Levels /\ AccessAll \in Levels /\ Public \in All
BY DEF Levels, AccessAll, All

LEMMA InitSound == RulesInit => SInv
<1> SUFFICES ASSUME RulesInit PROVE SInv
  OBVIOUS
<1>1. 1 \in Line /\ known \subseteq Line /\ depth \in known
  BY DEF RulesInit, Line
<1>2. RulesTypeOK
  BY <1>1, Values DEF RulesInit, RulesTypeOK, Resting
<1> QED
  BY <1>1, <1>2 DEF RulesInit, SInv, Place, MissingFoldersInherit, Resting, Tracing, Calculating

\* A question that is answered from the cache.
LEMMA FromCacheKeeps ==
  ASSUME SInv, NEW v \in Levels \cup {NoRecord}, NEW step \in Resting, FromCache(v, step),
         UNCHANGED <<data, traced>>, tracing' \in BOOLEAN, changed' \in BOOLEAN,
         step = "granted" => ~IsFileAdmin
  PROVE  SInv'
<1> USE DEF SInv, Resting, Tracing, Calculating
<1>1. /\ UNCHANGED <<depth, perm, known, members, traced, home, at, sought, todo, public, kept, aged>>
      /\ pc' = step /\ level' = v /\ v \in Levels
  BY DEF FromCache, data, search
<1>2. RulesTypeOK'
  BY <1>1 DEF RulesTypeOK, Line
<1>3. Place' /\ MissingFoldersInherit'
  BY <1>1 DEF Place, MissingFoldersInherit, IsFileAdmin
<1> QED
  BY <1>2, <1>3

\* A question for which the level is calculated.
LEMMA CalculatedKeeps ==
  ASSUME SInv, NEW v, Calculated(v),
         UNCHANGED <<data, traced>>, tracing' \in BOOLEAN, changed' \in BOOLEAN,
         tracing' => 1 \in known, ~tracing' => ~IsFileAdmin
  PROVE  SInv'
<1> USE DEF SInv, Resting, Tracing, Calculating
<1>1. 1 \in Line /\ depth \in Line /\ (1 \notin known => depth # 1) /\ depth..depth \subseteq known
  BY DEF RulesTypeOK, Place, Line
<1>2. /\ depth' = depth /\ perm' = perm /\ known' = known /\ members' = members /\ traced' = traced
      /\ level' = 0 /\ public' = 0 /\ todo' = members /\ sought' = Public
      /\ kept' = NoRecord /\ aged' = FALSE
  BY DEF Calculated, SearchFor, data
<1>3. CASE 1 \in known
  <2>1. pc' = "public" /\ home' = 1 /\ at' = 1
    BY <1>3 DEF Calculated, SearchFor
  <2>2. RulesTypeOK'
    BY <1>1, <1>2, <2>1, Values DEF RulesTypeOK, Line
  <2>3. Place' /\ MissingFoldersInherit'
    BY <1>1, <1>2, <1>3, <2>1 DEF RulesTypeOK, Place, MissingFoldersInherit, IsFileAdmin, Line
  <2> QED
    BY <2>2, <2>3
<1>4. CASE 1 \notin known
  <2>1. pc' = "descend" /\ home' = depth /\ at' = depth
    BY <1>4 DEF Calculated, SearchFor
  <2>2. RulesTypeOK'
    BY <1>1, <1>2, <2>1, Values DEF RulesTypeOK, Line
  <2>3. Place' /\ MissingFoldersInherit'
    BY <1>1, <1>2, <1>4, <2>1 DEF RulesTypeOK, Place, MissingFoldersInherit, IsFileAdmin, Line
  <2> QED
    BY <2>2, <2>3
<1> QED
  BY <1>3, <1>4

LEMMA NextSound == SInv /\ [RulesNext]_rulesVars => SInv'
<1> SUFFICES ASSUME SInv, [RulesNext]_rulesVars PROVE SInv'
  OBVIOUS
<1> USE DEF SInv, Resting, Tracing, Calculating
<1>1. CASE Ask
  <2>1. /\ depth' = depth /\ perm' = perm /\ known' = known /\ members' = members
        /\ tracing' = FALSE /\ changed' = FALSE /\ traced' = traced /\ UNCHANGED data
    BY <1>1 DEF Ask, data
  <2>2. CASE IsFileAdmin
    <3>1. pc' = "granted" /\ level' = AccessAll /\ UNCHANGED <<search, public, kept, aged>>
      BY <1>1, <2>2 DEF Ask
    <3> QED
      BY <2>1, <3>1, Values DEF RulesTypeOK, Place, MissingFoldersInherit, search, Line
  <2>3. CASE ~IsFileAdmin
    <3>1. PICK v \in Levels \cup {NoRecord} : FromCache(v, "granted") \/ Calculated(v)
      BY <1>1, <2>3 DEF Ask
    <3> QED
      BY <2>1, <2>3, <3>1, FromCacheKeeps, CalculatedKeeps
  <2> QED
    BY <2>2, <2>3
<1>2. CASE Up
  <2>1. at + 1 \in Line /\ home <= at + 1 /\ pc # "descend"
    BY <1>2 DEF Up, Searching, RulesTypeOK, Place, Line
  <2> QED
    BY <1>2, <2>1 DEF Up, data, results, RulesTypeOK, Place, MissingFoldersInherit, IsFileAdmin, Line, Searching
<1>3. CASE Descend
  <2>1. CASE at > 2 /\ at - 1 \in known
    <3>1. /\ at - 1 \in Line /\ (at - 1)..depth \subseteq known
      BY <1>3, <2>1 DEF Descend, RulesTypeOK, Place, Line
    <3>2. /\ UNCHANGED <<data, pc, tracing, todo, results, kept, changed, aged>>
          /\ sought' = Public /\ home' = at - 1 /\ at' = at - 1
      BY <1>3, <2>1 DEF Descend, SearchFor
    <3> QED
      BY <1>3, <2>1, <3>1, <3>2, Values
         DEF Descend, data, results, RulesTypeOK, Place, MissingFoldersInherit, IsFileAdmin, Line
  <2>2. CASE ~(at > 2 /\ at - 1 \in known)
    <3>1. pc' = "public" /\ UNCHANGED <<data, tracing, search, results, kept, changed, aged>>
      BY <1>3, <2>2 DEF Descend, search
    <3> QED
      BY <1>3, <2>2, <3>1
         DEF Descend, data, search, results, RulesTypeOK, Place, MissingFoldersInherit, IsFileAdmin, Line
  <2> QED
    BY <2>1, <2>2
<1>4. CASE CalcPublic
  <2>1. public' \in Levels
    BY <1>4 DEF CalcPublic, Greater, Levels, AccessAll, NoRecord
  <2>2. NextGroup("group", "combine")
    BY <1>4 DEF CalcPublic
  <2> QED
    BY <1>4, <2>1, <2>2, NextGroupKeeps
       DEF CalcPublic, data, search, RulesTypeOK, Place, MissingFoldersInherit, IsFileAdmin, Line
<1>5. CASE CalcGroup
  <2>1. level' \in Levels
    BY <1>5 DEF CalcGroup, Greater, Levels, AccessAll, NoRecord, RulesTypeOK
  <2>2. \/ pc' = "combine" /\ UNCHANGED search
        \/ NextGroup("group", "combine")
    BY <1>5 DEF CalcGroup
  <2> QED
    BY <1>5, <2>1, <2>2, NextGroupKeeps
       DEF CalcGroup, data, search, RulesTypeOK, Place, MissingFoldersInherit, IsFileAdmin, Line
<1>6. CASE Combine
  <2>1. level' \in Levels /\ kept' \in Levels
    BY <1>6 DEF Combine, Greater, RulesTypeOK
  <2>2. /\ pc' \in {"granted", "agreed", "mismatch"}
        /\ pc' = "granted" => ~tracing /\ ~IsFileAdmin /\ ~IsFileAdmin'
    BY <1>6 DEF Combine, Verdict, Place, IsFileAdmin, data
  <2> QED
    BY <1>6, <2>1, <2>2 DEF Combine, data, search, RulesTypeOK, Place, MissingFoldersInherit, Line
<1>7. CASE Trace
  <2>1. 1 \in Line
    BY DEF RulesTypeOK, Line
  <2>2. /\ UNCHANGED <<depth, perm, known, members, public, level, kept, aged>> /\ 1 \in known
        /\ tracing' = TRUE /\ changed' = FALSE /\ pc' = "tracePublic" /\ traced' = 0
        /\ todo' = members /\ sought' = Public /\ home' = 1 /\ at' = 1
    BY <1>7 DEF Trace, data, SearchFor
  <2>3. RulesTypeOK'
    BY <2>1, <2>2, Values DEF RulesTypeOK, Line
  <2>4. Place' /\ MissingFoldersInherit'
    BY <2>2 DEF Place, MissingFoldersInherit
  <2> QED
    BY <2>3, <2>4
<1>8. CASE TracePublic
  <2>1. traced' \in Levels
    BY <1>8 DEF TracePublic, Greater, Levels, AccessAll, NoRecord
  <2>2. NextGroup("traceGroup", "check")
    BY <1>8 DEF TracePublic
  <2> QED
    BY <1>8, <2>1, <2>2, NextGroupKeeps
       DEF TracePublic, data, search, RulesTypeOK, Place, MissingFoldersInherit, IsFileAdmin, Line
<1>9. CASE TraceGroup
  <2>1. traced' \in Levels
    BY <1>9 DEF TraceGroup, Greater, Levels, NoRecord, AccessAll, RulesTypeOK
  <2>2. NextGroup("traceGroup", "check")
    BY <1>9 DEF TraceGroup
  <2> QED
    BY <1>9, <2>1, <2>2, NextGroupKeeps
       DEF TraceGroup, data, search, RulesTypeOK, Place, MissingFoldersInherit, IsFileAdmin, Line
<1>10. CASE Check
  <2>1. /\ UNCHANGED <<data, traced>> /\ tracing' = tracing /\ changed' = changed
        /\ tracing /\ 1 \in known
    BY <1>10 DEF Check, Place
  <2>2. tracing' \in BOOLEAN /\ changed' \in BOOLEAN
    BY <2>1 DEF RulesTypeOK
  <2>3. PICK v \in Levels \cup {NoRecord} : FromCache(v, Verdict(v)) \/ Calculated(v)
    BY <1>10 DEF Check
  <2>4. Verdict(v) \in Resting /\ Verdict(v) # "granted"
    BY DEF Verdict
  <2> QED
    BY <2>1, <2>2, <2>3, <2>4, FromCacheKeeps, CalculatedKeeps
<1>11. ASSUME NEW g \in All, NEW d \in Line, NEW v \in Levels \cup {NoRecord}, SetPermission(g, d, v)
       PROVE SInv'
  <2>1. perm' \in [All -> [Line -> Levels \cup {NoRecord}]]
    BY <1>11 DEF SetPermission, RulesTypeOK
  <2>2. UNCHANGED <<depth, known, members, pc, tracing, search, results, kept>> /\ changed' = TRUE /\ aged' = TRUE
    BY <1>11 DEF SetPermission
  <2> QED
    BY <2>1, <2>2 DEF search, results, RulesTypeOK, Place, MissingFoldersInherit, IsFileAdmin, Line
<1>12. CASE UNCHANGED rulesVars
  BY <1>12 DEF rulesVars, data, search, results, RulesTypeOK, Place, MissingFoldersInherit, IsFileAdmin, Line
<1> QED
  BY <1>1, <1>2, <1>3, <1>4, <1>5, <1>6, <1>7, <1>8, <1>9, <1>10, <1>11, <1>12 DEF RulesNext

----------------------------------------------------------------------------
(* Access rules: what has been found, as long as no record is changed *)

\* The level that a trace has for the groups G and the public one.
TracedIs(x, G) == IF G \cap FileAdmins # {} THEN x = AccessAll
                  ELSE IsHighest(x, G \cup {Public}, 1)

Done == members \ (todo \cup {sought})

\* A calculation, the answer of one, and the level that is cached.
CalcFound ==
    /\ pc \in {"public", "group"} => Nothing(sought, home, at)
    /\ pc \in {"descend", "public"} => level = 0
    /\ pc \in {"group", "combine"} => IsHighest(public, {Public}, home)
    /\ pc = "group" => IsHighest(level, Done, home)
    /\ pc = "combine" => IsHighest(level, members, home)
    /\ pc = "granted" /\ ~IsFileAdmin => IsHighest(level, members \cup {Public}, home)
    /\ kept # NoRecord => IsHighest(kept, members \cup {Public}, home)

\* A trace, whose result is compared at the end.
TraceFound ==
    /\ pc \in {"tracePublic", "traceGroup"} => Nothing(sought, home, at)
    /\ pc = "traceGroup" => TracedIs(traced, Done)
    /\ pc \in Calculating \cup {"check"} /\ tracing => TracedIs(traced, members)

\* The inductive invariant.
RulesInv ==
    /\ SInv
    /\ ~aged => CalcFound
    /\ ~changed => TraceFound
    /\ TraceAgrees

\* What is highest depends on the records only.
LEMMA SameRecords ==
  ASSUME perm' = perm, depth' = depth
  PROVE  /\ \A x, G, d : IsHighest(x, G, d)' = IsHighest(x, G, d)
         /\ \A g, a, b : Nothing(g, a, b)' = Nothing(g, a, b)
BY DEF IsHighest, Inherits, Nothing

\* A search that ends has the records of its group behind it.
LEMMA SearchEnds ==
  ASSUME SInv, Nothing(sought, home, at), Searching, NEW v, Found(v)
  PROVE  /\ sought \in All /\ home \in Line /\ at \in Line /\ home <= at /\ depth \in Nat \ {0}
         /\ v = perm[sought][at] /\ v \in Levels \cup {NoRecord}
         /\ perm[sought][at] # NoRecord \/ at = depth
         /\ Nothing(sought, home, at)
BY DEF SInv, RulesTypeOK, Place, Searching, Found, Tracing, Calculating

\* A search that starts has nothing behind it.
LEMMA SearchStarts == home' \in Int /\ at' = home' => Nothing(sought, home, at)'
<1>1. \A i \in Int : i..(i - 1) = {}
  OBVIOUS
<1>2. ASSUME home' \in Int, at' = home' PROVE home'..(at' - 1) = {}
  BY <1>1, <1>2
<1> QED
  BY <1>2 DEF Nothing

LEMMA InitFound == RulesInit => CalcFound /\ TraceFound /\ TraceAgrees
BY DEF RulesInit, CalcFound, TraceFound, TraceAgrees, Resting, Calculating

\* A calculation that starts, and an answer from the cache.
LEMMA Begun ==
  ASSUME SInv, ~aged => CalcFound, UNCHANGED data, ~aged',
         NEW v \in Levels \cup {NoRecord}, LookUp(v), NEW step \in Resting,
         FromCache(v, step) \/ Calculated(v), home' \in Int
  PROVE  CalcFound'
<1>1. /\ depth' = depth /\ perm' = perm /\ known' = known /\ members' = members
  BY DEF data
<1>2. CASE FromCache(v, step)
  <2>1. /\ pc' \in Resting /\ level' = v /\ kept' = kept /\ home' = home /\ v = kept /\ kept # NoRecord
        /\ IsHighest(kept, members \cup {Public}, home)
    BY <1>2 DEF FromCache, LookUp, CalcFound, search
  <2> QED
    BY <1>1, <2>1, SameRecords DEF CalcFound, Resting
<1>3. CASE Calculated(v)
  <2>1. pc' \in {"public", "descend"} /\ level' = 0 /\ kept' = NoRecord /\ at' = home' /\ home' \in Int
    BY <1>3 DEF Calculated, SearchFor
  <2>2. Nothing(sought, home, at)'
    BY <2>1, SearchStarts
  <2> QED
    BY <2>1, <2>2 DEF CalcFound
<1> QED
  BY <1>2, <1>3

LEMMA NextCalculated == RulesInv /\ SInv' /\ [RulesNext]_rulesVars /\ ~aged' => CalcFound'
<1> SUFFICES ASSUME RulesInv, SInv', [RulesNext]_rulesVars, ~aged'
             PROVE  CalcFound'
  OBVIOUS
<1> USE DEF Calculating
<1>0. /\ SInv /\ RulesTypeOK /\ Place /\ home \in Int /\ home' \in Int
      /\ (~aged => CalcFound)
  BY DEF RulesInv, SInv, RulesTypeOK, Line
<1>1. CASE Ask
  <2>1. UNCHANGED data /\ IsFileAdmin' = IsFileAdmin
    BY <1>1 DEF Ask, data, IsFileAdmin
  <2>2. CASE IsFileAdmin
    <3>1. pc' = "granted" /\ ~aged /\ UNCHANGED <<home, kept, perm, depth, members>>
      BY <1>1, <2>1, <2>2 DEF Ask, search, data
    <3> QED
      BY <1>0, <2>1, <2>2, <3>1, SameRecords DEF CalcFound
  <2>3. CASE ~IsFileAdmin
    <3>1. PICK v \in Levels \cup {NoRecord} : LookUp(v) /\ (FromCache(v, "granted") \/ Calculated(v))
      BY <1>1, <2>3 DEF Ask
    <3> QED
      BY <1>0, <2>1, <3>1, Begun DEF Resting
  <2> QED
    BY <2>2, <2>3
<1>2. CASE Up
  <2>1. /\ Searching /\ perm[sought][at] = NoRecord /\ at' = at + 1 /\ CalcFound
        /\ UNCHANGED <<depth, perm, known, members, pc, home, sought, todo, public, level, kept>>
    BY <1>0, <1>2 DEF Up, data, results
  <2>2. home \in Int /\ at \in Int
    BY <1>0 DEF RulesTypeOK, Line
  <2>3. pc \in {"public", "group"} => Nothing(sought, home, at)'
    BY <2>1, <2>2 DEF Nothing, CalcFound
  <2> QED
    BY <2>1, <2>3, SameRecords DEF CalcFound, Searching, Done
<1>3. CASE Descend
  <2>1. /\ pc = "descend" /\ CalcFound /\ home = at /\ kept = NoRecord /\ kept' = kept
        /\ pc' \in {"descend", "public"} /\ level' = level /\ home' = at'
    BY <1>0, <1>3 DEF Descend, results, SearchFor, Place
  <2>2. Nothing(sought, home, at)'
    BY <1>0, <2>1, SearchStarts
  <2> QED
    BY <2>1, <2>2 DEF CalcFound
<1>4. CASE CalcPublic
  <2>1. /\ pc = "public" /\ Searching /\ CalcFound /\ NextGroup("group", "combine")
        /\ UNCHANGED <<depth, perm, known, members, level, kept>>
    BY <1>0, <1>4 DEF CalcPublic, data, Searching
  <2>2. PICK v \in Levels \cup {NoRecord} : Found(v) /\ public' = Greater(v, 0)
    BY <1>4 DEF CalcPublic
  <2>3. sought = Public /\ todo = members
    BY <1>0, <2>1 DEF Place
  <2>4. IsHighest(public', {Public}, home)
    BY <1>0, <2>1, <2>2, <2>3, SearchEnds, HighestOfOne DEF CalcFound
  <2>5. level' = 0 /\ IsHighest(level', {}, home)
    BY <2>1, HighestOfNone DEF CalcFound
  <2>7. /\ IsHighest(public, {Public}, home)' /\ IsHighest(level, {}, home)' /\ home' = home
        /\ kept' # NoRecord => IsHighest(kept, members \cup {Public}, home)'
    BY <1>0, <2>1, <2>4, <2>5, SameRecords, NextGroupKeeps DEF CalcFound
  <2>8. CASE pc' = "group" /\ sought' \in todo /\ at' = home /\ todo' = todo \ {sought'}
    <3>1. Done' = {}
      BY <2>1, <2>3, <2>8 DEF Done
    <3>2. Nothing(sought, home, at)'
      BY <1>0, <2>7, <2>8 DEF Nothing
    <3> QED
      BY <2>7, <2>8, <3>1, <3>2 DEF CalcFound
  <2>9. CASE pc' = "combine" /\ todo = {}
    <3>1. members' = {}
      BY <2>1, <2>3, <2>9
    <3> QED
      BY <2>7, <2>9, <3>1 DEF CalcFound
  <2> QED
    BY <1>0, <2>1, <2>8, <2>9, NextGroupKeeps
<1>5. CASE CalcGroup
  <2>1. /\ pc = "group" /\ Searching /\ CalcFound
        /\ UNCHANGED <<depth, perm, known, members, public, kept>>
    BY <1>0, <1>5 DEF CalcGroup, data, Searching
  <2>2. PICK v \in Levels \cup {NoRecord} : Found(v) /\ level' = Greater(v, level)
    BY <1>5 DEF CalcGroup
  <2>3. sought \in members /\ sought \notin todo /\ level \in Levels /\ todo \subseteq members
    BY <1>0, <2>1 DEF Place, RulesTypeOK
  <2>4. level' \in Levels /\ IsHighest(level', Done \cup {sought}, home)
    BY <1>0, <2>1, <2>2, <2>3, SearchEnds, HighestGrows DEF CalcFound
  <2>5. \/ level' = AccessAll /\ pc' = "combine" /\ UNCHANGED search
        \/ NextGroup("group", "combine")
    BY <1>5 DEF CalcGroup
  <2>6. /\ home' = home /\ IsHighest(public, {Public}, home)'
        /\ kept' # NoRecord => IsHighest(kept, members \cup {Public}, home)'
    <3>1. home' = home
      BY <1>0, <2>5, NextGroupKeeps DEF search
    <3> QED
      BY <2>1, <3>1, SameRecords DEF CalcFound
  <2>8. CASE pc' = "group" /\ sought' \in todo /\ at' = home /\ todo' = todo \ {sought'}
    <3>1. Done' = Done \cup {sought}
      BY <2>1, <2>3, <2>8 DEF Done
    <3>2. Nothing(sought, home, at)'
      BY <1>0, <2>6, <2>8 DEF Nothing
    <3>3. IsHighest(level, Done, home)'
      BY <2>1, <2>4, <2>6, <3>1, SameRecords
    <3> QED
      BY <2>6, <2>8, <3>2, <3>3 DEF CalcFound
  <2>9. CASE pc' = "combine"
    <3>1. IsHighest(level', members, home)
      <4>1. CASE level' = AccessAll
        <5>1. Done \cup {sought} \subseteq members
          BY <2>3 DEF Done
        <5> QED
          BY <2>4, <4>1, <5>1, FullIsHighest
      <4>2. CASE todo = {}
        <5>1. Done \cup {sought} = members
          BY <2>3, <4>2 DEF Done
        <5> QED
          BY <2>4, <5>1
      <4> QED
        BY <1>0, <2>5, <2>9, <4>1, <4>2, NextGroupKeeps
    <3>2. IsHighest(level, members, home)'
      BY <2>1, <2>6, <3>1, SameRecords
    <3> QED
      BY <2>6, <2>9, <3>2 DEF CalcFound
  <2> QED
    BY <1>0, <2>5, <2>8, <2>9, NextGroupKeeps
<1>6. CASE Combine
  <2>1. /\ pc = "combine" /\ CalcFound /\ level' = Greater(public, level) /\ kept' = level'
        /\ UNCHANGED <<depth, perm, members, home>>
    BY <1>0, <1>6 DEF Combine, data, search
  <2>2. level' \in Levels /\ IsHighest(level', members \cup {Public}, home)
    BY <1>0, <2>1, HighestOfBoth DEF CalcFound, RulesTypeOK
  <2>3. IsHighest(level, members \cup {Public}, home)' /\ IsHighest(kept, members \cup {Public}, home)'
    BY <2>1, <2>2, SameRecords
  <2>4. pc' \in {"granted", "agreed", "mismatch"}
    BY <1>6 DEF Combine, Verdict
  <2> QED
    BY <2>3, <2>4 DEF CalcFound
<1>7. CASE Trace \/ TracePublic \/ TraceGroup
  <2>1. /\ UNCHANGED <<depth, perm, members, kept>> /\ CalcFound
        /\ pc' \in Tracing
    BY <1>0, <1>7 DEF Trace, TracePublic, TraceGroup, NextGroup, data, Tracing
  <2>2. home' = home
    <3>1. CASE Trace
      BY <1>0, <3>1 DEF Trace, SearchFor, Place
    <3>2. CASE TracePublic \/ TraceGroup
      BY <1>0, <3>2, NextGroupKeeps DEF TracePublic, TraceGroup
    <3> QED
      BY <1>7, <3>1, <3>2
  <2> QED
    BY <2>1, <2>2, SameRecords DEF CalcFound, Tracing
<1>8. CASE Check
  <2>1. PICK v \in Levels \cup {NoRecord} : LookUp(v) /\ (FromCache(v, Verdict(v)) \/ Calculated(v))
    BY <1>8 DEF Check
  <2>2. Verdict(v) \in Resting
    BY DEF Verdict, Resting
  <2>3. UNCHANGED data
    BY <1>8 DEF Check
  <2> QED
    BY <1>0, <2>1, <2>2, <2>3, Begun
<1>9. CASE \E g \in All, d \in Line, v \in Levels \cup {NoRecord} : SetPermission(g, d, v)
  BY <1>9 DEF SetPermission
<1>10. CASE UNCHANGED rulesVars
  <2>1. /\ UNCHANGED <<depth, perm, known, members, pc, tracing, home, at, sought, todo>>
        /\ UNCHANGED <<public, level, kept, aged>>
    BY <1>10 DEF rulesVars, data, search, results
  <2> QED
    BY <1>0, <2>1, SameRecords DEF CalcFound, Done, IsFileAdmin
<1> QED
  BY <1>1, <1>2, <1>3, <1>4, <1>5, <1>6, <1>7, <1>8, <1>9, <1>10 DEF RulesNext

LEMMA NextTraced == RulesInv /\ SInv' /\ [RulesNext]_rulesVars /\ ~changed' => TraceFound'
<1> SUFFICES ASSUME RulesInv, SInv', [RulesNext]_rulesVars, ~changed'
             PROVE  TraceFound'
  OBVIOUS
<1> USE DEF Calculating
<1>0. /\ SInv /\ RulesTypeOK /\ Place /\ home \in Int /\ home' \in Int
      /\ (~changed => TraceFound)
  BY DEF RulesInv, SInv, RulesTypeOK, Line
<1>1. CASE Ask
  <2>1. ~tracing' /\ pc' \in {"granted", "public", "descend"}
    BY <1>1 DEF Ask, FromCache, Calculated
  <2> QED
    BY <2>1 DEF TraceFound
<1>2. CASE Up
  <2>1. /\ Searching /\ perm[sought][at] = NoRecord /\ at' = at + 1 /\ TraceFound
        /\ UNCHANGED <<depth, perm, known, members, pc, tracing, home, sought, todo, traced>>
    BY <1>0, <1>2 DEF Up, data, results
  <2>2. home \in Int /\ at \in Int
    BY <1>0 DEF RulesTypeOK, Line
  <2>3. pc \in {"tracePublic", "traceGroup"} => Nothing(sought, home, at)'
    BY <2>1, <2>2 DEF Nothing, TraceFound
  <2> QED
    BY <2>1, <2>3, SameRecords DEF TraceFound, Searching, Done, TracedIs
<1>3. CASE Descend
  <2>1. ~tracing' /\ pc' \in {"descend", "public"}
    BY <1>0, <1>3 DEF Descend, Place
  <2> QED
    BY <2>1 DEF TraceFound
<1>4. CASE CalcPublic \/ CalcGroup
  <2>1. /\ pc \in Calculating /\ pc' \in Calculating /\ TraceFound
        /\ UNCHANGED <<depth, perm, members, tracing, traced>>
    BY <1>0, <1>4 DEF CalcPublic, CalcGroup, NextGroup, data
  <2> QED
    BY <2>1, SameRecords DEF TraceFound, TracedIs
<1>5. CASE Combine
  <2>1. pc' \in {"granted", "agreed", "mismatch"}
    BY <1>5 DEF Combine, Verdict
  <2> QED
    BY <2>1 DEF TraceFound
<1>7. CASE Trace
  <2>1. pc' = "tracePublic" /\ at' = home'
    BY <1>7 DEF Trace, SearchFor
  <2>2. Nothing(sought, home, at)'
    BY <1>0, <2>1, SearchStarts
  <2> QED
    BY <2>1, <2>2 DEF TraceFound
<1>8. CASE TracePublic
  <2>1. /\ pc = "tracePublic" /\ Searching /\ TraceFound /\ NextGroup("traceGroup", "check")
        /\ UNCHANGED <<depth, perm, known, members, tracing>>
    BY <1>0, <1>8 DEF TracePublic, data, Searching
  <2>2. PICK v \in Levels \cup {NoRecord} : Found(v) /\ traced' = Greater(v, 0)
    BY <1>8 DEF TracePublic
  <2>3. sought = Public /\ todo = members /\ home = 1
    BY <1>0, <2>1 DEF Place, Tracing
  <2>4. IsHighest(traced', {Public}, 1)
    BY <1>0, <2>1, <2>2, <2>3, SearchEnds, HighestOfOne DEF TraceFound
  <2>5. IsHighest(traced, {Public}, 1)'
    BY <2>1, <2>4, SameRecords
  <2>6. CASE pc' = "traceGroup" /\ sought' \in todo /\ at' = home /\ todo' = todo \ {sought'}
    <3>1. Done' = {}
      BY <2>1, <2>3, <2>6 DEF Done
    <3>2. Nothing(sought, home, at)'
      BY <1>0, <2>1, <2>6, NextGroupKeeps DEF Nothing
    <3>3. TracedIs(traced, Done)'
      <4>1. Done' \cup {Public} = {Public} /\ Done' \cap FileAdmins = {}
        BY <3>1
      <4> QED
        BY <2>5, <4>1 DEF TracedIs
    <3> QED
      BY <2>6, <3>2, <3>3 DEF TraceFound
  <2>7. CASE pc' = "check" /\ todo = {}
    <3>1. members' = {}
      BY <2>1, <2>3, <2>7
    <3>2. TracedIs(traced, members)'
      <4>1. members' \cup {Public} = {Public} /\ members' \cap FileAdmins = {}
        BY <3>1
      <4> QED
        BY <2>5, <4>1 DEF TracedIs
    <3> QED
      BY <2>7, <3>2 DEF TraceFound
  <2> QED
    BY <1>0, <2>1, <2>6, <2>7, NextGroupKeeps
<1>9. CASE TraceGroup
  <2>1. /\ pc = "traceGroup" /\ Searching /\ TraceFound /\ NextGroup("traceGroup", "check")
        /\ UNCHANGED <<depth, perm, known, members, tracing>>
    BY <1>0, <1>9 DEF TraceGroup, data, Searching
  <2>2. PICK v \in Levels \cup {NoRecord} :
          Found(v) /\ traced' = IF sought \in FileAdmins THEN AccessAll ELSE Greater(v, traced)
    BY <1>9 DEF TraceGroup
  <2>3. /\ sought \in members /\ sought \notin todo /\ traced \in Levels /\ todo \subseteq members
        /\ home = 1 /\ TracedIs(traced, Done)
    BY <1>0, <2>1 DEF Place, RulesTypeOK, Tracing, TraceFound
  <2>4. TracedIs(traced', Done \cup {sought})
    <3>1. CASE sought \in FileAdmins
      BY <2>2, <3>1 DEF TracedIs
    <3>2. CASE sought \notin FileAdmins /\ Done \cap FileAdmins # {}
      <4>1. traced = AccessAll
        BY <2>3, <3>2 DEF TracedIs
      <4>2. traced' = AccessAll
        BY <2>2, <3>2, <4>1 DEF Greater, AccessAll, Levels, NoRecord
      <4> QED
        BY <3>2, <4>2 DEF TracedIs
    <3>3. CASE sought \notin FileAdmins /\ Done \cap FileAdmins = {}
      <4>1. IsHighest(traced, Done \cup {Public}, 1)
        BY <2>3, <3>3 DEF TracedIs
      <4>2. IsHighest(traced', (Done \cup {Public}) \cup {sought}, 1)
        <5>1. traced' = Greater(v, traced)
          BY <2>2, <3>3
        <5>2. /\ sought \in All /\ at \in Line /\ 1 \in Line /\ 1 <= at /\ depth \in Nat \ {0}
              /\ v = perm[sought][at] /\ v \in Levels \cup {NoRecord}
              /\ perm[sought][at] # NoRecord \/ at = depth
              /\ Nothing(sought, 1, at)
          BY <1>0, <2>1, <2>2, <2>3, SearchEnds DEF TraceFound
        <5>3. traced \in Levels
          BY <2>3
        <5>4. IsHighest(Greater(perm[sought][at], traced), (Done \cup {Public}) \cup {sought}, 1)
          BY <4>1, <5>2, <5>3, HighestGrows
        <5> QED
          BY <5>1, <5>2, <5>4
      <4>3. (Done \cup {Public}) \cup {sought} = (Done \cup {sought}) \cup {Public}
            /\ (Done \cup {sought}) \cap FileAdmins = {}
        BY <3>3
      <4> QED
        BY <4>2, <4>3 DEF TracedIs
    <3> QED
      BY <3>1, <3>2, <3>3
  <2>5. CASE pc' = "traceGroup" /\ sought' \in todo /\ at' = home /\ todo' = todo \ {sought'}
    <3>1. Done' = Done \cup {sought}
      BY <2>1, <2>3, <2>5 DEF Done
    <3>2. Nothing(sought, home, at)'
      BY <1>0, <2>1, <2>5, NextGroupKeeps DEF Nothing
    <3>3. TracedIs(traced, Done)'
      BY <2>1, <2>4, <3>1, SameRecords DEF TracedIs
    <3> QED
      BY <2>5, <3>2, <3>3 DEF TraceFound
  <2>6. CASE pc' = "check" /\ todo = {}
    <3>1. members' = Done \cup {sought}
      BY <2>1, <2>3, <2>6 DEF Done
    <3>2. TracedIs(traced, members)'
      BY <2>1, <2>4, <3>1, SameRecords DEF TracedIs
    <3> QED
      BY <2>6, <3>2 DEF TraceFound
  <2> QED
    BY <1>0, <2>1, <2>5, <2>6, NextGroupKeeps
<1>10. CASE Check
  <2>1. /\ pc = "check" /\ TraceFound /\ tracing
        /\ UNCHANGED <<depth, perm, members, tracing, traced>>
        /\ pc' \in Resting \cup Calculating \cup {"descend"}
    BY <1>0, <1>10 DEF Check, FromCache, Calculated, Verdict, data, Place, Tracing, Resting
  <2>2. TracedIs(traced, members)'
    BY <2>1, SameRecords DEF TraceFound, TracedIs
  <2> QED
    BY <2>1, <2>2 DEF TraceFound, Resting
<1>11. CASE \E g \in All, d \in Line, v \in Levels \cup {NoRecord} : SetPermission(g, d, v)
  BY <1>11 DEF SetPermission
<1>12. CASE UNCHANGED rulesVars
  <2>1. /\ UNCHANGED <<depth, perm, known, members, pc, tracing, home, at, sought, todo>>
        /\ UNCHANGED <<traced, changed>>
    BY <1>12 DEF rulesVars, data, search, results
  <2> QED
    BY <1>0, <2>1, SameRecords DEF TraceFound, Done, TracedIs
<1> QED
  BY <1>1, <1>2, <1>3, <1>4, <1>5, <1>7, <1>8, <1>9, <1>10, <1>11, <1>12 DEF RulesNext

\* The highest level, or any for a file administrator, is what the trace has.
LEMMA SameVerdict ==
  ASSUME SInv, tracing, TracedIs(traced, members), 1 \in known, NEW v \in Levels,
         IsHighest(v, members \cup {Public}, home)
  PROVE  Verdict(v) # "mismatch"
<1>1. home = 1 /\ traced \in Levels
  BY DEF SInv, Place, RulesTypeOK
<1>2. CASE IsFileAdmin
  BY <1>2 DEF Verdict, TracedIs, IsFileAdmin
<1>3. CASE ~IsFileAdmin
  <2>1. IsHighest(traced, members \cup {Public}, 1)
    BY <1>3 DEF TracedIs, IsFileAdmin
  <2>2. v = traced
    BY <1>1, <2>1, HighestIsOne
  <2> QED
    BY <1>3, <2>2 DEF Verdict
<1> QED
  BY <1>2, <1>3

LEMMA NextAgrees == RulesInv /\ SInv' /\ [RulesNext]_rulesVars => TraceAgrees'
<1> SUFFICES ASSUME RulesInv, SInv', [RulesNext]_rulesVars, ~changed', ~aged', pc' = "mismatch"
             PROVE  FALSE
  BY DEF TraceAgrees
<1>0. SInv /\ RulesTypeOK /\ Place /\ (~aged => CalcFound) /\ (~changed => TraceFound) /\ TraceAgrees
  BY DEF RulesInv, SInv
<1>1. CASE Combine
  <2>1. /\ pc = "combine" /\ tracing /\ CalcFound /\ TraceFound /\ level' = Greater(public, level)
        /\ pc' = Verdict(level')
    BY <1>0, <1>1 DEF Combine
  <2>2. level' \in Levels /\ IsHighest(level', members \cup {Public}, home)
    BY <1>0, <2>1, HighestOfBoth DEF CalcFound, RulesTypeOK
  <2>3. TracedIs(traced, members) /\ 1 \in known
    BY <1>0, <2>1 DEF TraceFound, Place, Calculating
  <2> QED
    BY <1>0, <2>1, <2>2, <2>3, SameVerdict
<1>2. CASE Check
  <2>1. PICK v \in Levels \cup {NoRecord} : LookUp(v) /\ (FromCache(v, Verdict(v)) \/ Calculated(v))
    BY <1>2 DEF Check
  <2>2. FromCache(v, Verdict(v)) /\ v = kept /\ v \in Levels
    BY <2>1 DEF Calculated, FromCache, LookUp
  <2>3. CalcFound /\ TraceFound /\ pc = "check" /\ pc' = Verdict(v)
    BY <1>0, <1>2, <2>2 DEF Check, FromCache
  <2>4. /\ IsHighest(v, members \cup {Public}, home) /\ tracing
        /\ TracedIs(traced, members) /\ 1 \in known
    BY <1>0, <2>2, <2>3 DEF CalcFound, TraceFound, FromCache, Place, Tracing
  <2> QED
    BY <1>0, <2>2, <2>3, <2>4, SameVerdict
<1>3. CASE Ask \/ Descend \/ CalcPublic \/ CalcGroup \/ Trace \/ TracePublic \/ TraceGroup
  BY <1>3 DEF Ask, FromCache, Calculated, Descend, CalcPublic, CalcGroup, NextGroup,
              Trace, TracePublic, TraceGroup
<1>4. CASE Up
  BY <1>4 DEF Up, Searching
<1>5. CASE \E g \in All, d \in Line, v \in Levels \cup {NoRecord} : SetPermission(g, d, v)
  BY <1>5 DEF SetPermission
<1>6. CASE UNCHANGED rulesVars
  BY <1>0, <1>6 DEF rulesVars, TraceAgrees
<1> QED
  BY <1>1, <1>2, <1>3, <1>4, <1>5, <1>6 DEF RulesNext

----------------------------------------------------------------------------
(* Access rules: the theorems *)

\* Where a search is and what it has found so far hold of every calculation and
\* every trace, for any groups, folders, records and changes of them.
THEOREM RulesInvariant == RulesSpec => []RulesInv
<1>1. RulesInit => RulesInv
  BY InitSound, InitFound DEF RulesInv
<1>2. RulesInv /\ [RulesNext]_rulesVars => RulesInv'
  BY NextSound, NextCalculated, NextTraced, NextAgrees DEF RulesInv
<1> QED
  BY <1>1, <1>2, PTL DEF RulesSpec

\* Access levels are levels, and the search stays on its line of folders.
THEOREM RulesTypeCorrect == RulesSpec => []RulesTypeOK
<1>1. RulesInv => RulesTypeOK
  BY DEF RulesInv, SInv
<1> QED
  BY <1>1, RulesInvariant, PTL

\* calculate_folder_permissions returns the highest level that one of the
\* groups inherits, for any records and any order of the groups, from the cache
\* too, unless a record was changed since the level was calculated.
THEOREM HighestAccess == RulesSpec => []AccessIsHighest
<1>1. RulesInv => AccessIsHighest
  BY DEF RulesInv, SInv, Place, CalcFound, AccessIsHighest
<1> QED
  BY <1>1, RulesInvariant, PTL

\* A path without a record gets the access of the nearest folder above it.
THEOREM MissingInherit == RulesSpec => []MissingFoldersInherit
<1>1. RulesInv => MissingFoldersInherit
  BY DEF RulesInv, SInv
<1> QED
  BY <1>1, RulesInvariant, PTL

\* The consistency check of _trace_folder_permissions never fails by itself:
\* a record was changed meanwhile, or before, and the cached level is older.
THEOREM TraceIsConsistent == RulesSpec => []TraceAgrees
<1>1. RulesInv => TraceAgrees
  BY DEF RulesInv
<1> QED
  BY <1>1, RulesInvariant, PTL
=============================================================================
