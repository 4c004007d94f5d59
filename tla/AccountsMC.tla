----------------------------- MODULE AccountsMC -----------------------------
(***************************************************************************)
(* Instance of Accounts for TLC: the administrator, one who helps him and  *)
(* is not logged in, another account and one that does not exist yet; the  *)
(* groups of a new database and a local group that gives rights; two       *)
(* requests at a time.                                                     *)
(***************************************************************************)
EXTENDS Accounts, TLC

CONSTANTS admin, helper, lister, newcomer, everyone, admins, editors, r1, r2

Start == {admin, lister}
StartAccounts == {admin, helper, lister}
Administration == {admin, helper}
LocalGroup(perms, users) == editors :> [type |-> "local", perms |-> perms, users |-> users]
LocalGroups == {LocalGroup({"admin_users"}, Start),
                LocalGroup({"admin_users", "admin_permissions"}, Start),
                LocalGroup({"admin_users"}, {lister})}

NoRights == [type |-> "local", perms |-> {}]
AllRights == [type |-> "system", perms |-> {"admin_all"}]

UserCalls == [op : {"putUser", "deleteUser"}, by : Start, user : {lister}]
             \cup [op : {"createUser"}, by : Start, user : {newcomer}]
             \cup [op : {"page"}, by : {lister}]
             \cup [op : {"deleteUser"}, by : {lister}, user : {admin}]
GroupCalls == [op : {"putGroup"}, by : Start, group : {admins, editors}, edit : {NoRights, AllRights}]
              \cup [op : {"deleteGroup"}, by : Start, group : {editors}]
              \cup [op : {"createGroup"}, by : {admin}, group : {editors}, edit : {AllRights, NoRights}]
MemberCalls == [op : {"addMember", "removeMember"}, by : Start, group : {admins, editors}, user : Start]

AllCalls == UserCalls \cup GroupCalls \cup MemberCalls
AllSignIns == [op : {"login"}, user : {lister, newcomer}] \cup [op : {"token"}, user : {lister}]

RequestSymmetry == Permutations({r1, r2})
=============================================================================
