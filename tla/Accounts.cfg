CONSTANTS
    admin = admin
    helper = helper
    lister = lister
    newcomer = newcomer
    everyone = everyone
    admins = admins
    editors = editors
    r1 = r1
    r2 = r2
    Admin = admin
    Everyone = everyone
    Administrators = admins
    StartUsers <- StartAccounts
    StartAdmins <- Administration
    StartWeb <- Start
    StartGroups <- LocalGroups
    Requests = {r1, r2}
    Calls <- AllCalls
    SignIns <- AllSignIns
    LdapUsers = {newcomer}
    ApiUsers = {lister}
    MaxRequests = 2
    MaxFaults = 1
SPECIFICATION Spec
SYMMETRY RequestSymmetry
CHECK_DEADLOCK FALSE
INVARIANTS
    LockoutHasAReason
    SessionsHaveTheRights
PROPERTIES
    DeletedStaysDeleted
    RightsComeFromTheirOwners
