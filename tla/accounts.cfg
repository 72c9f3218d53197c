\* Two handlers on one user who owns, is assigned to and has written one of each.
CONSTANTS
    Users = {u1}
    Projects = {p1}
    Tickets = {t1}
    Comments = {c1}
    Passwords = {a, b}
    Reqs = {r1, r2}
    NoUser = NoUser
    NoPassword = NoPassword
SPECIFICATION Spec
SYMMETRY HandlersAndPasswords
CHECK_DEADLOCK FALSE
INVARIANTS TypeOK ReferencesExist DeletionIsAudited
PROPERTIES OpenTicketKeepsItsAssignee OnlyStaleReadsReplacePassword
