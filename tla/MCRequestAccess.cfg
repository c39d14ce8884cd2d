SPECIFICATION AccessSpec
CONSTANTS
    Services = {server}
    Requests = {r1, r2}
    Callers = {r1, r2}
    Editors = {r1, r2}
    MaxKeys = 2
    Clients = {app}
    MaxSecrets = 2
    Users = {root}
    Root = root
    SystemRoles = {"super_admin", "admin"}
    Customs = {auditor}
    Perms = {manage, read}
    AdminPerms = {read}
    RolesWrite = manage
    Sessions = {s1}
SYMMETRY Symmetric
CONSTRAINT OneTopic
INVARIANTS
    AccessTypeOK
    IssuedAccepted
    RetiredNotUsed
    CurrentUnlessTouched
    RolesStand
