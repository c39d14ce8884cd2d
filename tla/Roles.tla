------------------------------- MODULE Roles -------------------------------
(***************************************************************************)
(* Roles, permissions and who has them: the rows, the requests of          *)
(* administrators that change them, and the seed script that inserts the   *)
(* first of them, a process of its own that may die anywhere and be run    *)
(* again. Neither roles nor permissions are ever deleted.                  *)
(***************************************************************************)
EXTENDS Naturals

CONSTANTS
    Users,
    Root,          \* the user with the address that the seed inserts
    SystemRoles,   \* the names the seed inserts
    Customs,       \* the names administrators may add
    Perms,         \* DEFAULT_PERMISSIONS
    AdminPerms,    \* ADMIN_ROLE_PERMISSIONS
    Editors        \* requests that replace the permissions of a role

ASSUME RolesAssumption ==
    /\ Root \in Users
    /\ {"super_admin", "admin"} \subseteq SystemRoles
    /\ AdminPerms \subseteq Perms

Names == SystemRoles \cup Customs

VARIABLES
    roles,       \* the names in roles
    permissions, \* the rows of permissions
    rolePerms,   \* role_permissions
    userRoles,   \* user_roles
    rootRow,     \* that user's row: none, the seed's with isAdmin, or a registered one without
    seed,        \* the seed script: where it is, what is left of its loop
    edit,        \* what each editor is doing
    meant,       \* history: what the permissions of a role were last set to
    mixed,       \* history: roles two editors were at, or one gave up on
    cut,         \* history: a seed died after it had inserted the user
    stripped     \* history: administrators took a role from that user

roleRows == <<roles, permissions, rolePerms, userRoles, rootRow>>
roleVars == <<roleRows, seed, edit, meant, mixed, cut, stripped>>

Seeds ==
    [pc : {"roles"}, todo : SUBSET SystemRoles]
    \cup [pc : {"permissions", "grants"}, todo : SUBSET Perms]
    \cup [pc : {"off", "user", "super", "admin", "done"}, todo : {{}}]

Edits == [pc : {"idle", "clear", "fill"}, role : Names, want : SUBSET Perms]
NoEdit == [pc |-> "idle", role |-> "admin", want |-> {}]

RolesTypeOK ==
    /\ roles \in SUBSET Names
    /\ permissions \in SUBSET Perms
    /\ rolePerms \in [Names -> SUBSET Perms]
    /\ userRoles \in [Users -> SUBSET Names]
    /\ rootRow \in {"none", "seeded", "registered"}
    /\ seed \in Seeds
    /\ edit \in [Editors -> Edits]
    /\ meant \in [Names -> SUBSET Perms]
    /\ mixed \in SUBSET Names
    /\ cut \in BOOLEAN
    /\ stripped \in BOOLEAN

RolesInit ==
    /\ roles = {}
    /\ permissions = {}
    /\ rolePerms = [n \in Names |-> {}]
    /\ userRoles = [u \in Users |-> {}]
    /\ rootRow = "none"
    /\ seed = [pc |-> "off", todo |-> {}]
    /\ edit = [e \in Editors |-> NoEdit]
    /\ meant = [n \in Names |-> {}]
    /\ mixed = {}
    /\ cut = FALSE
    /\ stripped = FALSE

\* hasPermission: one SELECT, in which super_admin has every permission.
HasPermission(u, p) ==
    \E n \in userRoles[u] : n = "super_admin" \/ p \in rolePerms[n]

\* requireAdmin asks for admin:access, which is not a permission: super_admin
\* has it all the same, and whoever else has isAdmin.
MayAdminister(u) ==
    "super_admin" \in userRoles[u] \/ (u = Root /\ rootRow = "seeded")

\* The editors between their DELETE and their INSERT.
Filling(n) == {e \in Editors : edit[e].pc = "fill" /\ edit[e].role = n}

-----------------------------------------------------------------------------
(* setRolePermissions: the permissions are looked up, the old rows are     *)
(* deleted, the new ones inserted, each a statement of its own.            *)

AskPermissions(e, n, want) ==
    /\ edit[e].pc = "idle"
    /\ n \in roles
    /\ want # {} /\ want \subseteq permissions
    /\ edit' = [edit EXCEPT ![e] = [pc |-> "clear", role |-> n, want |-> want]]
    /\ UNCHANGED <<roleRows, seed, meant, mixed, cut, stripped>>

ClearPermissions(e) ==
    LET n == edit[e].role IN
    /\ edit[e].pc = "clear"
    /\ rolePerms' = [rolePerms EXCEPT ![n] = {}]
    /\ edit' = [edit EXCEPT ![e].pc = "fill"]
    /\ meant' = [meant EXCEPT ![n] = edit[e].want]
    /\ mixed' = IF Filling(n) = {} THEN mixed \ {n} ELSE mixed \cup {n}
    /\ UNCHANGED <<roles, permissions, userRoles, rootRow, seed, cut, stripped>>

\* One INSERT of all the rows: it fails as a whole when one is there already.
FillPermissions(e) ==
    LET n == edit[e].role IN
    /\ edit[e].pc = "fill"
    /\ rolePerms' = [rolePerms EXCEPT ![n] =
                        IF @ \cap edit[e].want = {} THEN @ \cup edit[e].want ELSE @]
    /\ edit' = [edit EXCEPT ![e] = NoEdit]
    /\ UNCHANGED <<roles, permissions, userRoles, rootRow, seed, meant, mixed, cut, stripped>>

\* The process stops, or Postgres fails.
AbandonEdit(e) ==
    /\ edit[e].pc # "idle"
    /\ edit' = [edit EXCEPT ![e] = NoEdit]
    /\ mixed' = IF edit[e].pc = "fill" THEN mixed \cup {edit[e].role} ELSE mixed
    /\ UNCHANGED <<roleRows, seed, meant, cut, stripped>>

-----------------------------------------------------------------------------
(* The requests that are one statement. What a unique key or an empty      *)
(* result refuses changes nothing.                                         *)

CreateRole(n) ==
    /\ n \notin roles
    /\ roles' = roles \cup {n}
    /\ UNCHANGED <<permissions, rolePerms, userRoles, rootRow, seed, edit, meant, mixed,
                   cut, stripped>>

AssignRole(u, n) ==
    /\ n \in roles \ userRoles[u]
    /\ u = Root => rootRow # "none"
    /\ userRoles' = [userRoles EXCEPT ![u] = @ \cup {n}]
    /\ UNCHANGED <<roles, permissions, rolePerms, rootRow, seed, edit, meant, mixed, cut, stripped>>

RemoveRole(u, n) ==
    /\ n \in userRoles[u]
    /\ userRoles' = [userRoles EXCEPT ![u] = @ \ {n}]
    /\ stripped' = (stripped \/ u = Root)
    /\ UNCHANGED <<roles, permissions, rolePerms, rootRow, seed, edit, meant, mixed, cut>>

\* Whoever has the address may register with it (Accounts), before the seed comes.
RegisterRoot ==
    /\ rootRow = "none"
    /\ rootRow' = "registered"
    /\ UNCHANGED <<roles, permissions, rolePerms, userRoles, seed, edit, meant, mixed,
                   cut, stripped>>

-----------------------------------------------------------------------------
(* The seed script. Every INSERT leaves a row that is there already as it  *)
(* is; the order within a loop is left open.                               *)

SeedTo(pc, todo) == seed' = [pc |-> pc, todo |-> todo]

StartSeed ==
    /\ seed.pc \in {"off", "done"}
    /\ SeedTo("roles", SystemRoles)
    /\ UNCHANGED <<roleRows, edit, meant, mixed, cut, stripped>>

SeedRole ==
    /\ seed.pc = "roles"
    /\ \E n \in seed.todo :
          /\ roles' = roles \cup {n}
          /\ IF seed.todo = {n} THEN SeedTo("permissions", Perms)
                                ELSE SeedTo("roles", seed.todo \ {n})
    /\ UNCHANGED <<permissions, rolePerms, userRoles, rootRow, edit, meant, mixed, cut, stripped>>

SeedPermission ==
    /\ seed.pc = "permissions"
    /\ IF seed.todo = {}
       THEN SeedTo("grants", AdminPerms) /\ UNCHANGED permissions
       ELSE \E p \in seed.todo :
               /\ permissions' = permissions \cup {p}
               /\ SeedTo("permissions", seed.todo \ {p})
    /\ UNCHANGED <<roles, rolePerms, userRoles, rootRow, edit, meant, mixed, cut, stripped>>

\* A row for an editor between its two statements to run into.
SeedGrant ==
    /\ seed.pc = "grants"
    /\ IF seed.todo = {}
       THEN SeedTo("user", {}) /\ UNCHANGED <<rolePerms, meant, mixed>>
       ELSE \E p \in seed.todo :
               /\ SeedTo("grants", seed.todo \ {p})
               /\ rolePerms' = [rolePerms EXCEPT !["admin"] = @ \cup {p}]
               /\ meant' = [meant EXCEPT !["admin"] = @ \cup {p}]
               /\ mixed' = IF Filling("admin") = {} THEN mixed ELSE mixed \cup {"admin"}
    /\ UNCHANGED <<roles, permissions, userRoles, rootRow, edit, cut, stripped>>

\* Mutant of SeedUser: what was inserted is not returned, so no roles are given.
SeedUserOnly ==
    /\ seed.pc = "user"
    /\ rootRow' = IF rootRow = "none" THEN "seeded" ELSE rootRow
    /\ SeedTo("done", {})
    /\ UNCHANGED <<roles, permissions, rolePerms, userRoles, edit, meant, mixed, cut, stripped>>

\* The roles are given only by the run that inserts the user: a row with its address
\* is left as it is, whoever inserted it.
SeedUser ==
    /\ seed.pc = "user"
    /\ rootRow' = IF rootRow = "none" THEN "seeded" ELSE rootRow
    /\ SeedTo(IF rootRow = "none" THEN "super" ELSE "done", {})
    /\ UNCHANGED <<roles, permissions, rolePerms, userRoles, edit, meant, mixed, cut, stripped>>

SeedMembership ==
    /\ \/ /\ seed.pc = "super"
          /\ userRoles' = [userRoles EXCEPT ![Root] = @ \cup {"super_admin"}]
          /\ SeedTo("admin", {})
       \/ /\ seed.pc = "admin"
          /\ userRoles' = [userRoles EXCEPT ![Root] = @ \cup {"admin"}]
          /\ SeedTo("done", {})
    /\ UNCHANGED <<roles, permissions, rolePerms, rootRow, edit, meant, mixed, cut, stripped>>

SeedDies ==
    /\ seed.pc \notin {"off", "done"}
    /\ SeedTo("off", {})
    /\ cut' = (cut \/ seed.pc \in {"super", "admin"})
    /\ UNCHANGED <<roleRows, edit, meant, mixed, stripped>>

Seeding ==
    \/ StartSeed \/ SeedRole \/ SeedPermission \/ SeedGrant
    \/ SeedUser \/ SeedMembership \/ SeedDies

EditStep(e) == ClearPermissions(e) \/ FillPermissions(e) \/ AbandonEdit(e)

RolesNext ==
    \/ Seeding \/ RegisterRoot
    \/ \E n \in Customs : CreateRole(n)
    \/ \E u \in Users, n \in Names : AssignRole(u, n) \/ RemoveRole(u, n)
    \/ \E e \in Editors : EditStep(e)
    \/ \E e \in Editors, n \in Names, want \in SUBSET Perms : AskPermissions(e, n, want)

RolesSpec == RolesInit /\ [][RolesNext]_roleVars

-----------------------------------------------------------------------------
(* Setting the permissions of a role leaves it with exactly that set, and  *)
(* what the seed adds: "replaces (not appends) on second call"             *)
(* (rbac.service.integration.test.ts:186). It takes requests that do not   *)
(* overlap and do not die between their statements: two that do leave the  *)
(* union, the first's set alone and an error, or nothing.                  *)
SetUnlessOverlapped ==
    \A n \in Names \ mixed : Filling(n) = {} => rolePerms[n] = meant[n]

(* A completed seed leaves the seeded user with both roles, however often  *)
(* it was run, unless administrators took them. It takes that no earlier   *)
(* run died between inserting the user and its roles, and that nobody      *)
(* registered with the address before: the seed finds a user and gives it  *)
(* no role.                                                                *)
RootReignsUnlessCut ==
    seed.pc = "done" /\ rootRow # "registered" /\ ~cut /\ ~stripped
      => {"super_admin", "admin"} \subseteq userRoles[Root]

\* Who may do what, as the editors and the seed leave it: a role has what it was
\* given, and the seeded user has the roles to repair the rest.
RolesStand == SetUnlessOverlapped /\ RootReignsUnlessCut

(* What carries the two: an editor between its statements is alone at its  *)
(* role, which is empty, unless the role is mixed; and a seeded user       *)
(* without its roles is one whose seed is not finished.                    *)
Alone ==
    \A n \in Names \ mixed : \A e \in Filling(n) :
       Filling(n) = {e} /\ rolePerms[n] = {} /\ meant[n] = edit[e].want

OnTheThrone ==
    \/ cut \/ stripped
    \/ rootRow = "none" /\ seed.pc \notin {"super", "admin", "done"}
    \/ rootRow = "registered" /\ seed.pc \notin {"super", "admin"}
    \/ /\ rootRow = "seeded"
       /\ seed.pc # "super" => "super_admin" \in userRoles[Root]
       /\ seed.pc \notin {"super", "admin"} => "admin" \in userRoles[Root]

RolesInv == RolesTypeOK /\ SetUnlessOverlapped /\ Alone /\ OnTheThrone
=============================================================================
