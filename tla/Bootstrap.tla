------------------------------ MODULE Bootstrap ------------------------------
(***************************************************************************)
(* Tenants, and the seeding that makes a tenant usable.  Every run of the  *)
(* seeder looks for each row and inserts it when it is missing, statement  *)
(* by statement and in no transaction; it may die anywhere, run again, or  *)
(* run beside another one.                                                 *)
(***************************************************************************)
EXTENDS Naturals, Sequences, FiniteSets

CONSTANTS
  Runs,        \* executions of bootstrap.Run
  Creators,    \* calls of CreateTenant with the same tenant code
  Updaters,    \* calls of UpdateTenant
  MaxErrors,   \* bound on statements that fail and whose error is ignored
  Void

ASSUME RunsDisjoint == /\ Runs \cap (Creators \cup Updaters) = {}
                       /\ Creators \cap Updaters = {}
ASSUME ErrorsNatural == MaxErrors \in Nat

VARIABLES
  at,          \* where each call stands
  copy,        \* what an update has read and was asked
  row,         \* the rows for the configured keys, by who inserted them
  status,      \* tenants.status
  catalog,     \* table permissions
  seeded,      \* table role_permissions
  owner,       \* is the owner role assigned to the owner user
  errors,
  settled,     \* history: the tenant status last asked for
  overlapped,  \* history: two updates of the tenant overlapped
  broken       \* history: roles half filled by a run that died, or filled by two

bootVars == <<at, copy, row, status, catalog, seeded, owner, errors,
              settled, overlapped, broken>>

\* The system roles in the order of rolesToSeed, three of the six.
rolesToSeed == <<"owner", "admin", "staff">>
Steps == <<"tenant", "org", "user", "member">>
AllPermissions == {"*", "tenant:manage", "document:read"}

\* The permissions a role is to get from those listed.
getPermIDs(role, all) ==
  CASE role = "owner" -> all
    [] role = "admin" -> all \ {"*", "tenant:manage"}
    [] role = "staff" -> all \cap {"document:read"}

SystemRoles == {rolesToSeed[i] : i \in 1..Len(rolesToSeed)}
Tables == {Steps[i] : i \in 1..Len(Steps)} \cup SystemRoles
Keepers == Runs \cup Creators \cup Updaters
TenantStatuses == {"active", "suspended", "archived"}

\* Where a call stands: a label, the step it is at, the permissions it has
\* listed, those it has yet to insert, and whether it ignores their errors.
Place(label, n, all) ==
  [label |-> label, n |-> n, all |-> all, todo |-> {}, lax |-> FALSE]

BootInit ==
  /\ at = [c \in Keepers |-> Place("idle", 1, {})]
  /\ copy = [u \in Updaters |-> Void]
  /\ row = [x \in Tables |-> {}]
  /\ status = Void
  /\ catalog = AllPermissions \ {"*"}
  /\ seeded = {}
  /\ owner = FALSE
  /\ errors = 0
  /\ settled = Void /\ overlapped = FALSE /\ broken = {}

tenantVars == <<copy, status, settled, overlapped>>
Put(c, p) == at' = [at EXCEPT ![c] = p]
Permissions(role) == {p \in AllPermissions : <<role, p>> \in seeded}
RoleAt(r) == rolesToSeed[at[r].n]

\* c is filling role with permissions: it has decided to and is not done.
Fills(c, role) == at[c].label \in {"clear", "grant"} /\ RoleAt(c) = role

\* Mutant: no unique index.
InsertRowNoIndex(c, x) == row' = [row EXCEPT ![x] = @ \cup {c}]

\* An INSERT of the row x by c, under the unique index on its key.
InsertRow(c, x) == row[x] = {} /\ row' = [row EXCEPT ![x] = {c}]

\* A new tenant is active.
NewTenant(x) ==
  IF x = "tenant" THEN status' = "active" /\ settled' = "active"
  ELSE UNCHANGED <<status, settled>>

-----------------------------------------------------------------------------
(* bootstrap.Run.                                                          *)

\* The permission "*" is put into the catalog; an error is ignored.
EnsureWildcard(r) ==
  /\ at[r].label = "idle"
  /\ \/ catalog' = catalog \cup {"*"} /\ UNCHANGED errors
     \/ errors < MaxErrors /\ errors' = errors + 1 /\ UNCHANGED catalog
  /\ Put(r, Place("look", 1, {}))
  /\ UNCHANGED <<row, seeded, owner, broken, tenantVars>>

\* Sections 1 to 4: the place after step n is in order.
AfterStep(n) == IF n < Len(Steps) THEN Place("look", n + 1, {}) ELSE Place("list", 1, {})

LookUp(r) ==
  /\ at[r].label = "look"
  /\ Put(r, IF row[Steps[at[r].n]] = {} THEN Place("insert", at[r].n, {})
            ELSE AfterStep(at[r].n))
  /\ UNCHANGED <<row, catalog, seeded, owner, errors, broken, tenantVars>>

Insert(r) ==
  LET x == Steps[at[r].n] IN
  /\ at[r].label = "insert"
  /\ InsertRow(r, x)
  /\ NewTenant(x)
  /\ Put(r, AfterStep(at[r].n))
  /\ UNCHANGED <<catalog, seeded, owner, errors, broken, copy, overlapped>>

\* Section 5: all permissions are listed once, then the loop over rolesToSeed.
ListPermissions(r) ==
  /\ at[r].label = "list"
  /\ Put(r, Place("role", 1, catalog))
  /\ UNCHANGED <<row, catalog, seeded, owner, errors, broken, tenantVars>>

AfterRole(r) ==
  IF at[r].n < Len(rolesToSeed) THEN Place("role", at[r].n + 1, at[r].all)
  ELSE Place("assign", 1, {})

\* GetRoleByCode: the row, and in a second query its permissions.
LookUpRole(r) ==
  /\ at[r].label = "role"
  /\ Put(r, [at[r] EXCEPT !.label = IF row[RoleAt(r)] = {} THEN "create" ELSE "filled"])
  /\ UNCHANGED <<row, catalog, seeded, owner, errors, broken, tenantVars>>

\* r decides to fill its role; somebody else may be at it.
BeginFill(r, lax) ==
  /\ Put(r, [at[r] EXCEPT !.label = "clear", !.lax = lax])
  /\ broken' = IF \E c \in Runs \ {r} : Fills(c, RoleAt(r))
                 THEN broken \cup {RoleAt(r)} ELSE broken

SeedRole(r) ==
  /\ at[r].label = "create"
  /\ InsertRow(r, RoleAt(r))
  /\ BeginFill(r, FALSE)
  /\ UNCHANGED <<catalog, seeded, owner, errors, tenantVars>>

\* Mutant: a role that is there is left alone.
SyncRoleNever(r) ==
  /\ at[r].label = "filled"
  /\ Put(r, AfterRole(r))
  /\ UNCHANGED <<row, catalog, seeded, owner, errors, broken, tenantVars>>

\* A role that is there is filled only if it has no permission, or the query
\* for them failed.
SyncRole(r) ==
  /\ at[r].label = "filled"
  /\ \/ Permissions(RoleAt(r)) = {} /\ BeginFill(r, TRUE) /\ UNCHANGED errors
     \/ Permissions(RoleAt(r)) # {} /\ Put(r, AfterRole(r)) /\ UNCHANGED <<errors, broken>>
     \/ errors < MaxErrors /\ errors' = errors + 1 /\ BeginFill(r, TRUE)
  /\ UNCHANGED <<row, catalog, seeded, owner, tenantVars>>

\* AssignPermissionsToRole: one DELETE, whose error is ignored, and an INSERT
\* for each permission, whose error is ignored when the role was there already.
ClearRole(r) ==
  LET all == getPermIDs(RoleAt(r), at[r].all) IN
  /\ at[r].label = "clear"
  /\ \/ seeded' = {g \in seeded : g[1] # RoleAt(r)} /\ UNCHANGED errors
     \/ errors < MaxErrors /\ errors' = errors + 1 /\ UNCHANGED seeded
  /\ Put(r, IF all = {} THEN AfterRole(r) ELSE [at[r] EXCEPT !.label = "grant", !.todo = all])
  /\ UNCHANGED <<row, catalog, owner, broken, tenantVars>>

GrantRole(r) ==
  /\ at[r].label = "grant"
  /\ \E p \in at[r].todo :
       /\ seeded' = seeded \cup {<<RoleAt(r), p>>}
       /\ Put(r, IF at[r].todo = {p} THEN AfterRole(r) ELSE [at[r] EXCEPT !.todo = @ \ {p}])
  /\ UNCHANGED <<row, catalog, owner, errors, broken, tenantVars>>

GrantRefused(r) ==
  /\ at[r].label = "grant" /\ at[r].lax
  /\ errors < MaxErrors
  /\ errors' = errors + 1
  /\ Put(r, AfterRole(r))
  /\ UNCHANGED <<row, catalog, seeded, owner, broken, tenantVars>>

\* Section 6: the owner role goes to the owner user unless it has it.
AssignOwner(r) ==
  /\ at[r].label = "assign"
  /\ owner' = TRUE
  /\ Put(r, Place("done", 1, {}))
  /\ UNCHANGED <<row, catalog, seeded, errors, broken, tenantVars>>

\* A statement fails or the process dies; an INSERT fails too when the row has
\* appeared since it was looked for.
Die(r) ==
  /\ at[r].label \notin {"idle", "done", "dead"}
  /\ Put(r, Place("dead", 1, {}))
  /\ broken' = broken \cup {x \in SystemRoles : Fills(r, x) /\ Permissions(x) # {}}
  /\ UNCHANGED <<row, catalog, seeded, owner, errors, tenantVars>>

-----------------------------------------------------------------------------
(* The tenant usecase.                                                     *)

\* CreateTenant up to the INSERT, and the INSERT.
CheckCode(c) ==
  /\ at[c].label = "idle"
  /\ Put(c, Place(IF row["tenant"] = {} THEN "insert" ELSE "dead", 1, {}))
  /\ UNCHANGED <<row, catalog, seeded, owner, errors, broken, tenantVars>>

CreateTenant(c) ==
  /\ at[c].label = "insert"
  /\ IF row["tenant"] = {}
       THEN InsertRow(c, "tenant") /\ NewTenant("tenant") /\ Put(c, Place("done", 1, {}))
       ELSE UNCHANGED <<row, status, settled>> /\ Put(c, Place("dead", 1, {}))
  /\ UNCHANGED <<catalog, seeded, owner, errors, broken, copy, overlapped>>

\* UpdateTenant up to the UPDATE: a copy of the row, changed where asked.
ReadTenant(u) ==
  /\ at[u].label = "idle" /\ row["tenant"] # {}
  /\ \E ask \in TenantStatuses \cup {Void} :
       copy' = [copy EXCEPT ![u] = [ask |-> ask, write |-> IF ask = Void THEN status ELSE ask]]
  /\ overlapped' = (overlapped \/ \E v \in Updaters : at[v].label = "write")
  /\ Put(u, Place("write", 1, {}))
  /\ UNCHANGED <<row, status, catalog, seeded, owner, errors, settled, broken>>

\* The UPDATE writes name, status and settings from the copy.
UpdateTenant(u) ==
  /\ at[u].label = "write"
  /\ status' = copy[u].write
  /\ settled' = IF copy[u].ask = Void THEN settled ELSE copy[u].ask
  /\ Put(u, Place("done", 1, {}))
  /\ UNCHANGED <<copy, row, catalog, seeded, owner, errors, overlapped, broken>>

-----------------------------------------------------------------------------
SeedStep(r) ==
  \/ EnsureWildcard(r) \/ LookUp(r) \/ Insert(r) \/ ListPermissions(r)
  \/ LookUpRole(r) \/ SeedRole(r) \/ SyncRole(r) \/ ClearRole(r) \/ GrantRole(r)
  \/ GrantRefused(r) \/ AssignOwner(r)

BootNext == \/ \E r \in Runs : SeedStep(r) \/ Die(r)
            \/ \E c \in Creators : CheckCode(c) \/ CreateTenant(c)
            \/ \E u \in Updaters : ReadTenant(u) \/ UpdateTenant(u)

BootSpec == BootInit /\ [][BootNext]_bootVars

-----------------------------------------------------------------------------
\* Every variable has its type: every permission id that getPermIDs gives out is
\* one of the table.
BootTypeOK ==
  /\ \A c \in Keepers : at[c].n \in 1..4 /\ at[c].todo \subseteq at[c].all /\ at[c].all \subseteq catalog
  /\ row \in [Tables -> SUBSET Keepers]
  /\ status \in TenantStatuses \cup {Void}
  /\ catalog \subseteq AllPermissions
  /\ seeded \subseteq SystemRoles \X AllPermissions
  /\ owner \in BOOLEAN /\ errors \in Nat
  /\ broken \subseteq SystemRoles

\* However runs of the seeder and creations of the tenant interleave, there is
\* one row for each configured key (every caller looks first and inserts
\* later).
OneOfEach == \A x \in Tables : Cardinality(row[x]) <= 1

\* A seeding that reports success has left everything in place, the work of
\* runs that died before it included: all rows, the owner role on the owner,
\* and in every role its permissions.  Excepted are a role somebody is filling,
\* one that was left half filled or filled by two, and lost errors.
SeedComplete ==
  \A r \in Runs : at[r].label = "done" =>
    /\ \A x \in Tables : row[x] # {}
    /\ owner
    /\ errors > 0 \/ \A x \in SystemRoles :
         \/ x \in broken \/ \E c \in Runs : Fills(c, x)
         \/ Permissions(x) = getPermIDs(x, AllPermissions)

\* The tenant has the status last asked for, unless two updates overlapped:
\* UpdateTenant writes back the status it has read.
TenantStatusAsDecided == overlapped \/ status = settled

\* A tenant is as its seeders and administrators left it.
TenantAsLeft == SeedComplete /\ TenantStatusAsDecided
=============================================================================
