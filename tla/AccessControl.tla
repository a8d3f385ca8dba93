---------------------------- MODULE AccessControl ----------------------------
(***************************************************************************)
(* Users, memberships, roles and the tokens that carry permissions.  The   *)
(* usecase runs each operation as separate statements, in no transaction;  *)
(* an action is one statement with the control around it.                  *)
(***************************************************************************)
EXTENDS Naturals, FiniteSets

CONSTANTS
  Registers,    \* calls of Register; a call stands for the user it creates
  RoleCalls,    \* calls of CreateRole; a call stands for the role it creates
  Admins,       \* calls of the member and role management
  Sessions,     \* clients that log in, switch tenant and send requests
  Emails, Codes, Tenants, Permissions,
  Star,         \* the permission "*"
  TTL,          \* life of a token
  MaxTime,      \* bound on the clock
  MaxFaults,    \* bound on statements the database refuses for no visible reason
  None

ASSUME CallsDisjoint ==
  /\ Registers \cap (RoleCalls \cup Admins \cup Sessions) = {}
  /\ RoleCalls \cap (Admins \cup Sessions) = {}
  /\ Admins \cap Sessions = {}
ASSUME TimesNatural == TTL \in Nat /\ MaxTime \in Nat /\ MaxFaults \in Nat

VARIABLES
  pc,         \* where each call stands
  arg,        \* its parameters and local variables
  users,      \* table users: the email of each user
  members,    \* table tenant_users
  roles,      \* table roles
  grants,     \* table role_permissions
  userRoles,  \* table user_roles
  token,      \* the token each session holds
  use,        \* the last request let through with that token
  now, faults,
  wanted,     \* history: the set the last complete assignment gave a role
  disturbed,  \* history: roles whose assignments overlapped or broke off
  torn,       \* history: logins between whose two reads somebody wrote
  lastHeld    \* history: when a user last held a permission

tables == <<users, members, roles, grants, userRoles>>
history == <<wanted, disturbed>>
vars == <<pc, arg, tables, token, use, now, faults, history, torn, lastHeld>>

Calls == Registers \cup RoleCalls \cup Admins \cup Sessions
PCs == {"idle", "create", "tenant", "member", "assign", "clear", "grant",
        "roles", "perms", "issue", "ok", "refused"}

\* The parameters of a call and the local variables it keeps.
NoArg == [tenant |-> None, user |-> None, email |-> None, code |-> None,
          role |-> None, lax |-> FALSE, todo |-> {}, ask |-> {},
          codes |-> {}, perms |-> {}, began |-> 0]

RoleRow == [tenant : Tenants, code : Codes]
Token == [user : Registers, tenant : Tenants, codes : SUBSET Codes,
          perms : SUBSET Permissions, began : Nat, exp : Nat,
          torn : BOOLEAN]
Use == [perm : Permissions, time : Nat]

ASSUME NoneOutside ==
  /\ None \notin Emails \cup Tenants \cup RoleCalls \cup Registers
  /\ None \notin Nat /\ None \notin RoleRow /\ None \notin Token /\ None \notin Use

Init ==
  /\ pc = [c \in Calls |-> "idle"]
  /\ arg = [c \in Calls |-> NoArg]
  /\ users = [u \in Registers |-> None]
  /\ members = {}
  /\ roles = [r \in RoleCalls |-> None]
  /\ grants = {}
  /\ userRoles = {}
  /\ token = [s \in Sessions |-> None]
  /\ use = [s \in Sessions |-> None]
  /\ now = 0 /\ faults = 0
  /\ wanted = [r \in RoleCalls |-> {}]
  /\ disturbed = {} /\ torn = {}
  /\ lastHeld = [k \in Tenants \X Registers \X Permissions |-> None]

-----------------------------------------------------------------------------
(* What the queries return.                                                *)

\* GetUserByEmail.
UsersWithEmail(e) == {u \in Registers : users[u] = e}

\* GetRoleByCode.
RolesWithCode(t, k) ==
  {r \in RoleCalls : roles[r] # None /\ roles[r] = [tenant |-> t, code |-> k]}

\* GetUserByID, GetTenantMember, GetRoleByID: is there such a row.
KnownUser(u) == users[u] # None
IsMember(t, u) == <<t, u>> \in members
RoleInTenant(t, r) == roles[r] # None /\ roles[r].tenant = t

\* ListUserTenants.
TenantsOf(u) == {t \in Tenants : <<t, u>> \in members}

\* ListUserRolesInTenant.  The query does not ask whose role it is.
RolesOf(t, u) == {r \in RoleCalls : <<t, u, r>> \in userRoles}

\* ListRolePermissions.
PermissionsOf(r) == {p \in Permissions : <<r, p>> \in grants}

\* ListUserPermissionsInTenant.
PermissionsInTenant(t, u) == UNION {PermissionsOf(r) : r \in RolesOf(t, u)}

\* The permissions u really holds in t.
Held(t, u, p) == \E r \in RoleCalls : <<t, u, r>> \in userRoles /\ <<r, p>> \in grants

-----------------------------------------------------------------------------
(* Steps that many operations share.                                       *)

\* c goes on at label with the local variables r, which end with the call.
Goto(c, label, r) ==
  /\ pc' = [pc EXCEPT ![c] = label]
  /\ arg' = [arg EXCEPT ![c] =
       IF label \notin {"ok", "refused"} THEN r
       ELSE IF c \in Registers THEN [NoArg EXCEPT !.tenant = r.tenant]
       ELSE NoArg]

\* c fills role r: it has emptied it, or is about to, and is not done.
Filling(c, r) == pc[c] \in {"clear", "grant"} /\ arg[c].role = r

\* An assignment to r begins; another one may be under way.
Overlaps(c, r) == \E d \in (RoleCalls \cup Admins) \ {c} : Filling(d, r)

\* A write to user_roles or role_permissions disturbs the logins that have
\* read the roles and not yet the permissions.
Tear == torn' = torn \cup {s \in Sessions : pc[s] = "perms"}

\* The database refuses the statement of c, and c returns the error.
Fail(c) ==
  /\ pc[c] \notin {"idle", "ok", "refused"}
  /\ faults < MaxFaults
  /\ faults' = faults + 1
  /\ Goto(c, "refused", arg[c])
  /\ disturbed' = disturbed \cup {r \in RoleCalls : Filling(c, r)}
  /\ UNCHANGED <<tables, token, use, now, wanted, torn>>

-----------------------------------------------------------------------------
(* Register.                                                               *)

\* Register up to CreateUser: the email is looked up on its own.
Register(u) ==
  /\ pc[u] = "idle"
  /\ \E e \in Emails, t \in Tenants \cup {None} :
       Goto(u, IF UsersWithEmail(e) # {} THEN "refused" ELSE "create",
               [NoArg EXCEPT !.email = e, !.tenant = t])
  /\ UNCHANGED <<tables, token, use, now, faults, history, torn>>

\* INSERT INTO users, INSERT INTO tenant_users.
InsertUser(u, e) == users' = [users EXCEPT ![u] = e]
InsertMember(t, u) == members' = members \cup {<<t, u>>}

\* CreateUser: the unique index decides between two that passed the look-up.
CreateUser(u) ==
  /\ pc[u] = "create"
  /\ IF UsersWithEmail(arg[u].email) # {}
       THEN Goto(u, "refused", arg[u]) /\ UNCHANGED users
       ELSE /\ InsertUser(u, arg[u].email)
            /\ Goto(u, IF arg[u].tenant = None THEN "ok" ELSE "tenant", arg[u])
  /\ UNCHANGED <<members, roles, grants, userRoles, token, use, now, faults, history, torn>>

\* The rest of Register: a tenant that is missing or not active is an error
\* and leaves the user behind; an error of AddTenantMember is ignored.
JoinTenant(u) ==
  /\ pc[u] = "tenant"
  /\ \/ Goto(u, "refused", arg[u]) /\ UNCHANGED <<members, faults>>
     \/ /\ Goto(u, "ok", arg[u])
        /\ InsertMember(arg[u].tenant, u)
        /\ UNCHANGED faults
     \/ /\ faults < MaxFaults
        /\ faults' = faults + 1
        /\ Goto(u, "ok", arg[u])
        /\ UNCHANGED members
  /\ UNCHANGED <<users, roles, grants, userRoles, token, use, now, history, torn>>

-----------------------------------------------------------------------------
(* Members and their roles.                                                *)

\* AddMember up to the insert.
AddMember(a) ==
  /\ pc[a] = "idle"
  /\ \E t \in Tenants, u \in Registers, rs \in SUBSET RoleCalls :
       /\ KnownUser(u)
       /\ Goto(a, IF IsMember(t, u) THEN "refused" ELSE "create",
               [NoArg EXCEPT !.tenant = t, !.user = u, !.todo = rs, !.lax = TRUE])
  /\ UNCHANGED <<tables, token, use, now, faults, history, torn>>

\* AddTenantMember: refused when the membership has appeared meanwhile.
AddTenantMember(a) ==
  /\ a \in Admins /\ pc[a] = "create"
  /\ IF IsMember(arg[a].tenant, arg[a].user)
       THEN Goto(a, "refused", arg[a]) /\ UNCHANGED members
       ELSE /\ InsertMember(arg[a].tenant, arg[a].user)
            /\ Goto(a, IF arg[a].todo = {} THEN "ok" ELSE "assign", arg[a])
  /\ UNCHANGED <<users, roles, grants, userRoles, token, use, now, faults, history, torn>>

\* AssignMemberRoles up to its loop.  Nobody asks whether the user is a member.
AssignMemberRoles(a) ==
  /\ pc[a] = "idle"
  /\ \E t \in Tenants, u \in Registers, rs \in (SUBSET RoleCalls) \ {{}} :
       Goto(a, "assign", [NoArg EXCEPT !.tenant = t, !.user = u, !.todo = rs])
  /\ UNCHANGED <<tables, token, use, now, faults, history, torn>>

\* One turn of the loop over role ids: INSERT ... ON CONFLICT DO NOTHING.  The
\* foreign keys refuse an unknown user or role; AddMember ignores that error
\* and AssignMemberRoles returns it.
AssignUserRole(a) ==
  /\ pc[a] = "assign"
  /\ \E r \in arg[a].todo :
       LET known == KnownUser(arg[a].user) /\ roles[r] # None
           left == arg[a].todo \ {r} IN
       /\ userRoles' = IF known THEN userRoles \cup {<<arg[a].tenant, arg[a].user, r>>}
                                ELSE userRoles
       /\ Goto(a, CASE ~ known /\ ~ arg[a].lax -> "refused"
                    [] left = {} -> "ok"
                    [] OTHER -> "assign",
                  [arg[a] EXCEPT !.todo = left])
  /\ Tear
  /\ UNCHANGED <<users, members, roles, grants, token, use, now, faults, history>>

\* RemoveMemberRole: one DELETE.
RemoveMemberRole(a) ==
  /\ pc[a] = "idle"
  /\ \E row \in userRoles : userRoles' = userRoles \ {row}
  /\ Goto(a, "ok", NoArg)
  /\ Tear
  /\ UNCHANGED <<users, members, roles, grants, token, use, now, faults, history>>

-----------------------------------------------------------------------------
(* Roles and their permissions.                                            *)

\* CreateRole up to the insert.
CreateRole(r) ==
  /\ pc[r] = "idle"
  /\ \E t \in Tenants, k \in Codes, ps \in SUBSET Permissions :
       Goto(r, IF RolesWithCode(t, k) # {} THEN "refused" ELSE "create",
               [NoArg EXCEPT !.tenant = t, !.code = k, !.role = r, !.todo = ps, !.ask = ps])
  /\ UNCHANGED <<tables, token, use, now, faults, history, torn>>

\* The insert of CreateRole, under the unique index on (tenant_id, code).
InsertRole(r) ==
  /\ pc[r] = "create"
  /\ IF RolesWithCode(arg[r].tenant, arg[r].code) # {}
       THEN Goto(r, "refused", arg[r]) /\ UNCHANGED roles
       ELSE /\ roles' = [roles EXCEPT ![r] = [tenant |-> arg[r].tenant, code |-> arg[r].code]]
            /\ Goto(r, IF arg[r].todo = {} THEN "ok" ELSE "clear", arg[r])
  /\ disturbed' = IF Overlaps(r, r) THEN disturbed \cup {r} ELSE disturbed
  /\ UNCHANGED <<users, members, grants, userRoles, token, use, now, faults, wanted, torn>>

\* AssignRolePermissions up to the call of the repository: the role is looked
\* up in the tenant of the caller.
AssignRolePermissions(a) ==
  /\ pc[a] = "idle"
  /\ \E t \in Tenants, r \in RoleCalls, ps \in SUBSET Permissions :
       /\ RoleInTenant(t, r)
       /\ Goto(a, "clear", [NoArg EXCEPT !.tenant = t, !.role = r, !.todo = ps, !.ask = ps])
       /\ disturbed' = IF Overlaps(a, r) THEN disturbed \cup {r} ELSE disturbed
  /\ UNCHANGED <<tables, token, use, now, faults, wanted, torn>>

\* AssignPermissionsToRole has given r what c was asked for.
Complete(c, left) ==
  /\ Goto(c, IF left = {} THEN "ok" ELSE "grant", [arg[c] EXCEPT !.todo = left])
  /\ wanted' = IF left = {} THEN [wanted EXCEPT ![arg[c].role] = arg[c].ask] ELSE wanted

\* Mutant: the old permissions are kept.
ClearRolePermissionsForgotten(c) ==
  /\ pc[c] = "clear"
  /\ Complete(c, arg[c].todo)
  /\ UNCHANGED <<tables, token, use, now, faults, disturbed, torn>>

\* AssignPermissionsToRole, first statement: DELETE.  Its error is ignored, the
\* old permissions then stay beside the new ones.
ClearRolePermissions(c) ==
  /\ pc[c] = "clear"
  /\ \/ /\ grants' = {g \in grants : g[1] # arg[c].role}
        /\ UNCHANGED <<faults, disturbed>>
     \/ /\ faults < MaxFaults
        /\ faults' = faults + 1
        /\ disturbed' = disturbed \cup {arg[c].role}
        /\ UNCHANGED grants
  /\ Complete(c, arg[c].todo)
  /\ Tear
  /\ UNCHANGED <<users, members, roles, userRoles, token, use, now>>

\* The loop of AssignPermissionsToRole: one INSERT for each permission.
AssignPermissionToRole(c) ==
  /\ pc[c] = "grant"
  /\ \E p \in arg[c].todo :
       /\ grants' = grants \cup {<<arg[c].role, p>>}
       /\ Complete(c, arg[c].todo \ {p})
  /\ Tear
  /\ UNCHANGED <<users, members, roles, userRoles, token, use, now, faults, disturbed>>

-----------------------------------------------------------------------------
(* Logging in and sending requests.                                        *)

\* Login: the credentials are right; without a tenant the only membership is
\* taken, and with none or several the client is asked to choose.
Login(s) ==
  /\ pc[s] = "idle"
  /\ \E u \in Registers, t \in Tenants \cup {None} :
       /\ KnownUser(u)
       /\ LET chosen == IF t = None THEN TenantsOf(u) ELSE {t} IN
            IF Cardinality(chosen) = 1
              THEN \E x \in chosen :
                     Goto(s, "member", [NoArg EXCEPT !.user = u, !.tenant = x, !.began = now])
              ELSE Goto(s, "refused", NoArg)
  /\ UNCHANGED <<tables, token, use, now, faults, history, torn>>

\* Mutant: a token is good for ever.
ValidateTokenForever(s) == token[s] # None

\* ValidateToken: the signature is ours and the token has not expired.
ValidateToken(s) == token[s] # None /\ now < token[s].exp

\* SwitchTenant: the user is the one of the token.
SwitchTenant(s) ==
  /\ pc[s] = "ok" /\ ValidateToken(s)
  /\ \E t \in Tenants :
       Goto(s, "member", [NoArg EXCEPT !.user = token[s].user, !.tenant = t, !.began = now])
  /\ UNCHANGED <<tables, token, use, now, faults, history, torn>>

\* issueLoginResult, GetTenantMember.
CheckMembership(s) ==
  /\ pc[s] = "member"
  /\ Goto(s, IF IsMember(arg[s].tenant, arg[s].user) THEN "roles" ELSE "refused",
             arg[s])
  /\ UNCHANGED <<tables, token, use, now, faults, history, torn>>

\* issueLoginResult, ListUserRolesInTenant.
ReadRoles(s) ==
  /\ pc[s] = "roles"
  /\ Goto(s, "perms", [arg[s] EXCEPT !.codes =
       {roles[r].code : r \in RolesOf(arg[s].tenant, arg[s].user)}])
  /\ torn' = torn \ {s}
  /\ UNCHANGED <<tables, token, use, now, faults, history>>

\* issueLoginResult, ListUserPermissionsInTenant.
ReadPermissions(s) ==
  /\ pc[s] = "perms"
  /\ Goto(s, "issue", [arg[s] EXCEPT !.perms = PermissionsInTenant(arg[s].tenant, arg[s].user)])
  /\ UNCHANGED <<tables, token, use, now, faults, history, torn>>

\* GenerateToken: the clock is read here, after the permissions.
GenerateToken(s) ==
  /\ pc[s] = "issue"
  /\ token' = [token EXCEPT ![s] =
       [user |-> arg[s].user, tenant |-> arg[s].tenant, codes |-> arg[s].codes,
        perms |-> arg[s].perms, began |-> arg[s].began, exp |-> now + TTL,
        torn |-> s \in torn]]
  /\ use' = [use EXCEPT ![s] = None]
  /\ Goto(s, "ok", NoArg)
  /\ UNCHANGED <<tables, now, faults, history, torn>>

\* HasPermission: the claims of s that allow p; "*" allows everything.
Allowing(s, p) == token[s].perms \cap {p, Star}

\* AuthRequired: the claims are those of a valid token.
AuthRequired(s) == token[s] # None /\ ValidateToken(s)

\* TenantRequired: a tenant in the header must be the one of the token.
TenantRequired(s, header) == header \in {None, token[s].tenant}

\* A request of s that a handler which asks for p carries out.
Request(s) ==
  /\ AuthRequired(s)
  /\ \E p \in Permissions, header \in Tenants \cup {None} :
       /\ TenantRequired(s, header)
       /\ \E claim \in Allowing(s, p) :
            use' = [use EXCEPT ![s] = [perm |-> claim, time |-> now]]
  /\ UNCHANGED <<pc, arg, tables, token, now, faults, history, torn>>

Tick ==
  /\ now < MaxTime
  /\ now' = now + 1
  /\ UNCHANGED <<pc, arg, tables, token, use, faults, history, torn>>

-----------------------------------------------------------------------------
RegisterStep(u) == Register(u) \/ CreateUser(u) \/ JoinTenant(u)
RoleStep(c) == ClearRolePermissions(c) \/ AssignPermissionToRole(c)
AdminStep(a) == \/ AddMember(a) \/ AddTenantMember(a) \/ AssignMemberRoles(a)
                \/ AssignUserRole(a) \/ RemoveMemberRole(a)
                \/ AssignRolePermissions(a)
SessionStep(s) == \/ Login(s) \/ SwitchTenant(s) \/ CheckMembership(s)
                  \/ ReadRoles(s) \/ ReadPermissions(s) \/ GenerateToken(s)
                  \/ Request(s)

Step ==
  \/ \E u \in Registers : RegisterStep(u)
  \/ \E r \in RoleCalls : CreateRole(r) \/ InsertRole(r)
  \/ \E c \in RoleCalls \cup Admins : RoleStep(c)
  \/ \E a \in Admins : AdminStep(a)
  \/ \E s \in Sessions : SessionStep(s)
  \/ \E c \in Calls : Fail(c)
  \/ Tick

\* The history variable lastHeld is brought up to date by every step.
Next ==
  /\ Step
  /\ lastHeld' = [k \in DOMAIN lastHeld |->
                    IF Held(k[1], k[2], k[3])' THEN now' ELSE lastHeld[k]]

Spec == Init /\ [][Next]_vars

-----------------------------------------------------------------------------
\* Every variable has its type: the tables of identity_repo, the locals of the
\* calls, and a token with an expiry in it.
TypeOK ==
  /\ pc \in [Calls -> PCs]
  /\ users \in [Registers -> Emails \cup {None}]
  /\ members \subseteq Tenants \X Registers
  /\ roles \in [RoleCalls -> RoleRow \cup {None}]
  /\ grants \subseteq RoleCalls \X Permissions
  /\ userRoles \subseteq Tenants \X Registers \X RoleCalls
  /\ token \in [Sessions -> Token \cup {None}]
  /\ use \in [Sessions -> Use \cup {None}]
  /\ now \in Nat /\ faults \in Nat
  /\ wanted \in [RoleCalls -> SUBSET Permissions]
  /\ disturbed \subseteq RoleCalls /\ torn \subseteq Sessions

\* Two registrations that pass the look-up with the same email do not both
\* leave a user, and two role creations do not both leave a role with the same
\* code in a tenant (Register and CreateRole look first and insert later).
UniqueKeys ==
  /\ \A u, v \in Registers : users[u] # None /\ users[u] = users[v] => u = v
  /\ \A r, q \in RoleCalls : roles[r] # None /\ roles[r] = roles[q] => r = q

\* A registration for a tenant that was answered without an error made the
\* user a member, unless the database failed (Register ignores the error of
\* AddTenantMember).
RegisteredIsMember ==
  \A u \in Registers :
    pc[u] = "ok" /\ arg[u].tenant # None /\ faults = 0
      => <<arg[u].tenant, u>> \in members

\* A role holds exactly what the last assignment that was answered asked for,
\* once no assignment is under way, unless assignments overlapped, broke off
\* or lost their DELETE (AssignPermissionsToRole clears and inserts in
\* separate statements).
RoleAsAssigned ==
  \A r \in RoleCalls :
    \/ r \in disturbed
    \/ \E c \in RoleCalls \cup Admins : Filling(c, r)
    \/ PermissionsOf(r) = wanted[r]

\* A permission that is taken from a user cannot be used longer than a token
\* lives: whatever is let through was held when the login that issued the
\* token was under way, or later, and the token is not older than TTL
\* (issueLoginResult, ValidateToken, RequirePermission).
RevocationTakesEffect ==
  \A s \in Sessions : use[s] # None
    => /\ use[s].time < token[s].exp
       /\ lastHeld[<<token[s].tenant, token[s].user, use[s].perm>>] # None
       /\ lastHeld[<<token[s].tenant, token[s].user, use[s].perm>>] >= token[s].began

\* A token names the roles its permissions come from, unless somebody wrote
\* between the two queries of issueLoginResult: with no role in it there is no
\* permission in it.
TokenCoherent ==
  \A s \in Sessions :
    token[s] # None /\ ~ token[s].torn /\ token[s].codes = {} => token[s].perms = {}

\* What a call that reported success was asked for is there: the membership of a
\* registration, and the permissions of a role.
AccessAsAsked == RegisteredIsMember /\ RoleAsAssigned

\* A token tells the truth: what it lets through was held when it was issued, and
\* its roles and permissions belong together.
TokensAreTrue == RevocationTakesEffect /\ TokenCoherent
=============================================================================
