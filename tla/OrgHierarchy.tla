---------------------------- MODULE OrgHierarchy ----------------------------
(***************************************************************************)
(* The organization tree of one tenant: Create and Update of the           *)
(* organization usecase, CheckCircularReference and BuildTree               *)
(* (internal/core/domain/organization) and the repository's UPDATE.         *)
(*                                                                         *)
(* Update is three statements on the pool, in no transaction: it reads the  *)
(* organization, lists the tenant for the cycle check, and writes the whole *)
(* organization back, the parent it read included.                          *)
(***************************************************************************)
EXTENDS Naturals, FiniteSets

CONSTANTS
  Orgs,      \* organization ids of the tenant
  Foreign,   \* organizations of other tenants: they satisfy the foreign key
  Updates,   \* Update requests
  None       \* no parent (NULL)

ASSUME OrgsAssumption ==
  /\ IsFiniteSet(Orgs)
  /\ Orgs \cap Foreign = {} /\ None \notin Orgs \cup Foreign

VARIABLES
  stage,     \* stage[o]: "new", "checked" (Create has read the parent) or "row"
  parent,    \* parent[o]: parent_id
  active,    \* organizations whose status is active
  upc,       \* upc[u]: "idle", "check", "write" or "done"
  cmd,       \* cmd[u]: target of the update, and the parent it asks for
  copy,      \* copy[u]: parent and status of the organization value held by u
  raced      \* history variable: an update overlapped another update

orgVars == <<stage, parent, active, upc, cmd, copy, raced>>

Rows == {o \in Orgs : stage[o] = "row"}

-----------------------------------------------------------------------------
(* The domain functions.                                                   *)

\* The walk of CheckCircularReference up parentMap: where it is after n steps.
\* An id that is not listed has no entry in the map.
Walk(par, listed, start) ==
  LET at[n \in 0..Cardinality(Orgs)] ==
        IF n = 0 THEN start
        ELSE IF at[n - 1] \in listed THEN par[at[n - 1]] ELSE None
  IN at

\* The walk comes back to an organization it has visited: more steps than rows.
Endless(par, listed, start) ==
  Walk(par, listed, start)[Cardinality(Orgs)] \in listed

\* Mutant: only the new parent itself is compared.
CheckCircularReferenceShallow(par, listed, target, newParent) ==
  newParent = None \/ newParent # target

\* CheckCircularReference returns nil.
CheckCircularReference(par, listed, target, newParent) ==
  \/ newParent = None
  \/ /\ newParent # target
     /\ \A n \in 0..Cardinality(Orgs) : Walk(par, listed, newParent)[n] # target
     /\ ~ Endless(par, listed, newParent)

\* The organizations that BuildTree places: the roots, the children of the
\* roots, and so on down.
BuildTree(par, listed) ==
  LET level[n \in 0..Cardinality(Orgs)] ==
        IF n = 0 THEN {o \in listed : par[o] = None}
        ELSE level[n - 1] \cup {o \in listed : par[o] \in level[n - 1]}
  IN level[Cardinality(Orgs)]

-----------------------------------------------------------------------------
OrgInit ==
  /\ stage = [o \in Orgs |-> "new"]
  /\ parent = [o \in Orgs |-> None]
  /\ active = {}
  /\ upc = [u \in Updates |-> "idle"]
  /\ cmd = [u \in Updates |-> None]
  /\ copy = [u \in Updates |-> None]
  /\ raced = FALSE

\* Create reads the parent it was given, which must be an active organization
\* of the tenant ...
CheckParent(o) ==
  /\ stage[o] = "new"
  /\ \E p \in (Rows \cap active) \cup {None} : parent' = [parent EXCEPT ![o] = p]
  /\ stage' = [stage EXCEPT ![o] = "checked"]
  /\ UNCHANGED <<active, upc, cmd, copy, raced>>

\* INSERT INTO organizations.
StoreOrg(o) ==
  /\ stage' = [stage EXCEPT ![o] = "row"]
  /\ active' = active \cup {o}

\* ... and inserts.  Organizations are never deleted: the foreign key holds.
InsertOrg(o) ==
  /\ stage[o] = "checked"
  /\ StoreOrg(o)
  /\ UNCHANGED <<parent, upc, cmd, copy, raced>>

\* The insert fails: nothing of the organization is left.
FailCreate(o) ==
  /\ stage[o] = "checked"
  /\ stage' = [stage EXCEPT ![o] = "new"]
  /\ parent' = [parent EXCEPT ![o] = None]
  /\ UNCHANGED <<active, upc, cmd, copy, raced>>

Busy(u) == upc[u] \in {"check", "write"}

\* Update: GetByID.  The hierarchy check is skipped when the command names no
\* parent, or the parent the organization has.  The nil UUID as the new parent
\* passes the check and becomes NULL: COALESCE keeps the row's parent then.
ReadOrg(u) ==
  /\ upc[u] = "idle"
  /\ \E o \in Rows, p \in Rows \cup Foreign \cup {None}, setActive \in BOOLEAN :
       /\ cmd' = [cmd EXCEPT ![u] = [target |-> o, parent |-> p]]
       /\ \E held \in {parent[o]} \cup (IF p = None THEN {None} ELSE {}) :
            copy' = [copy EXCEPT ![u] = [parent |-> held, active |-> setActive]]
       /\ upc' = [upc EXCEPT ![u] =
            IF p # None /\ p # parent[o] THEN "check" ELSE "write"]
  /\ raced' = (raced \/ \E v \in Updates \ {u} : Busy(v))
  /\ UNCHANGED <<stage, parent, active>>

\* ListByTenant and CheckCircularReference; a refusal ends the request.
CheckHierarchy(u) ==
  /\ upc[u] = "check"
  /\ \/ /\ CheckCircularReference(parent, Rows, cmd[u].target, cmd[u].parent)
        /\ copy' = [copy EXCEPT ![u].parent = cmd[u].parent]
        /\ upc' = [upc EXCEPT ![u] = "write"]
     \/ /\ ~ CheckCircularReference(parent, Rows, cmd[u].target, cmd[u].parent)
        /\ upc' = [upc EXCEPT ![u] = "done"]
        /\ UNCHANGED copy
  /\ UNCHANGED <<stage, parent, active, cmd, raced>>

\* UPDATE organizations SET parent_id = COALESCE(held, parent_id), status = ...
SetOrg(o, held) ==
  /\ parent' = IF held.parent = None THEN parent
               ELSE [parent EXCEPT ![o] = held.parent]
  /\ active' = IF held.active THEN active \cup {o} ELSE active \ {o}

\* Update writes the value it holds.
WriteOrg(u) ==
  /\ upc[u] = "write"
  /\ SetOrg(cmd[u].target, copy[u])
  /\ upc' = [upc EXCEPT ![u] = "done"]
  /\ UNCHANGED <<stage, cmd, copy, raced>>

\* A query of Update fails: what it read is dropped.
FailUpdate(u) ==
  /\ Busy(u)
  /\ upc' = [upc EXCEPT ![u] = "done"]
  /\ UNCHANGED <<stage, parent, active, cmd, copy, raced>>

OrgNext ==
  \/ \E o \in Orgs : CheckParent(o) \/ InsertOrg(o) \/ FailCreate(o)
  \/ \E u \in Updates :
       ReadOrg(u) \/ CheckHierarchy(u) \/ WriteOrg(u) \/ FailUpdate(u)

OrgSpec == OrgInit /\ [][OrgNext]_orgVars

-----------------------------------------------------------------------------
(* Properties.                                                             *)

\* Every variable has its type.
OrgTypeOK ==
  /\ stage \in [Orgs -> {"new", "checked", "row"}]
  /\ parent \in [Orgs -> Orgs \cup Foreign \cup {None}]
  /\ active \subseteq Rows
  /\ upc \in [Updates -> {"idle", "check", "write", "done"}]
  /\ \A u \in Updates : Busy(u) => cmd[u].target \in Rows
  /\ raced \in BOOLEAN

\* No organization is its own ancestor.
Acyclic == \A o \in Rows : ~ Endless(parent, Rows, o)

\* Updates that do not overlap keep the hierarchy free of cycles, whatever
\* creations come between their statements.
AcyclicUnlessRaced == ~ raced => Acyclic

\* The documented invariant: cyclic hierarchies are rejected.
AcyclicHierarchy == Acyclic

\* GET /organizations/tree shows an organization exactly when its chain of
\* parents ends at a root of the tenant: what is on a cycle, or under one, or
\* under another tenant's organization, is missing from the answer (BuildTree
\* against a definition that looks upwards instead of downwards).
TreeIsRootedPart ==
  BuildTree(parent, Rows) =
    {o \in Rows : \E n \in 0..Cardinality(Orgs) :
        LET at == Walk(parent, Rows, o) IN at[n] \in Rows /\ parent[at[n]] = None}

\* The hierarchy has no cycle unless updates overlapped, and whatever it has
\* become, the tree answer shows its rooted part.
HierarchySound == AcyclicUnlessRaced /\ TreeIsRootedPart
=============================================================================
