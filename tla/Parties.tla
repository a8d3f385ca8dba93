------------------------------- MODULE Parties -------------------------------
(***************************************************************************)
(* Parties, their roles, addresses and contacts, and the paged list of     *)
(* parties.  No usecase opens a transaction: every statement stands alone. *)
(* One tenant; names and other columns stand behind the status.            *)
(***************************************************************************)
EXTENDS Integers, Sequences, FiniteSets, SequencesExt

CONSTANTS
  Creations,    \* calls of CreateParty, and the parties they create
  PartyCalls,   \* calls of UpdateParty, AddRole and RemoveRole
  Additions,    \* calls of AddAddress and AddContact, and the rows they create
  Walkers,      \* clients that read the list page by page
  RoleTypes, OrgIds, PartyCodes,
  DefaultPage, MaxPage,   \* 20 and 100
  MaxMishaps,   \* bound on statements that fail
  Unset

ASSUME PartyCallersDisjoint ==
  /\ Creations \cap (PartyCalls \cup Additions) = {} /\ PartyCalls \cap Additions = {}
ASSUME PageBounds ==
  /\ DefaultPage \in Nat \ {0} /\ MaxPage \in Nat /\ DefaultPage <= MaxPage
  /\ MaxMishaps \in Nat

VARIABLES
  ppc, parg,
  party,        \* table parties
  born,         \* its order by created_at
  role,         \* table party_roles
  address,      \* table addresses
  addressOf,    \* table party_addresses
  contact,      \* table contacts
  walk,         \* what each client has read
  mishaps,
  swallowed,    \* history: initial roles whose insert failed
  removed,      \* history: roles removed
  severed,      \* history: calls of AddAddress that failed between their inserts
  asked,        \* history: the status last asked for
  collided      \* history: parties on which two updates overlapped

partyTables == <<party, born, role, address, addressOf, contact>>
partyHistory == <<swallowed, removed, severed, asked, collided>>
partyVars == <<ppc, parg, partyTables, walk, mishaps, partyHistory>>

PartyStatuses == {"active", "inactive"}
PartyCallers == Creations \cup PartyCalls \cup Additions
PartyLabels == {"idle", "insert", "roles", "write", "add", "address", "link", "contact", "ok", "refused"}
PartyRow == [code : PartyCodes \cup {Unset}, status : PartyStatuses]
PartyRole == Creations \X RoleTypes \X (OrgIds \cup {Unset})

ASSUME UnsetIsNothing ==
  /\ Unset \notin Creations /\ Unset \notin OrgIds \cup PartyCodes /\ Unset \notin PartyRow

NoPartyArgs == [party |-> Unset, code |-> Unset, status |-> Unset, asked |-> Unset,
                todo |-> <<>>, role |-> Unset]
WalkStart == [label |-> "idle", role |-> Unset, size |-> 0, page |-> 0, total |-> 0,
              first |-> {}, seen |-> {}, astray |-> FALSE]

PartyInit ==
  /\ ppc = [c \in PartyCallers |-> "idle"]
  /\ parg = [c \in PartyCallers |-> NoPartyArgs]
  /\ party = [p \in Creations |-> Unset] /\ born = <<>>
  /\ role = {} /\ address = {} /\ addressOf = {} /\ contact = {}
  /\ walk = [w \in Walkers |-> WalkStart]
  /\ mishaps = 0 /\ swallowed = {} /\ removed = {} /\ severed = {}
  /\ asked = [p \in Creations |-> Unset] /\ collided = {}

PartyTo(c, label, r) ==
  /\ ppc' = [ppc EXCEPT ![c] = label]
  /\ parg' = [parg EXCEPT ![c] = r]

Mishap == mishaps < MaxMishaps /\ mishaps' = mishaps + 1
Smooth == UNCHANGED mishaps

\* GetByID finds the party; parties are never deleted.
PartyExists(p) == party[p] # Unset

-----------------------------------------------------------------------------
(* CreateParty.                                                            *)

\* The trimmed code may be empty, which the column holds as NULL.
RequestParty(p) ==
  /\ ppc[p] = "idle"
  /\ \E code \in PartyCodes \cup {Unset}, todo \in BoundedSeq(RoleTypes, 2) :
       PartyTo(p, "insert", [NoPartyArgs EXCEPT !.code = code, !.todo = todo, !.role = Range(todo)])
  /\ UNCHANGED <<partyTables, walk, mishaps, partyHistory>>

CodeTaken(code) == code # Unset /\ \E q \in Creations : PartyExists(q) /\ party[q].code = code

\* INSERT INTO parties.
InsertParty(p, code) ==
  /\ party' = [party EXCEPT ![p] = [code |-> code, status |-> "active"]]
  /\ born' = Append(born, p)

\* The INSERT: the unique index refuses a code that is taken.
CreateParty(p) ==
  /\ ppc[p] = "insert"
  /\ IF CodeTaken(parg[p].code)
       THEN PartyTo(p, "refused", NoPartyArgs) /\ UNCHANGED <<party, born, asked>>
       ELSE /\ InsertParty(p, parg[p].code)
            /\ asked' = [asked EXCEPT ![p] = "active"]
            /\ PartyTo(p, "roles", parg[p])
  /\ UNCHANGED <<role, address, addressOf, contact, walk, mishaps, swallowed, removed, severed, collided>>

\* CreatePartyRole: the unique index treats a missing organization as one more value.
InsertRole(r) == role' = role \cup {r}

\* The loop over the initial roles, which passes over every error.
AddInitialRole(p) ==
  LET todo == parg[p].todo IN
  /\ ppc[p] = "roles"
  /\ \/ /\ todo = <<>>
        /\ PartyTo(p, "ok", parg[p]) /\ UNCHANGED <<role, mishaps, swallowed>>
     \/ /\ todo # <<>>
        /\ PartyTo(p, "roles", [parg[p] EXCEPT !.todo = Tail(todo)])
        /\ \/ Smooth /\ InsertRole(<<p, Head(todo), Unset>>) /\ UNCHANGED swallowed
           \/ Mishap /\ swallowed' = swallowed \cup {<<p, Head(todo)>>} /\ UNCHANGED role
  /\ UNCHANGED <<party, born, address, addressOf, contact, walk, removed, severed, asked, collided>>

-----------------------------------------------------------------------------
(* UpdateParty, AddRole, RemoveRole.                                       *)

PartyUpdating(p) == {c \in PartyCalls : ppc[c] = "write" /\ parg[c].party = p}

\* Mutant: an update without a status makes the party active.
PartyStatusToWriteActive(p, s) == IF s = Unset THEN "active" ELSE s

PartyStatusToWrite(p, s) == IF s = Unset THEN party[p].status ELSE s

ReadParty(c) ==
  /\ ppc[c] = "idle"
  /\ \E p \in Creations, s \in PartyStatuses \cup {Unset} :
       /\ PartyExists(p)
       /\ PartyTo(c, "write", [NoPartyArgs EXCEPT !.party = p, !.asked = s,
                                                  !.status = PartyStatusToWrite(p, s)])
       /\ collided' = IF PartyUpdating(p) # {} THEN collided \cup {p} ELSE collided
  /\ UNCHANGED <<partyTables, walk, mishaps, swallowed, removed, severed, asked>>

\* UPDATE parties: the status is never NULL, so COALESCE takes the one passed.
SetPartyStatus(p, s) == party' = [party EXCEPT ![p].status = s]

UpdateParty(c) ==
  LET p == parg[c].party IN
  /\ ppc[c] = "write"
  /\ SetPartyStatus(p, parg[c].status)
  /\ asked' = IF parg[c].asked = Unset THEN asked ELSE [asked EXCEPT ![p] = parg[c].asked]
  /\ PartyTo(c, "ok", NoPartyArgs)
  /\ UNCHANGED <<born, role, address, addressOf, contact, walk, mishaps, swallowed, removed, severed, collided>>

VerifyParty(c) ==
  /\ ppc[c] = "idle"
  /\ \E p \in Creations, t \in RoleTypes, o \in OrgIds \cup {Unset} :
       PartyTo(c, IF PartyExists(p) THEN "add" ELSE "refused",
               [NoPartyArgs EXCEPT !.role = <<p, t, o>>])
  /\ UNCHANGED <<partyTables, walk, mishaps, partyHistory>>

AddRole(c) ==
  /\ ppc[c] = "add"
  /\ InsertRole(parg[c].role)
  /\ PartyTo(c, IF parg[c].role \in role THEN "refused" ELSE "ok", NoPartyArgs)
  /\ UNCHANGED <<party, born, address, addressOf, contact, walk, mishaps, partyHistory>>

RemoveRole(c) ==
  /\ ppc[c] = "idle"
  /\ \E r \in role : /\ role' = role \ {r}
                     /\ removed' = removed \cup {<<r[1], r[2]>>}
  /\ PartyTo(c, "ok", NoPartyArgs)
  /\ UNCHANGED <<party, born, address, addressOf, contact, walk, mishaps, swallowed, severed, asked, collided>>

-----------------------------------------------------------------------------
(* AddAddress: two inserts; AddContact: one.                               *)

\* INSERT INTO addresses, INSERT INTO contacts.
InsertAddress(a) == address' = address \cup {a}
InsertContact(p, a) == contact' = contact \cup {<<p, a>>}

VerifyOwner(a) ==
  /\ ppc[a] = "idle"
  /\ \E p \in Creations, next \in {"address", "contact"} :
       PartyTo(a, IF PartyExists(p) THEN next ELSE "refused", [NoPartyArgs EXCEPT !.party = p])
  /\ UNCHANGED <<partyTables, walk, mishaps, partyHistory>>

CreateAddress(a) ==
  /\ ppc[a] = "address"
  /\ \/ Smooth /\ InsertAddress(a) /\ PartyTo(a, "link", parg[a])
     \/ Mishap /\ PartyTo(a, "refused", NoPartyArgs) /\ UNCHANGED address
  /\ UNCHANGED <<party, born, role, addressOf, contact, walk, partyHistory>>

LinkPartyAddress(a) ==
  /\ ppc[a] = "link"
  /\ \/ /\ Smooth /\ addressOf' = addressOf \cup {<<parg[a].party, a>>}
        /\ PartyTo(a, "ok", NoPartyArgs) /\ UNCHANGED severed
     \/ /\ Mishap /\ severed' = severed \cup {a}
        /\ PartyTo(a, "refused", NoPartyArgs) /\ UNCHANGED addressOf
  /\ UNCHANGED <<party, born, role, address, contact, walk, swallowed, removed, asked, collided>>

CreateContact(a) ==
  /\ ppc[a] = "contact"
  /\ InsertContact(parg[a].party, a)
  /\ PartyTo(a, "ok", NoPartyArgs)
  /\ UNCHANGED <<party, born, role, address, addressOf, walk, mishaps, partyHistory>>

-----------------------------------------------------------------------------
(* ListParties, called page after page until the total is reached.         *)

\* The size of a page, after the usecase has looked at it.
PageSizeOf(n) == IF n < 1 \/ n > MaxPage THEN DefaultPage ELSE n

\* Mutant: the smaller of the two.
LimitOfSmaller(size) == IF size < DefaultPage THEN size ELSE DefaultPage

\* The repository reads at least DefaultPage rows: max(filter.Limit, 20).
LimitOf(size) == IF size > DefaultPage THEN size ELSE DefaultPage

\* ListPartiesByRole joins: one row for each role of the type.
RowsOf(p, type) == Cardinality({r \in role : r[1] = p /\ r[2] = type})
Copies(p, n) == [i \in 1..n |-> p]

\* The rows of the query, newest first; without a role, one for each party.
MatchingRows(type) ==
  LET rows[n \in 0..Len(born)] ==
        IF n = 0 THEN <<>>
        ELSE Copies(born[n], IF type = Unset THEN 1 ELSE RowsOf(born[n], type)) \o rows[n - 1]
  IN rows[Len(born)]

\* CountParties, or CountPartiesByRole with its DISTINCT.
CountParties(type) == Cardinality(Range(MatchingRows(type)))

StartWalk(w) ==
  /\ walk[w].label = "idle"
  /\ \E n \in 0..MaxPage + 1, type \in RoleTypes \cup {Unset} :
       walk' = [walk EXCEPT ![w] = [WalkStart EXCEPT
                  !.label = "count", !.role = type, !.size = PageSizeOf(n), !.page = 1,
                  !.first = Range(MatchingRows(type))]]
  /\ UNCHANGED <<ppc, parg, partyTables, mishaps, partyHistory>>

\* List of the repository: the count ...
CountStep(w) ==
  /\ walk[w].label = "count"
  /\ walk' = [walk EXCEPT ![w].label = "rows", ![w].total = CountParties(walk[w].role)]
  /\ UNCHANGED <<ppc, parg, partyTables, mishaps, partyHistory>>

\* ... and the rows from the offset of the page on.
RowsStep(w) ==
  LET rows == MatchingRows(walk[w].role)
      offset == (walk[w].page - 1) * walk[w].size
      got == {rows[i] : i \in {n \in DOMAIN rows : offset < n /\ n <= offset + LimitOf(walk[w].size)}} IN
  /\ walk[w].label = "rows"
  /\ walk' = [walk EXCEPT ![w].seen = @ \cup got, ![w].page = @ + 1,
                ![w].astray = Len(rows) # walk[w].total,
                ![w].label = IF walk[w].page * walk[w].size >= walk[w].total THEN "done" ELSE "count"]
  /\ UNCHANGED <<ppc, parg, partyTables, mishaps, partyHistory>>

PartyNext ==
  \/ \E p \in Creations : RequestParty(p) \/ CreateParty(p) \/ AddInitialRole(p)
  \/ \E c \in PartyCalls : \/ ReadParty(c) \/ UpdateParty(c) \/ VerifyParty(c)
                           \/ AddRole(c) \/ RemoveRole(c)
  \/ \E a \in Additions : \/ VerifyOwner(a) \/ CreateAddress(a) \/ LinkPartyAddress(a)
                          \/ CreateContact(a)
  \/ \E w \in Walkers : StartWalk(w) \/ CountStep(w) \/ RowsStep(w)

-----------------------------------------------------------------------------
(* Properties.                                                             *)

\* Type invariant, with the unique index on the code.
PartyTypeOK ==
  /\ ppc \in [PartyCallers -> PartyLabels]
  /\ party \in [Creations -> PartyRow \cup {Unset}]
  /\ role \subseteq PartyRole
  /\ address \subseteq Additions /\ addressOf \subseteq Creations \X Additions
  /\ contact \subseteq Creations \X Additions
  /\ \A p, q \in Creations : PartyExists(p) /\ PartyExists(q) /\ p # q
       => party[p].code = Unset \/ party[p].code # party[q].code

\* A party that CreateParty returned has the initial roles it asked for,
\* except those whose insert failed, and those removed since.
InitialRolesGiven ==
  \A p \in Creations : ppc[p] = "ok" =>
    \A t \in parg[p].role : <<p, t>> \in swallowed \cup removed \/ \E r \in role : r[1] = p /\ r[2] = t

\* An address belongs to a party, unless its AddAddress is between its two
\* inserts or failed there.
AddressesHaveOwners ==
  \A a \in address : \/ \E p \in Creations : <<p, a>> \in addressOf
                     \/ ppc[a] = "link" \/ a \in severed

\* A party has the status last asked for, unless two updates of it overlapped.
PartyAsAsked ==
  \A p \in Creations : PartyExists(p) /\ p \notin collided => party[p].status = asked[p]

\* A walk over the pages meets every party that was there when it started,
\* also while parties and roles are added between its pages, unless its last page
\* was cut from more or fewer rows than its total counted (a party came between
\* the two statements, or has the role for two organizations and is listed twice
\* and counted once) or a role of the type was removed.
WalkMeetsAll ==
  \A w \in Walkers : walk[w].label = "done" /\ ~walk[w].astray
        /\ (\A r \in removed : r[2] # walk[w].role)
    => walk[w].first \subseteq walk[w].seen
=============================================================================
