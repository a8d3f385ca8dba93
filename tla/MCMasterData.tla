---------------------------- MODULE MCMasterData ----------------------------
(* One run over the master data.  A behaviour is about parties (their roles *)
(* and status, the paged list, or addresses), about the catalog (unit       *)
(* conversions, products, or variants), about custom fields, or about the    *)
(* organization tree.                                                        *)
EXTENDS Parties, Catalog, CustomFields, OrgHierarchy

VARIABLE scene

\* Calls of one kind are numbered and begin in the order of their numbers:
\* they are interchangeable.
InOrder(pc, S) == \A i, j \in S : i < j /\ pc[j] # "idle" => pc[i] # "idle"

\* The casts: which calls take part in each scene.
PBegun(S) == {c \in S : ppc[c] # "idle"}
Walking == {w \in Walkers : walk[w].label # "idle"}
RolesCast ==
  /\ PBegun(Additions) = {} /\ Walking = {} /\ Cardinality(PBegun(Creations)) <= 2
  /\ InOrder(ppc, Creations) /\ InOrder(ppc, PartyCalls)
  /\ Cardinality(PBegun(Creations)) <= 1 \/ PBegun(PartyCalls) = {}
PagesCast ==
  /\ InOrder(ppc, Creations) /\ InOrder(ppc, PartyCalls)
  /\ PBegun(Additions) = {} /\ Cardinality(PBegun(PartyCalls)) <= 1
  /\ mishaps = 0 /\ \A c \in PartyCalls : ppc[c] # "write"
  /\ Cardinality({p \in Creations : ppc[p] \in {"insert", "roles"}}) <= 1
  /\ \A p \in Creations : parg[p].code = Unset /\ parg[p].todo \in {<<>>, <<"t1">>}
AddressCast ==
  /\ InOrder(ppc, Creations) /\ PBegun(PartyCalls) = {} /\ Walking = {}
  /\ \A p \in Creations : parg[p].todo = <<>>

KBegun(S) == {c \in S : kpc[c] # "idle"}
KInOrder == \A S \in {Units, Conversions, Products, Variants, ProductCalls} : InOrder(kpc, S)
ConvertCast ==
  /\ KInOrder /\ \A u \in Units : GetUnitByID(u) => unit[u].letters = u
  /\ KBegun(Products \cup Variants \cup ProductCalls) = {}
  /\ KBegun(Conversions) = {} \/ Cardinality({u \in Units : GetUnitByID(u)}) >= 2
ProductCast ==
  /\ KInOrder
  /\ KBegun(Conversions \cup Variants) = {} /\ Cardinality(KBegun(Units)) <= 1
  /\ Cardinality(KBegun(Products)) <= 1 \/ KBegun(ProductCalls) = {}
VariantCast ==
  /\ KInOrder
  /\ KBegun(Conversions) = {} /\ Cardinality(KBegun(Units)) <= 2
  /\ \A p \in Products : karg[p] = Missing \/ (karg[p].sku = Missing /\ karg[p].barcode = Missing)
  /\ \A c \in ProductCalls : kpc[c] # "write"

DBegun(S) == {c \in S : dpc[c] # "idle"}
FieldCast ==
  /\ InOrder(dpc, Fields) /\ InOrder(dpc, FieldCalls)
  /\ Cardinality(DBegun(FieldCallers)) <= IF Cardinality(DBegun(Fields)) <= 1 THEN 4 ELSE 3

\* Definitions: selects and texts that let "x" through, with and without
\* options, a default that is not allowed, and a field that takes anything.
\* "" is the empty text: an update may leave a required text that takes no other.
MCFieldRequests ==
  {[code |-> k, type |-> t, options |-> o, rules |-> {"x"}, required |-> r, default |-> v, active |-> TRUE] :
     k \in FieldCodes, t \in {"select", "text"}, o \in {{}, {"x"}}, r \in BOOLEAN, v \in {Nil, ""}}
  \cup {[code |-> k, type |-> "json", options |-> {}, rules |-> {}, required |-> FALSE,
         default |-> Nil, active |-> TRUE] : k \in FieldCodes}
MCFieldChanges ==
  {[options |-> o, rules |-> {""}, required |-> r, default |-> Nil, active |-> a] :
     o \in {{}, {"x"}, {""}}, r \in BOOLEAN, a \in BOOLEAN}

MCInit ==
  /\ PartyInit /\ CatalogInit /\ FieldInit /\ OrgInit
  /\ scene \in {"roles", "pages", "addresses", "convert", "products", "variants", "fields", "orgs"}

\* The four components side by side, with any cast.
MasterNext ==
  \/ PartyNext /\ UNCHANGED <<catalogVars, fieldVars, orgVars>>
  \/ CatalogNext /\ UNCHANGED <<partyVars, fieldVars, orgVars>>
  \/ FieldNext /\ UNCHANGED <<partyVars, catalogVars, orgVars>>
  \/ OrgNext /\ UNCHANGED <<partyVars, catalogVars, fieldVars>>
MasterSpec ==
  /\ PartyInit /\ CatalogInit /\ FieldInit /\ OrgInit
  /\ [][MasterNext]_<<partyVars, catalogVars, fieldVars, orgVars>>

OnlyParties == UNCHANGED <<scene, catalogVars, fieldVars, orgVars>>
OnlyCatalog == UNCHANGED <<scene, partyVars, fieldVars, orgVars>>
MCNext ==
  \/ scene = "roles" /\ OnlyParties /\ PartyNext /\ RolesCast'
  \/ scene = "pages" /\ OnlyParties /\ PartyNext /\ PagesCast'
  \/ scene = "addresses" /\ OnlyParties /\ PartyNext /\ AddressCast'
  \/ scene = "convert" /\ OnlyCatalog /\ CatalogNext /\ ConvertCast'
  \/ scene = "products" /\ OnlyCatalog /\ CatalogNext /\ ProductCast'
  \/ scene = "variants" /\ OnlyCatalog /\ CatalogNext /\ VariantCast'
  \/ scene = "fields" /\ UNCHANGED <<scene, partyVars, catalogVars, orgVars>> /\ FieldNext /\ FieldCast'
  \/ scene = "orgs" /\ UNCHANGED <<scene, partyVars, catalogVars, fieldVars>> /\ OrgNext /\ InOrder(upc, Updates)'
MCSpec == MCInit /\ [][MCNext]_<<partyVars, catalogVars, fieldVars, orgVars, scene>>

Symmetry == Permutations(Orgs)

\* Types, and what the schema promises behind checks that race: the unique codes
\* of parties, units, conversions, products, variants and fields.
MasterSchema ==
  /\ PartyTypeOK
  /\ CatalogTypeOK /\ UnitCodesDiffer /\ SkusUnique
  /\ FieldTypeOK /\ SelectHasOptions
  /\ OrgTypeOK

\* What a call that reported success was asked for is there and stays: the roles
\* and the addresses of a party, the status, barcode or options of an update that
\* overlapped no other (every update writes back a row it read before), and the
\* deletion of a definition.
AsAsked ==
  /\ InitialRolesGiven /\ AddressesHaveOwners /\ PartyAsAsked
  /\ ProductAsAsked
  /\ OptionsAsAsked /\ DeletedStaysDeleted
=============================================================================
