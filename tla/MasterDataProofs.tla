-------------------------- MODULE MasterDataProofs --------------------------
(***************************************************************************)
(* Proofs about custom fields, organizations, products and parties, for any *)
(* number of calls.                                                         *)
(***************************************************************************)
EXTENDS MCMasterData, FiniteSetTheorems, SequenceTheorems, WellFoundedInduction, TLAPS

-----------------------------------------------------------------------------
(* Custom fields.                                                          *)

\* The values of one definition, as ValuesObeyRules asks for them.
Fits(def, values) ==
  /\ def.code \in DOMAIN values =>
       (\/ values[def.code] = def.default
        \/ values[def.code] \in (CASE def.type = "select" -> def.options
                                   [] def.type = "text" -> def.rules
                                   [] OTHER -> Values))
  /\ def.required => def.code \in DOMAIN values

\* Values checked at the versions b fit what is still at that version.
Checked(b, values) ==
  /\ b \in [Fields -> Nat] /\ values \in ValueMap
  /\ \A d \in Fields : b[d] <= version[d]
  /\ \A d \in ListActiveDefinitions : b[d] = version[d] => Fits(definition[d], values)

FieldOk(d) ==
  /\ dpc[d] \in {"idle", "insert", "ok", "refused"}
  /\ dpc[d] = "insert" => /\ darg[d] \in Definition
                          /\ darg[d].type = "select" => darg[d].options # {}
  /\ dpc[d] \in {"idle", "insert"} => definition[d] = Nil /\ version[d] = 0 /\ d \notin dropped
  /\ d \in Defined => version[d] > 0

\* What an update has read stays true unless another one overlaps it.
RewriteOk(c) ==
  /\ dpc[c] \in {"idle", "write", "ok", "refused"}
  /\ dpc[c] = "write" =>
       /\ darg[c] \in [field : Fields, asked : SUBSET Values, row : Change]
       /\ version[darg[c].field] > 0
       /\ darg[c].asked # {} => darg[c].row.options = darg[c].asked
       /\ darg[c].field \in Defined /\ definition[darg[c].field].type = "select" => darg[c].row.options # {}
       /\ darg[c].field \in Defined \ crossed /\ darg[c].asked = {}
            => darg[c].row.options = definition[darg[c].field].options

SetterOk(s) ==
  /\ dpc[s] \in {"idle", "upsert", "ok", "refused"}
  /\ dpc[s] = "upsert" => darg[s].target \in Targets /\ Checked(darg[s].basis, darg[s].values)

RewritesApart ==
  \A c, e \in FieldCalls : c # e /\ dpc[c] = "write" /\ dpc[e] = "write" /\ darg[c].field = darg[e].field
    => darg[c].field \in crossed

FieldShape ==
  /\ FieldTypeOK
  /\ DOMAIN darg = FieldCallers
  /\ version \in [Fields -> Nat] /\ wished \in [Fields -> SUBSET Values]
  /\ DOMAIN basis = Targets /\ dropped \subseteq Fields /\ crossed \subseteq Fields

FieldInv ==
  /\ FieldShape
  /\ SelectHasOptions /\ DeletedStaysDeleted /\ OptionsAsAsked
  /\ \A d \in Fields : FieldOk(d)
  /\ \A c \in FieldCalls : RewriteOk(c)
  /\ \A s \in Setters : SetterOk(s)
  /\ RewritesApart
  /\ \A e \in Targets : stored[e] # Nil => Checked(basis[e], stored[e])

-----------------------------------------------------------------------------
(* The organization tree.                                                  *)

\* What a parent can be.
Above == Rows \cup Foreign \cup {None}

\* Going up from anywhere leaves every set of rows.
Grounded == \A S \in SUBSET Rows : S # {} => \E o \in S : parent[o] \notin S

\* A set that holds p and, with a row, its parent, and that does not hold t: p
\* is not below t.
Clear(t, p) == \E A \in SUBSET Above : p \in A /\ t \notin A /\ \A o \in A \cap Rows : parent[o] \in A

UpdateOk(u) ==
  Busy(u) =>
    /\ cmd[u] \in [target : Rows, parent : Above] /\ copy[u] \in [parent : Above, active : BOOLEAN]
    /\ upc[u] = "write" /\ ~raced =>
         copy[u].parent \in {None, parent[cmd[u].target]} \/ Clear(cmd[u].target, copy[u].parent)

OrgInv ==
  /\ OrgTypeOK
  /\ DOMAIN cmd = Updates /\ DOMAIN copy = Updates
  /\ \A o \in Orgs : parent[o] \in Above
  /\ \A u \in Updates : UpdateOk(u)
  /\ \A u, v \in Updates : Busy(u) /\ Busy(v) /\ u # v => raced
  /\ ~raced => Grounded
LEMMA FieldInitOk == FieldInit => FieldInv
  <1> SUFFICES ASSUME FieldInit PROVE FieldInv OBVIOUS
  <1>1. Defined = {} BY DEF FieldInit, Defined
  <1>2. FieldShape BY <1>1 DEF FieldInit, FieldShape, FieldTypeOK, FieldCallers, FieldLabels
  <1>3. \A d \in Fields : FieldOk(d) BY <1>1 DEF FieldInit, FieldOk, FieldCallers
  <1>4. \A c \in FieldCalls : RewriteOk(c) BY DEF FieldInit, RewriteOk, FieldCallers
  <1>5. \A s \in Setters : SetterOk(s) BY DEF FieldInit, SetterOk, FieldCallers
  <1>6. RewritesApart BY DEF FieldInit, RewritesApart, FieldCallers
  <1> QED BY <1>1, <1>2, <1>3, <1>4, <1>5, <1>6
        DEF FieldInit, FieldInv, SelectHasOptions, DeletedStaysDeleted, OptionsAsAsked

\* A call moves on alone.
FieldMoved(c) ==
  /\ DOMAIN dpc' = FieldCallers /\ DOMAIN darg' = FieldCallers
  /\ \A e \in FieldCallers : e # c => dpc'[e] = dpc[e] /\ darg'[e] = darg[e]

LEMMA FieldToMoves ==
  ASSUME FieldInv, NEW c \in FieldCallers, NEW label \in FieldLabels, NEW r, FieldTo(c, label, r)
  PROVE  FieldMoved(c) /\ dpc' \in [FieldCallers -> FieldLabels] /\ dpc'[c] = label /\ darg'[c] = r
  BY DEF FieldTo, FieldMoved, FieldInv, FieldShape, FieldTypeOK

\* A step that leaves definitions and values alone, and is right about the call
\* it moves.
LEMMA FieldQuiet ==
  ASSUME FieldInv, NEW c \in FieldCallers, FieldMoved(c), dpc' \in [FieldCallers -> FieldLabels],
         UNCHANGED <<definition, stored, version, basis, dropped, wished>>,
         crossed \subseteq crossed', crossed' \subseteq Fields,
         c \in Fields => FieldOk(c)', c \in FieldCalls => RewriteOk(c)', c \in Setters => SetterOk(c)',
         RewritesApart'
  PROVE  FieldInv'
  <1>1. Defined' = Defined /\ ListActiveDefinitions' = ListActiveDefinitions
    BY DEF Defined, ListActiveDefinitions
  <1>2. \A b, v : Checked(b, v)' <=> Checked(b, v) BY <1>1 DEF Checked
  <1>3. FieldShape' BY <1>1 DEF FieldInv, FieldShape, FieldTypeOK, FieldMoved
  <1>4. (SelectHasOptions /\ DeletedStaysDeleted /\ OptionsAsAsked)'
    BY <1>1 DEF FieldInv, SelectHasOptions, DeletedStaysDeleted, OptionsAsAsked
  <1>5. ASSUME NEW d \in Fields, d # c PROVE FieldOk(d)'
    BY <1>1, <1>5 DEF FieldInv, FieldOk, FieldMoved, FieldCallers
  <1>6. ASSUME NEW e \in FieldCalls, e # c PROVE RewriteOk(e)'
    BY <1>1, <1>6 DEF FieldInv, RewriteOk, FieldMoved, FieldCallers
  <1>7. ASSUME NEW s \in Setters, s # c PROVE SetterOk(s)'
    BY <1>2, <1>7 DEF FieldInv, SetterOk, FieldMoved, FieldCallers
  <1>8. (\A e \in Targets : stored[e] # Nil => Checked(basis[e], stored[e]))' BY <1>2 DEF FieldInv
  <1> QED BY <1>3, <1>4, <1>5, <1>6, <1>7, <1>8 DEF FieldInv
LEMMA FieldLabelsAre ==
  {"idle", "insert", "write", "upsert", "ok", "refused"} \subseteq FieldLabels
  BY DEF FieldLabels

\* A call that ends, or that does not write, keeps the updates apart.
LEMMA ApartKept ==
  ASSUME FieldInv, NEW c \in FieldCallers, FieldMoved(c), crossed \subseteq crossed',
         c \in FieldCalls => dpc'[c] # "write"
  PROVE  RewritesApart'
  BY DEF FieldInv, RewritesApart, FieldMoved, FieldCallers

LEMMA CheckDefinitionKeeps ==
  ASSUME FieldInv, NEW d \in Fields, CheckDefinition(d) PROVE FieldInv'
  <1> d \in FieldCallers /\ d \notin FieldCalls /\ d \notin Setters
    BY FieldCallersDisjoint DEF FieldCallers
  <1> USE FieldLabelsAre
  <1>1. UNCHANGED <<definition, stored, version, basis, dropped, wished, crossed>>
    BY DEF CheckDefinition, fieldHistory
  <1>2. PICK r \in FieldRequests :
          IF (r.type = "select" /\ r.options = {}) \/ GetDefinitionByCode(r.code) # {}
            THEN FieldTo(d, "refused", Nil) ELSE FieldTo(d, "insert", r)
    BY DEF CheckDefinition
  <1>3. \/ FieldTo(d, "refused", Nil)
        \/ FieldTo(d, "insert", r) /\ (r.type = "select" => r.options # {})
    BY <1>2
  <1>4. /\ FieldMoved(d) /\ dpc' \in [FieldCallers -> FieldLabels]
        /\ \/ dpc'[d] = "refused"
           \/ dpc'[d] = "insert" /\ darg'[d] = r /\ (r.type = "select" => r.options # {})
    BY <1>3, FieldToMoves
  <1>5. FieldOk(d)
    BY DEF FieldInv
  <1>6. Defined' = Defined BY <1>1 DEF Defined
  <1>7. FieldOk(d)'
    BY <1>1, <1>4, <1>5, <1>6, FieldRequestsTyped DEF FieldOk, CheckDefinition
  <1>8. RewritesApart' BY <1>1, <1>4, ApartKept
  <1>9. crossed' \subseteq Fields BY <1>1 DEF FieldInv, FieldShape
  <1> QED BY <1>1, <1>4, <1>7, <1>8, <1>9, FieldQuiet

LEMMA GetDefinitionByIDKeeps ==
  ASSUME FieldInv, NEW c \in FieldCalls, GetDefinitionByID(c) PROVE FieldInv'
  <1> c \in FieldCallers /\ c \notin Fields /\ c \notin Setters
    BY FieldCallersDisjoint DEF FieldCallers
  <1> USE FieldLabelsAre
  <1>1. UNCHANGED <<definition, stored, version, basis, dropped, wished>> /\ dpc[c] = "idle"
    BY DEF GetDefinitionByID
  <1>2. PICK d \in Defined, r \in FieldChanges :
       /\ FieldTo(c, "write", [field |-> d, asked |-> r.options,
            row |-> [r EXCEPT !.options = OptionsToWrite(d, r.options)]])
       /\ crossed' = IF Rewriting(d) # {} THEN crossed \cup {d} ELSE crossed
    BY DEF GetDefinitionByID
  <1>3. PICK row : row = [r EXCEPT !.options = OptionsToWrite(d, r.options)] OBVIOUS
  <1>4. d \in Fields /\ definition[d] \in Definition /\ r \in Change
    BY FieldRequestsTyped DEF FieldInv, FieldShape, FieldTypeOK, Defined
  <1>5. row \in Change /\ row.options = OptionsToWrite(d, r.options) /\ r.options \in SUBSET Values
    BY <1>3, <1>4 DEF Change, OptionsToWrite, Definition
  <1>6. PICK a : a = [field |-> d, asked |-> r.options, row |-> row] OBVIOUS
  <1>7. FieldMoved(c) /\ dpc' \in [FieldCallers -> FieldLabels] /\ dpc'[c] = "write" /\ darg'[c] = a
    BY <1>2, <1>3, <1>6, FieldToMoves
  <1>8. /\ a \in [field : Fields, asked : SUBSET Values, row : Change]
        /\ a.field = d /\ a.asked = r.options /\ a.row.options = OptionsToWrite(d, r.options)
    BY <1>4, <1>5, <1>6
  <1>9. Defined' = Defined BY <1>1 DEF Defined
  <1>10. RewriteOk(c)'
    <2>1. FieldOk(d) BY <1>4 DEF FieldInv
    <2>2. version[d] > 0 BY <2>1 DEF FieldOk
    <2> QED BY <1>1, <1>2, <1>7, <1>8, <1>9, <2>2 DEF RewriteOk, OptionsToWrite, FieldInv, SelectHasOptions
  <1>11. crossed \subseteq crossed' /\ crossed' \subseteq Fields
    BY <1>2, <1>4 DEF FieldInv, FieldShape
  <1>12. ASSUME NEW e \in FieldCalls, e # c, dpc'[e] = "write", darg'[e].field = d PROVE d \in crossed'
    BY <1>2, <1>7, <1>12 DEF FieldMoved, FieldCallers, Rewriting
  <1>13. RewritesApart'
    BY <1>7, <1>8, <1>11, <1>12 DEF RewritesApart, FieldInv, FieldMoved, FieldCallers
  <1> QED BY <1>1, <1>7, <1>10, <1>11, <1>13, FieldQuiet
\* A write of the definition of d: whatever was checked before it was checked
\* at another version.
LEMMA CheckedOutdated ==
  ASSUME FieldInv, NEW d \in Fields, version[d] < version'[d], version' \in [Fields -> Nat],
         \A f \in Fields : f # d => version'[f] = version[f] /\ definition'[f] = definition[f],
         NEW b, NEW values, Checked(b, values)
  PROVE  Checked(b, values)'
  <1> USE DEF Checked
  <1>1. ASSUME NEW f \in Fields PROVE b[f] <= version'[f] /\ (b[f] = version'[f] => f # d)
    <2>1. b[f] \in Nat /\ version[f] \in Nat /\ version'[f] \in Nat /\ b[f] <= version[f]
      BY DEF FieldInv, FieldShape
    <2>2. CASE f = d BY <2>1, <2>2
    <2>3. CASE f # d BY <2>1, <2>3
    <2> QED BY <2>2, <2>3
  <1>2. ASSUME NEW f \in ListActiveDefinitions', b[f] = version'[f] PROVE Fits(definition'[f], values)
    <2>1. f \in Fields /\ f # d BY <1>1, <1>2 DEF ListActiveDefinitions, Defined
    <2>2. f \in ListActiveDefinitions /\ b[f] = version[f] /\ definition'[f] = definition[f]
      BY <1>2, <2>1 DEF ListActiveDefinitions, Defined
    <2> QED BY <2>2
  <1> QED BY <1>1, <1>2 DEF Fits

\* A step that writes definitions and keeps what was checked.
LEMMA FieldWrite ==
  ASSUME FieldInv, NEW c \in FieldCallers \ Setters, FieldMoved(c), dpc' \in [FieldCallers -> FieldLabels],
         UNCHANGED <<stored, basis, crossed>>, dropped' \subseteq Fields,
         definition' \in [Fields -> Definition \cup {Nil}],
         version' \in [Fields -> Nat], wished' \in [Fields -> SUBSET Values],
         (\A d, f \in Defined : definition[d].code = definition[f].code => d = f)',
         (SelectHasOptions /\ DeletedStaysDeleted /\ OptionsAsAsked)',
         \A d \in Fields : FieldOk(d)', \A e \in FieldCalls : RewriteOk(e)',
         \A b, v : Checked(b, v) => Checked(b, v)',
         c \in FieldCalls => dpc'[c] # "write"
  PROVE  FieldInv'
  <1>1. FieldShape' BY DEF FieldInv, FieldShape, FieldTypeOK, FieldMoved
  <1>2. RewritesApart' BY ApartKept
  <1>3. \A s \in Setters : SetterOk(s)'
    BY DEF FieldInv, SetterOk, FieldMoved, FieldCallers
  <1>4. (\A e \in Targets : stored[e] # Nil => Checked(basis[e], stored[e]))' BY DEF FieldInv
  <1> QED BY <1>1, <1>2, <1>3, <1>4 DEF FieldInv

LEMMA CreateDefinitionKeeps ==
  ASSUME FieldInv, NEW d \in Fields, CreateDefinition(d) PROVE FieldInv'
  <1> d \in FieldCallers \ Setters /\ d \notin FieldCalls
    BY FieldCallersDisjoint DEF FieldCallers
  <1> USE FieldLabelsAre
  <1>1. UNCHANGED <<stored, basis, dropped, crossed>> /\ dpc[d] = "insert"
    BY DEF CreateDefinition
  <1>2. FieldOk(d) BY DEF FieldInv
  <1>3. darg[d] \in Definition /\ definition[d] = Nil /\ version[d] = 0 /\ d \notin dropped
    BY <1>1, <1>2 DEF FieldOk
  <1>4. CASE GetDefinitionByCode(darg[d].code) # {}
    <2>1. FieldTo(d, "refused", Nil) /\ UNCHANGED <<definition, version, wished>>
      BY <1>4 DEF CreateDefinition
    <2>2. FieldMoved(d) /\ dpc' \in [FieldCallers -> FieldLabels] /\ dpc'[d] = "refused"
      BY <2>1, FieldToMoves
    <2>3. FieldOk(d)' BY <1>2, <2>1, <2>2, <1>3 DEF FieldOk, Defined
    <2>4. RewritesApart' /\ crossed' \subseteq Fields
      BY <1>1, <2>2, ApartKept DEF FieldInv, FieldShape
    <2> QED BY <1>1, <2>1, <2>2, <2>3, <2>4, FieldQuiet
  <1>5. CASE GetDefinitionByCode(darg[d].code) = {}
    <2>1. /\ definition' = [definition EXCEPT ![d] = darg[d]]
          /\ version' = [version EXCEPT ![d] = 1]
          /\ wished' = [wished EXCEPT ![d] = darg[d].options]
          /\ FieldTo(d, "ok", Nil)
      BY <1>5 DEF CreateDefinition, InsertDefinition
    <2>2. FieldMoved(d) /\ dpc' \in [FieldCallers -> FieldLabels] /\ dpc'[d] = "ok"
      BY <2>1, FieldToMoves
    <2>3. /\ definition' \in [Fields -> Definition \cup {Nil}] /\ definition'[d] = darg[d]
          /\ version' \in [Fields -> Nat] /\ version'[d] = 1
          /\ wished' \in [Fields -> SUBSET Values] /\ wished'[d] = darg[d].options
          /\ \A f \in Fields : f # d => /\ definition'[f] = definition[f] /\ version'[f] = version[f]
                                        /\ wished'[f] = wished[f]
      BY <1>3, <2>1 DEF FieldInv, FieldShape, FieldTypeOK, Definition
    <2>4. d \in Defined' /\ (\A f \in Fields : f # d => (f \in Defined' <=> f \in Defined)) /\ Defined' \subseteq Fields
      BY <1>3, <2>3, NilIsNothing DEF Defined
    <2>5. (\A e, f \in Defined : definition[e].code = definition[f].code => e = f)'
      BY <1>5, <2>3, <2>4 DEF FieldInv, FieldShape, FieldTypeOK, GetDefinitionByCode, Defined
    <2>6. (SelectHasOptions /\ DeletedStaysDeleted /\ OptionsAsAsked)'
      BY <1>1, <1>2, <1>3, <2>3, <2>4
      DEF FieldInv, FieldShape, FieldOk, SelectHasOptions, DeletedStaysDeleted, OptionsAsAsked
    <2>7. ASSUME NEW f \in Fields PROVE FieldOk(f)'
      BY <1>1, <2>2, <2>3, <2>4 DEF FieldInv, FieldOk, FieldMoved, FieldCallers
    <2>8. ASSUME NEW e \in FieldCalls PROVE RewriteOk(e)'
      <3>1. RewriteOk(e) BY DEF FieldInv
      <3>2. dpc'[e] = dpc[e] /\ darg'[e] = darg[e] BY <2>2 DEF FieldMoved, FieldCallers
      <3>3. CASE dpc[e] # "write" BY <3>1, <3>2, <3>3 DEF RewriteOk
      <3>4. CASE dpc[e] = "write"
        <4>1. darg[e].field \in Fields /\ darg[e].field # d BY <1>3, <3>1, <3>4 DEF RewriteOk
        <4> QED BY <1>1, <2>3, <2>4, <3>1, <3>2, <3>4, <4>1 DEF RewriteOk
      <3> QED BY <3>3, <3>4
    <2>9. \A b, v : Checked(b, v) => Checked(b, v)' BY <1>3, <2>3, CheckedOutdated
    <2> QED BY <1>1, <2>2, <2>3, <2>5, <2>6, <2>7, <2>8, <2>9, FieldWrite DEF FieldInv, FieldShape
  <1> QED BY <1>4, <1>5
LEMMA UpdateDefinitionKeeps ==
  ASSUME FieldInv, NEW c \in FieldCalls, UpdateDefinition(c) PROVE FieldInv'
  <1> c \in FieldCallers \ Setters /\ c \notin Fields
    BY FieldCallersDisjoint DEF FieldCallers
  <1> USE FieldLabelsAre
  <1>1. UNCHANGED <<stored, basis, dropped, crossed>> /\ dpc[c] = "write"
    BY DEF UpdateDefinition
  <1>2. RewriteOk(c) BY DEF FieldInv
  <1>3. PICK d : d = darg[c].field OBVIOUS
  <1>4. /\ d \in Fields /\ darg[c].asked \in SUBSET Values /\ darg[c].row \in Change /\ version[d] > 0
        /\ version[d] \in Nat
    BY <1>1, <1>2, <1>3 DEF RewriteOk, FieldInv, FieldShape
  <1>5. CASE d \notin Defined
    <2>1. FieldTo(c, "refused", Nil) /\ UNCHANGED <<definition, version, wished>>
      BY <1>3, <1>5 DEF UpdateDefinition
    <2>2. FieldMoved(c) /\ dpc' \in [FieldCallers -> FieldLabels] /\ dpc'[c] = "refused"
      BY <2>1, FieldToMoves
    <2>3. RewriteOk(c)' BY <2>2 DEF RewriteOk
    <2>4. RewritesApart' /\ crossed' \subseteq Fields
      BY <1>1, <2>2, ApartKept DEF FieldInv, FieldShape
    <2> QED BY <1>1, <2>1, <2>2, <2>3, <2>4, FieldQuiet
  <1>6. CASE d \in Defined
    <2>1. PICK row : row = SetColumns(definition[d], darg[c].row) OBVIOUS
    <2>2. definition[d] \in Definition BY <1>6 DEF FieldInv, FieldShape, FieldTypeOK, Defined
    <2>3. /\ row \in Definition /\ row.code = definition[d].code /\ row.type = definition[d].type
          /\ row.options = darg[c].row.options
      BY <1>4, <2>1, <2>2 DEF SetColumns, Definition, Change
    <2>4. /\ definition' = [definition EXCEPT ![d] = row]
          /\ version' = [version EXCEPT ![d] = version[d] + 1]
          /\ wished' = IF darg[c].asked = {} THEN wished ELSE [wished EXCEPT ![d] = darg[c].asked]
          /\ FieldTo(c, "ok", Nil)
      BY <1>3, <1>6, <2>1 DEF UpdateDefinition
    <2>5. FieldMoved(c) /\ dpc' \in [FieldCallers -> FieldLabels] /\ dpc'[c] = "ok"
      BY <2>4, FieldToMoves
    <2>6. /\ definition' \in [Fields -> Definition \cup {Nil}] /\ definition'[d] = row
          /\ version' \in [Fields -> Nat] /\ version'[d] = version[d] + 1
          /\ wished' \in [Fields -> SUBSET Values]
          /\ darg[c].asked # {} => wished'[d] = darg[c].asked
          /\ darg[c].asked = {} => wished'[d] = wished[d]
          /\ \A f \in Fields : f # d => /\ definition'[f] = definition[f] /\ version'[f] = version[f]
                                        /\ wished'[f] = wished[f]
      BY <1>4, <2>3, <2>4 DEF FieldInv, FieldShape, FieldTypeOK
    <2>7. Defined' = Defined /\ Defined \subseteq Fields
      BY <1>6, <2>3, <2>6, NilIsNothing DEF Defined
    <2>8. (\A e, f \in Defined : definition[e].code = definition[f].code => e = f)'
      <3> SUFFICES ASSUME NEW e \in Defined, NEW f \in Defined, definition'[e].code = definition'[f].code
                   PROVE e = f
        BY <2>7
      <3>1. definition'[e].code = definition[e].code BY <2>3, <2>6, <2>7
      <3>2. definition'[f].code = definition[f].code BY <2>3, <2>6, <2>7
      <3> QED BY <3>1, <3>2 DEF FieldInv, FieldShape, FieldTypeOK
    <2>9. SelectHasOptions'
      BY <1>1, <1>2, <1>3, <1>6, <2>3, <2>6, <2>7 DEF FieldInv, SelectHasOptions, RewriteOk
    <2>10. DeletedStaysDeleted'
      BY <1>1, <1>6, <2>6 DEF FieldInv, FieldShape, DeletedStaysDeleted, Defined
    <2>11. OptionsAsAsked'
      BY <1>1, <1>2, <1>3, <1>6, <2>3, <2>6, <2>7 DEF FieldInv, OptionsAsAsked, RewriteOk
    <2>12. ASSUME NEW f \in Fields PROVE FieldOk(f)'
      <3>1. FieldOk(f) /\ dpc'[f] = dpc[f] /\ darg'[f] = darg[f]
        BY <2>5 DEF FieldInv, FieldMoved, FieldCallers
      <3>2. CASE f = d BY <1>1, <1>4, <1>6, <2>6, <2>7, <3>1, <3>2 DEF FieldOk, Defined
      <3>3. CASE f # d BY <1>1, <2>6, <2>7, <3>1, <3>3 DEF FieldOk
      <3> QED BY <3>2, <3>3
    <2>13. ASSUME NEW e \in FieldCalls PROVE RewriteOk(e)'
      <3>1. RewriteOk(e) BY DEF FieldInv
      <3>2. CASE e = c BY <2>5, <3>2 DEF RewriteOk
      <3>3. CASE e # c
        <4>1. dpc'[e] = dpc[e] /\ darg'[e] = darg[e] BY <2>5, <3>3 DEF FieldMoved, FieldCallers
        <4>2. CASE dpc[e] # "write" BY <3>1, <4>1, <4>2 DEF RewriteOk
        <4>3. CASE dpc[e] = "write" /\ darg[e].field = d
          <5>1. d \in crossed BY <1>1, <1>3, <3>3, <4>3 DEF FieldInv, RewritesApart
          <5> QED BY <1>1, <1>4, <2>3, <2>6, <2>7, <3>1, <4>1, <4>3, <5>1 DEF RewriteOk
        <4>4. CASE dpc[e] = "write" /\ darg[e].field # d
          <5>1. darg[e].field \in Fields BY <3>1, <4>4 DEF RewriteOk
          <5> QED BY <1>1, <2>6, <2>7, <3>1, <4>1, <4>4, <5>1 DEF RewriteOk
        <4> QED BY <4>2, <4>3, <4>4
      <3> QED BY <3>2, <3>3
    <2>14. \A b, v : Checked(b, v) => Checked(b, v)' BY <1>4, <2>6, CheckedOutdated
    <2>15. dropped' \subseteq Fields BY <1>1 DEF FieldInv, FieldShape
    <2> QED BY <1>1, <2>5, <2>6, <2>8, <2>9, <2>10, <2>11, <2>12, <2>13, <2>14, <2>15, FieldWrite
  <1> QED BY <1>5, <1>6

LEMMA DeleteDefinitionKeeps ==
  ASSUME FieldInv, NEW c \in FieldCalls, DeleteDefinition(c) PROVE FieldInv'
  <1> c \in FieldCallers \ Setters /\ c \notin Fields
    BY FieldCallersDisjoint DEF FieldCallers
  <1> USE FieldLabelsAre
  <1>1. UNCHANGED <<stored, version, basis, wished, crossed>> /\ dpc[c] = "idle" /\ FieldTo(c, "ok", Nil)
    BY DEF DeleteDefinition
  <1>2. PICK d \in Defined : definition' = [definition EXCEPT ![d] = Nil] /\ dropped' = dropped \cup {d}
    BY DEF DeleteDefinition
  <1>3. FieldMoved(c) /\ dpc' \in [FieldCallers -> FieldLabels] /\ dpc'[c] = "ok"
    BY <1>1, FieldToMoves
  <1>4. /\ d \in Fields /\ definition' \in [Fields -> Definition \cup {Nil}] /\ definition'[d] = Nil
        /\ dropped' \subseteq Fields
        /\ \A f \in Fields : f # d => definition'[f] = definition[f]
    BY <1>2 DEF FieldInv, FieldShape, FieldTypeOK, Defined
  <1>5. Defined' = Defined \ {d} /\ Defined \subseteq Fields BY <1>4 DEF Defined
  <1>6. (\A e, f \in Defined : definition[e].code = definition[f].code => e = f)'
    BY <1>4, <1>5 DEF FieldInv, FieldShape, FieldTypeOK
  <1>7. (SelectHasOptions /\ DeletedStaysDeleted /\ OptionsAsAsked)'
    BY <1>1, <1>2, <1>4, <1>5 DEF FieldInv, FieldShape, SelectHasOptions, DeletedStaysDeleted, OptionsAsAsked
  <1>8. ASSUME NEW f \in Fields PROVE FieldOk(f)'
    <2>1. FieldOk(f) /\ FieldOk(d) /\ dpc'[f] = dpc[f] /\ darg'[f] = darg[f]
      BY <1>3, <1>4 DEF FieldInv, FieldMoved, FieldCallers
    <2> QED BY <1>1, <1>2, <1>4, <1>5, <2>1 DEF FieldOk, Defined
  <1>9. ASSUME NEW e \in FieldCalls PROVE RewriteOk(e)'
    <2>1. RewriteOk(e) BY DEF FieldInv
    <2>2. CASE e = c BY <1>3, <2>2 DEF RewriteOk
    <2>3. CASE e # c
      <3>1. dpc'[e] = dpc[e] /\ darg'[e] = darg[e] BY <1>3, <2>3 DEF FieldMoved, FieldCallers
      <3>2. CASE dpc[e] # "write" BY <2>1, <3>1, <3>2 DEF RewriteOk
      <3>3. CASE dpc[e] = "write"
        <4>1. darg[e].field \in Fields BY <2>1, <3>3 DEF RewriteOk
        <4> QED BY <1>1, <1>4, <1>5, <2>1, <3>1, <3>3, <4>1 DEF RewriteOk
      <3> QED BY <3>2, <3>3
    <2> QED BY <2>2, <2>3
  <1>10. ASSUME NEW b, NEW v, Checked(b, v) PROVE Checked(b, v)'
    <2>1. ListActiveDefinitions' \subseteq ListActiveDefinitions
          /\ \A f \in ListActiveDefinitions' : definition'[f] = definition[f]
      BY <1>4, <1>5 DEF ListActiveDefinitions
    <2> QED BY <1>1, <1>10, <2>1 DEF Checked
  <1>11. version' \in [Fields -> Nat] /\ wished' \in [Fields -> SUBSET Values]
    BY <1>1 DEF FieldInv, FieldShape
  <1> QED BY <1>1, <1>3, <1>4, <1>6, <1>7, <1>8, <1>9, <1>10, <1>11, FieldWrite
\* ValidateValues, when it lets a request through, leaves values that fit every
\* active definition.
LEMMA ValidatedFits ==
  ASSUME FieldInv, NEW raw \in ValueMap, ValidateValues(raw) # Nil
  PROVE  /\ ValidateValues(raw) \in ValueMap
         /\ \A d \in ListActiveDefinitions : Fits(definition[d], ValidateValues(raw))
  <1>1. PICK defs : defs = {definition[d] : d \in ListActiveDefinitions} OBVIOUS
  <1>2. PICK kept : kept = {def \in defs : Sanitized(def, raw) # Nil} OBVIOUS
  <1>3. PICK values : values = [k \in {def.code : def \in kept} |->
                                  Sanitized(CHOOSE def \in kept : def.code = k, raw)]
    OBVIOUS
  <1>4. ValidateValues(raw) = values /\ \A def \in defs : Accepted(def, raw)
    BY <1>1, <1>2, <1>3 DEF ValidateValues
  <1>5. \A def \in defs : def \in Definition
    BY <1>1 DEF ListActiveDefinitions, Defined, FieldInv, FieldShape, FieldTypeOK
  <1>6. \A def, other \in defs : def.code = other.code => def = other
    BY <1>1 DEF ListActiveDefinitions, Defined, FieldInv, FieldShape, FieldTypeOK
  <1>7. /\ DOMAIN values = {def.code : def \in kept}
        /\ \A def \in kept : values[def.code] = Sanitized(def, raw)
    <2>1. DOMAIN values = {def.code : def \in kept} BY <1>3
    <2>2. ASSUME NEW def \in kept PROVE values[def.code] = Sanitized(def, raw)
      <3>1. def.code \in {f.code : f \in kept} OBVIOUS
      <3>2. values[def.code] = Sanitized(CHOOSE f \in kept : f.code = def.code, raw) BY <1>3, <3>1
      <3>3. (CHOOSE f \in kept : f.code = def.code) = def BY <1>2, <1>6
      <3> QED BY <3>2, <3>3
    <2> QED BY <2>1, <2>2
  <1>8. PICK S \in SUBSET FieldCodes : raw \in [S -> Values] BY DEF ValueMap
  <1>9. \A def \in defs : Sanitized(def, raw) \in Values \cup {Nil}
    BY <1>5, <1>8 DEF Sanitized, Definition
  <1>10. values \in ValueMap
    <2>1. DOMAIN values \in SUBSET FieldCodes BY <1>2, <1>5, <1>7 DEF Definition
    <2>2. ASSUME NEW k \in DOMAIN values PROVE values[k] \in Values
      <3>1. PICK def \in kept : k = def.code BY <1>7
      <3> QED BY <1>2, <1>7, <1>9, <3>1
    <2>3. values \in [DOMAIN values -> Values] BY <1>3, <2>2
    <2> QED BY <2>1, <2>3 DEF ValueMap
  <1>11. ASSUME NEW def \in defs PROVE Fits(def, values)
    <2>1. Accepted(def, raw) /\ def \in Definition BY <1>4, <1>5
    <2>2. CASE def \in kept
      <3>1. def.code \in DOMAIN values /\ values[def.code] = Sanitized(def, raw) /\ values[def.code] \in Values
        BY <1>2, <1>7, <1>9, <2>2
      <3>2. CASE def.code \in DOMAIN raw
        <4>1. validateField(def, values[def.code]) BY <2>1, <3>1, <3>2 DEF Accepted, Sanitized
        <4> QED BY <3>1, <4>1 DEF Fits, validateField
      <3>3. CASE def.code \notin DOMAIN raw BY <3>1, <3>3 DEF Fits, Sanitized
      <3> QED BY <3>2, <3>3
    <2>3. CASE def \notin kept
      <3>1. Sanitized(def, raw) = Nil BY <1>2, <2>3
      <3>2. def.code \notin DOMAIN raw BY <1>8, <3>1, NilIsNothing DEF Sanitized
      <3>3. ~def.required BY <2>1, <3>1, <3>2 DEF Accepted, Sanitized, Definition
      <3>4. def.code \notin DOMAIN values
        BY <1>2, <1>6, <1>7, <2>3
      <3> QED BY <3>3, <3>4 DEF Fits
    <2> QED BY <2>2, <2>3
  <1> QED BY <1>1, <1>4, <1>10, <1>11

LEMMA CheckValuesKeeps ==
  ASSUME FieldInv, NEW s \in Setters, CheckValues(s) PROVE FieldInv'
  <1> s \in FieldCallers /\ s \notin FieldCalls /\ s \notin Fields
    BY FieldCallersDisjoint DEF FieldCallers
  <1> USE FieldLabelsAre
  <1>1. UNCHANGED <<definition, stored, version, basis, dropped, wished, crossed>>
    BY DEF CheckValues, fieldHistory
  <1>2. PICK e \in Targets, raw \in ValueMap :
          IF ValidateValues(raw) = Nil THEN FieldTo(s, "refused", Nil)
          ELSE FieldTo(s, "upsert",
                 [target |-> e, values |-> ValidateValues(raw),
                  basis |-> [d \in Fields |-> IF d \in ListActiveDefinitions THEN version[d] ELSE 0]])
    BY DEF CheckValues
  <1>3. PICK b : b = [d \in Fields |-> IF d \in ListActiveDefinitions THEN version[d] ELSE 0] OBVIOUS
  <1>4. PICK a : a = [target |-> e, values |-> ValidateValues(raw), basis |-> b] OBVIOUS
  <1>5. /\ FieldMoved(s) /\ dpc' \in [FieldCallers -> FieldLabels]
        /\ \/ dpc'[s] = "refused"
           \/ dpc'[s] = "upsert" /\ darg'[s] = a /\ ValidateValues(raw) # Nil
    <2>1. CASE ValidateValues(raw) = Nil BY <1>2, <2>1, FieldToMoves
    <2>2. CASE ValidateValues(raw) # Nil
      <3>1. FieldTo(s, "upsert", a) BY <1>2, <1>3, <1>4, <2>2
      <3> QED BY <2>2, <3>1, FieldToMoves
    <2> QED BY <2>1, <2>2
  <1>6. b \in [Fields -> Nat] /\ \A d \in Fields : b[d] <= version[d] /\ version[d] \in Nat
    BY <1>3 DEF FieldInv, FieldShape
  <1>7. ListActiveDefinitions' = ListActiveDefinitions BY <1>1 DEF ListActiveDefinitions, Defined
  <1>8. SetterOk(s)'
    <2>1. CASE dpc'[s] = "refused" BY <2>1 DEF SetterOk
    <2>2. CASE dpc'[s] = "upsert" /\ darg'[s] = a /\ ValidateValues(raw) # Nil
      <3>1. a.target \in Targets /\ a.values = ValidateValues(raw) /\ a.basis = b BY <1>4
      <3>2. Checked(b, ValidateValues(raw)) BY <1>6, <2>2, ValidatedFits DEF Checked
      <3>3. Checked(a.basis, a.values)' BY <1>1, <1>7, <3>1, <3>2 DEF Checked
      <3> QED BY <2>2, <3>1, <3>3 DEF SetterOk
    <2> QED BY <1>5, <2>1, <2>2
  <1>9. RewritesApart' /\ crossed' \subseteq Fields
    BY <1>1, <1>5, ApartKept DEF FieldInv, FieldShape
  <1> QED BY <1>1, <1>5, <1>8, <1>9, FieldQuiet

LEMMA UpsertEntityValuesKeeps ==
  ASSUME FieldInv, NEW s \in Setters, UpsertEntityValues(s) PROVE FieldInv'
  <1> s \in FieldCallers /\ s \notin FieldCalls /\ s \notin Fields
    BY FieldCallersDisjoint DEF FieldCallers
  <1> USE FieldLabelsAre
  <1>1. UNCHANGED <<definition, version, dropped, wished, crossed>> /\ dpc[s] = "upsert" /\ FieldTo(s, "ok", Nil)
    BY DEF UpsertEntityValues
  <1>2. SetterOk(s) BY DEF FieldInv
  <1>3. darg[s].target \in Targets /\ Checked(darg[s].basis, darg[s].values)
    BY <1>1, <1>2 DEF SetterOk
  <1>4. /\ stored' = [stored EXCEPT ![darg[s].target] = darg[s].values]
        /\ basis' = [basis EXCEPT ![darg[s].target] = darg[s].basis]
    BY DEF UpsertEntityValues, PutValues
  <1>5. FieldMoved(s) /\ dpc' \in [FieldCallers -> FieldLabels] /\ dpc'[s] = "ok"
    BY <1>1, FieldToMoves
  <1>6. Defined' = Defined /\ ListActiveDefinitions' = ListActiveDefinitions
    BY <1>1 DEF Defined, ListActiveDefinitions
  <1>7. \A b, v : Checked(b, v)' <=> Checked(b, v) BY <1>1, <1>6 DEF Checked
  <1>8. FieldShape'
    <2>1. stored' \in [Targets -> ValueMap \cup {Nil}] /\ DOMAIN basis' = Targets
      BY <1>3, <1>4 DEF FieldInv, FieldShape, FieldTypeOK, Checked
    <2> QED BY <1>1, <1>5, <1>6, <2>1 DEF FieldInv, FieldShape, FieldTypeOK, FieldMoved
  <1>9. (SelectHasOptions /\ DeletedStaysDeleted /\ OptionsAsAsked)'
    BY <1>1, <1>6 DEF FieldInv, SelectHasOptions, DeletedStaysDeleted, OptionsAsAsked
  <1>10. \A d \in Fields : FieldOk(d)' BY <1>1, <1>5, <1>6 DEF FieldInv, FieldOk, FieldMoved, FieldCallers
  <1>11. \A c \in FieldCalls : RewriteOk(c)' BY <1>1, <1>5, <1>6 DEF FieldInv, RewriteOk, FieldMoved, FieldCallers
  <1>12. \A t \in Setters : SetterOk(t)'
    <2> SUFFICES ASSUME NEW t \in Setters PROVE SetterOk(t)' OBVIOUS
    <2>1. CASE t = s BY <1>5, <2>1 DEF SetterOk
    <2>2. CASE t # s BY <1>5, <1>7, <2>2 DEF FieldInv, SetterOk, FieldMoved, FieldCallers
    <2> QED BY <2>1, <2>2
  <1>13. RewritesApart' BY <1>1, <1>5, ApartKept
  <1>14. (\A e \in Targets : stored[e] # Nil => Checked(basis[e], stored[e]))'
    BY <1>3, <1>4, <1>7 DEF FieldInv, FieldShape, FieldTypeOK
  <1> QED BY <1>8, <1>9, <1>10, <1>11, <1>12, <1>13, <1>14 DEF FieldInv

LEMMA FieldStep == FieldInv /\ [FieldNext]_fieldVars => FieldInv'
  <1> SUFFICES ASSUME FieldInv, [FieldNext]_fieldVars PROVE FieldInv' OBVIOUS
  <1>1. CASE UNCHANGED fieldVars
    BY <1>1 DEF fieldVars, fieldHistory, FieldInv, FieldShape, FieldTypeOK, SelectHasOptions,
         DeletedStaysDeleted, OptionsAsAsked, FieldOk, RewriteOk, SetterOk, RewritesApart, Checked,
         ListActiveDefinitions, Defined
  <1>2. CASE FieldNext
    BY <1>2, CheckDefinitionKeeps, CreateDefinitionKeeps, GetDefinitionByIDKeeps, UpdateDefinitionKeeps,
       DeleteDefinitionKeeps, CheckValuesKeeps, UpsertEntityValuesKeeps DEF FieldNext
  <1> QED BY <1>1, <1>2

LEMMA FieldInvRules == FieldInv => ValuesObeyRules
  <1> SUFFICES ASSUME FieldInv, NEW e \in Targets, NEW d \in Fields,
                      stored[e] # Nil, d \in ListActiveDefinitions, basis[e][d] = version[d]
               PROVE Fits(definition[d], stored[e])
    BY DEF ValuesObeyRules, Fits
  <1> QED BY DEF FieldInv, Checked

-----------------------------------------------------------------------------
(* Induction and recursion over the natural numbers, for sets.             *)

\* A set that holds zero and every successor holds every number.
LEMMA SetInduction ==
  ASSUME NEW T \in SUBSET Nat, 0 \in T, \A n \in T : n + 1 \in T
  PROVE  \A n \in Nat : n \in T
  <1> SUFFICES ASSUME Nat \ T # {} PROVE FALSE OBVIOUS
  <1> DEFINE R == {p \in Nat \X Nat : p[1] < p[2]}
  <1>1. IsWellFoundedOn(R, Nat)
    <2>1. R = OpToRel(<, Nat) BY DEF OpToRel
    <2> QED BY <2>1, NatLessThanWellFounded, Zenon
  <1>2. \A x, y \in Nat : y < x => <<y, x>> \in R OBVIOUS
  <1> HIDE DEF R
  <1>3. PICK x \in Nat \ T : \A y \in Nat \ T : ~ (<<y, x>> \in R) BY <1>1, WFMin
  <1>4. x # 0 BY <1>3
  <1>5. x - 1 \in Nat /\ x - 1 < x BY <1>4
  <1>6. x - 1 \in T BY <1>2, <1>3, <1>5
  <1>7. (x - 1) + 1 = x BY <1>3
  <1> QED BY <1>3, <1>6, <1>7

\* The same up to a bound.
LEMMA BoundedInduction ==
  ASSUME NEW K \in Nat, NEW T, 0 \in T, \A n \in 1..K : n - 1 \in T => n \in T
  PROVE  \A n \in 0..K : n \in T
  <1>1. PICK U : U = {n \in Nat : n <= K => n \in T} OBVIOUS
  <1>2. ASSUME NEW n \in U PROVE n + 1 \in U
    <2> SUFFICES ASSUME n + 1 <= K PROVE n + 1 \in T BY <1>1
    <2>1. n \in Nat /\ n \in T BY <1>1, <1>2
    <2>2. n + 1 \in 1..K /\ (n + 1) - 1 = n BY <2>1
    <2> QED BY <2>1, <2>2
  <1>3. \A n \in Nat : n \in U BY <1>1, <1>2, SetInduction
  <1> QED BY <1>1, <1>3

\* A set of numbers that is not empty has a least one.
LEMMA LeastNumber ==
  ASSUME NEW H \in SUBSET Nat, NEW h \in H
  PROVE  \E n \in H : \A m \in H : n <= m
  <1> SUFFICES ASSUME \A n \in H : \E m \in H : ~ (n <= m) PROVE FALSE OBVIOUS
  <1>1. PICK T : T = {n \in Nat : \A m \in H : n <= m} OBVIOUS
  <1>2. ASSUME NEW n \in T PROVE n + 1 \in T
    <2>1. n \in Nat /\ n \notin H BY <1>1, <1>2
    <2>2. \A m \in H : n <= m /\ m # n BY <1>1, <1>2, <2>1
    <2> QED BY <1>1, <2>1, <2>2
  <1>3. \A n \in Nat : n \in T
    <2>1. 0 \in T
      <3>1. \A m \in H : m \in Nat OBVIOUS
      <3> QED BY <1>1, <3>1
    <2>2. T \in SUBSET Nat BY <1>1
    <2> QED BY <1>2, <2>1, <2>2, SetInduction
  <1>4. h + 1 \in T BY <1>3
  <1> QED BY <1>1, <1>4

\* f starts with s, and g[n] leads to its value at n from the one before, up to K.
Follows(f, K, S, s, g) ==
  f \in [0..K -> S] /\ f[0] = s /\ \A n \in 1..K : f[n] = g[n][f[n - 1]]

\* A function given by its first value and by how each value follows exists.
LEMMA RecursionExists ==
  ASSUME NEW K \in Nat, NEW S, NEW s \in S, NEW g \in [Nat -> [S -> S]]
  PROVE  \E f : Follows(f, K, S, s, g)
  <1> DEFINE Q(k) == \E f \in [0..k -> S] : \A n \in 0..k : f[n] = IF n = 0 THEN s ELSE g[n][f[n - 1]]
             T == {k \in Nat : Q(k)}
  <1>1. 0 \in T
    <2>1. PICK f : f = [n \in 0..0 |-> s] OBVIOUS
    <2>2. f \in [0..0 -> S] /\ \A n \in 0..0 : n = 0 /\ f[n] = s BY <2>1
    <2> QED BY <2>2
  <1>2. ASSUME NEW k \in T PROVE k + 1 \in T
    <2>1. PICK f \in [0..k -> S] : \A n \in 0..k : f[n] = IF n = 0 THEN s ELSE g[n][f[n - 1]] BY <1>2
    <2>2. k \in Nat BY <1>2
    <2>3. PICK h : h = [n \in 0..(k + 1) |-> IF n = k + 1 THEN g[k + 1][f[k]] ELSE f[n]] OBVIOUS
    <2>4. f[k] \in S BY <2>1, <2>2
    <2>5. \A n \in 0..(k + 1) : n # k + 1 => n \in 0..k BY <2>2
    <2>6. h \in [0..(k + 1) -> S] BY <2>1, <2>3, <2>4, <2>5
    <2>7. ASSUME NEW n \in 0..(k + 1) PROVE h[n] = IF n = 0 THEN s ELSE g[n][h[n - 1]]
      <3>1. CASE n = k + 1
        <4>1. h[n] = g[k + 1][f[k]] /\ n - 1 = k /\ k \in 0..(k + 1) /\ k # k + 1 /\ n # 0 BY <2>2, <2>3, <3>1
        <4>2. h[n - 1] = f[k] BY <2>3, <4>1
        <4> QED BY <4>1, <4>2
      <3>2. CASE n # k + 1
        <4>1. n \in 0..k /\ h[n] = f[n] BY <2>3, <2>5, <3>2
        <4>2. CASE n = 0 BY <2>1, <4>1, <4>2
        <4>3. CASE n # 0
          <5>1. n - 1 \in 0..(k + 1) /\ n - 1 # k + 1 BY <2>2, <4>1, <4>3
          <5>2. h[n - 1] = f[n - 1] BY <2>3, <5>1
          <5> QED BY <2>1, <4>1, <4>3, <5>2
        <4> QED BY <4>2, <4>3
      <3> QED BY <3>1, <3>2
    <2> QED BY <2>2, <2>6, <2>7
  <1>3. K \in T
    <2>1. T \in SUBSET Nat OBVIOUS
    <2> HIDE DEF T
    <2> QED BY <1>1, <1>2, <2>1, SetInduction
  <1>4. PICK f \in [0..K -> S] : \A n \in 0..K : f[n] = IF n = 0 THEN s ELSE g[n][f[n - 1]] BY <1>3
  <1>5. 0 \in 0..K /\ \A n \in 1..K : n \in 0..K /\ n # 0 OBVIOUS
  <1> QED BY <1>4, <1>5 DEF Follows

-----------------------------------------------------------------------------
(* The walk of CheckCircularReference.                                     *)

\* The walk starts where it is told and goes from a listed organization to its
\* parent, from any other to nothing.
LEMMA WalkIs ==
  ASSUME NEW par, NEW listed, NEW S, NEW start \in S, None \in S, \A x \in listed : par[x] \in S
  PROVE  /\ Walk(par, listed, start) \in [0..Cardinality(Orgs) -> S]
         /\ Walk(par, listed, start)[0] = start
         /\ \A n \in 1..Cardinality(Orgs) :
              Walk(par, listed, start)[n] =
                IF Walk(par, listed, start)[n - 1] \in listed THEN par[Walk(par, listed, start)[n - 1]] ELSE None
  <1>1. PICK K \in Nat : K = Cardinality(Orgs) BY OrgsAssumption, FS_CardinalityType
  <1>2. PICK g : g = [n \in Nat |-> [x \in S |-> IF x \in listed THEN par[x] ELSE None]] OBVIOUS
  <1>3. g \in [Nat -> [S -> S]] BY <1>2
  <1>4. PICK f : Follows(f, K, S, start, g) BY <1>3, RecursionExists
  <1>5. f = [n \in 0..K |-> IF n = 0 THEN start ELSE IF f[n - 1] \in listed THEN par[f[n - 1]] ELSE None]
    <2>1. ASSUME NEW n \in 0..K
          PROVE  f[n] = IF n = 0 THEN start ELSE IF f[n - 1] \in listed THEN par[f[n - 1]] ELSE None
      <3>1. CASE n = 0 BY <1>4, <3>1 DEF Follows
      <3>2. CASE n # 0
        <4>1. n \in 1..K /\ n - 1 \in 0..K /\ n \in Nat BY <3>2
        <4>2. f[n] = g[n][f[n - 1]] /\ f[n - 1] \in S BY <1>4, <4>1 DEF Follows
        <4> QED BY <1>2, <3>2, <4>1, <4>2
      <3> QED BY <3>1, <3>2
    <2>2. f = [n \in 0..K |-> f[n]] BY <1>4 DEF Follows
    <2> QED BY <2>1, <2>2
  <1>6. PICK at : at = Walk(par, listed, start) OBVIOUS
  <1>7. at = [n \in 0..K |-> IF n = 0 THEN start ELSE IF at[n - 1] \in listed THEN par[at[n - 1]] ELSE None]
    BY <1>1, <1>5, <1>6 DEF Walk
  <1>8. \A n \in 1..K : n \in 0..K /\ n # 0 /\ n - 1 \in 0..K BY <1>1
  <1>9. at[0] = start /\ \A n \in 1..K : at[n] = IF at[n - 1] \in listed THEN par[at[n - 1]] ELSE None
    <2>1. at[0] = start
      <3>1. 0 \in 0..K BY <1>1
      <3> QED BY <1>7, <3>1
    <2> QED BY <1>7, <1>8, <2>1
  <1>10. at \in [0..K -> S]
    <2>1. ASSUME NEW n \in 0..K PROVE at[n] \in S
      <3>1. CASE n = 0 BY <1>9, <3>1
      <3>2. CASE n # 0 BY <1>9, <2>1, <3>2
      <3> QED BY <3>1, <3>2
    <2>2. DOMAIN at = 0..K BY <1>7
    <2>3. at = [n \in 0..K |-> at[n]] BY <1>7
    <2> QED BY <2>1, <2>3
  <1> QED BY <1>1, <1>6, <1>9, <1>10
LEMMA RowsSize ==
  /\ Cardinality(Orgs) \in Nat /\ Rows \subseteq Orgs /\ None \notin Rows
  /\ IsFiniteSet(Rows) /\ Cardinality(Rows) \in Nat /\ Cardinality(Rows) <= Cardinality(Orgs)
  <1>1. Rows \in SUBSET Orgs BY DEF Rows
  <1>2. IsFiniteSet(Rows) /\ Cardinality(Rows) <= Cardinality(Orgs) BY <1>1, OrgsAssumption, FS_Subset
  <1>3. Cardinality(Orgs) \in Nat /\ Cardinality(Rows) \in Nat BY <1>2, OrgsAssumption, FS_CardinalityType
  <1> QED BY <1>1, <1>2, <1>3, OrgsAssumption

\* The walk over the rows as they are.
LEMMA WalkUp ==
  ASSUME \A o \in Orgs : parent[o] \in Above, NEW p \in Above
  PROVE  LET at == Walk(parent, Rows, p) IN
         /\ at \in [0..Cardinality(Orgs) -> Above] /\ at[0] = p
         /\ \A n \in 1..Cardinality(Orgs) : at[n] = IF at[n - 1] \in Rows THEN parent[at[n - 1]] ELSE None
  <1>1. None \in Above /\ \A x \in Rows : parent[x] \in Above BY DEF Above, Rows
  <1> QED BY <1>1, WalkIs

\* CheckCircularReference returns nil only if the new parent is not below the
\* organization.
LEMMA CheckedIsClear ==
  ASSUME \A o \in Orgs : parent[o] \in Above, NEW p \in Above, NEW t \in Rows,
         CheckCircularReference(parent, Rows, t, p), p # None
  PROVE  Clear(t, p)
  <1>1. PICK K \in Nat : K = Cardinality(Orgs) BY RowsSize
  <1>2. PICK at : at = Walk(parent, Rows, p) OBVIOUS
  <1>3. /\ at \in [0..K -> Above] /\ at[0] = p
        /\ \A n \in 1..K : at[n] = IF at[n - 1] \in Rows THEN parent[at[n - 1]] ELSE None
    BY <1>1, <1>2, WalkUp
  <1>4. (\A n \in 0..K : at[n] # t) /\ at[K] \notin Rows
    BY <1>1, <1>2 DEF CheckCircularReference, Endless
  <1>5. PICK A : A = {at[n] : n \in 0..K} \cup {None} OBVIOUS
  <1>6. A \in SUBSET Above BY <1>3, <1>5 DEF Above
  <1>7. p \in A
    <2>1. 0 \in 0..K BY <1>1
    <2> QED BY <1>3, <1>5, <2>1
  <1>8. t \notin A BY <1>4, <1>5, RowsSize
  <1>9. ASSUME NEW o \in A \cap Rows PROVE parent[o] \in A
    <2>1. PICK n \in 0..K : o = at[n] BY <1>5, <1>9, RowsSize
    <2>2. n # K BY <1>4, <1>9, <2>1
    <2>3. n + 1 \in 1..K /\ n + 1 \in 0..K /\ (n + 1) - 1 = n BY <1>1, <2>1, <2>2
    <2>4. at[n + 1] = parent[o] BY <1>3, <1>9, <2>1, <2>3
    <2> QED BY <1>5, <2>3, <2>4
  <1> QED BY <1>6, <1>7, <1>8, <1>9 DEF Clear

\* Where every set of rows has a way out, no walk goes on for ever.
LEMMA GroundedIsAcyclic ==
  ASSUME \A o \in Orgs : parent[o] \in Above, Grounded
  PROVE  Acyclic
  <1> SUFFICES ASSUME NEW o \in Rows, Endless(parent, Rows, o) PROVE FALSE BY DEF Acyclic
  <1>1. PICK K \in Nat : K = Cardinality(Orgs) BY RowsSize
  <1>2. PICK at : at = Walk(parent, Rows, o) OBVIOUS
  <1>3. /\ at \in [0..K -> Above] /\ at[0] = o
        /\ \A n \in 1..K : at[n] = IF at[n - 1] \in Rows THEN parent[at[n - 1]] ELSE None
    BY <1>1, <1>2, WalkUp DEF Above
  <1>4. at[K] \in Rows BY <1>1, <1>2 DEF Endless
  <1>5. \A n \in 0..K : at[n] \in Rows
    <2>1. PICK T : T = {m \in Nat : m <= K => at[K - m] \in Rows} OBVIOUS
    <2>2. T \in SUBSET Nat /\ 0 \in T BY <1>1, <1>4, <2>1
    <2>3. ASSUME NEW m \in T PROVE m + 1 \in T
      <3> SUFFICES ASSUME m + 1 <= K PROVE at[K - (m + 1)] \in Rows BY <2>1, <2>3
      <3>1. m \in Nat /\ m <= K /\ at[K - m] \in Rows BY <1>1, <2>1, <2>3
      <3>2. K - m \in 1..K /\ (K - m) - 1 = K - (m + 1) BY <1>1, <3>1
      <3>3. at[K - m] = IF at[K - (m + 1)] \in Rows THEN parent[at[K - (m + 1)]] ELSE None
        BY <1>3, <3>2
      <3> QED BY <3>1, <3>3, RowsSize
    <2>4. \A m \in Nat : m \in T BY <2>2, <2>3, SetInduction
    <2>5. ASSUME NEW n \in 0..K PROVE at[n] \in Rows
      <3>1. K - n \in Nat /\ K - n <= K /\ K - (K - n) = n BY <1>1, <2>5
      <3> QED BY <2>1, <2>4, <3>1
    <2> QED BY <2>5
  <1>6. at \in [0..K -> Rows] BY <1>3, <1>5
  <1>7. IsFiniteSet(0..K) /\ Cardinality(0..K) = K + 1
    <2>1. 0 \in Int /\ K \in Int /\ 0 <= K BY <1>1
    <2>2. IsFiniteSet(0..K) /\ Cardinality(0..K) = IF 0 > K THEN 0 ELSE K - 0 + 1 BY <2>1, FS_Interval
    <2> QED BY <1>1, <2>2
  <1>8. PICK x \in 0..K, y \in 0..K : x # y /\ at[x] = at[y]
    <2>1. Cardinality(Rows) < Cardinality(0..K) BY <1>1, <1>7, RowsSize
    <2> QED BY <1>6, <1>7, <2>1, RowsSize, FS_PigeonHole
  <1>9. PICK i \in 0..K, j \in 0..K : i < j /\ at[i] = at[j]
    <2>1. CASE x < y BY <1>8, <2>1
    <2>2. CASE y < x BY <1>8, <2>2
    <2> QED BY <1>1, <1>8, <2>1, <2>2
  <1>10. PICK S : S = {at[n] : n \in i..j} OBVIOUS
  <1>11. \A n \in i..j : n \in 0..K BY <1>1, <1>9
  <1>12. S \in SUBSET Rows /\ S # {}
    <2>1. i \in i..j BY <1>9
    <2> QED BY <1>5, <1>10, <1>11, <2>1
  <1>13. \A n \in 0..K : n # K => n + 1 \in 1..K /\ n + 1 \in 0..K /\ (n + 1) - 1 = n BY <1>1
  <1>14. \A n \in 0..K : n # K => parent[at[n]] = at[n + 1]
    BY <1>3, <1>5, <1>13
  <1>15. ASSUME NEW r \in S PROVE parent[r] \in S
    <2>1. PICK n \in i..j : r = at[n] BY <1>10, <1>15
    <2>2. PICK m \in i..j : r = at[m] /\ m < j
      <3>1. CASE n < j BY <2>1, <3>1
      <3>2. CASE n = j
        <4>1. i \in i..j BY <1>9
        <4> QED BY <1>9, <2>1, <3>2, <4>1
      <3> QED BY <1>9, <2>1, <3>1, <3>2
    <2>3. m \in 0..K /\ m # K /\ m + 1 \in i..j BY <1>1, <1>9, <2>2
    <2> QED BY <1>10, <1>14, <2>2, <2>3
  <1> QED BY <1>12, <1>15 DEF Grounded
LEMMA OrgInitOk == OrgInit => OrgInv
  <1> SUFFICES ASSUME OrgInit PROVE OrgInv OBVIOUS
  <1>1. Rows = {} BY DEF OrgInit, Rows
  <1> QED BY <1>1 DEF OrgInit, OrgInv, OrgTypeOK, Above, UpdateOk, Busy, Grounded

\* A creation that has not inserted leaves the rows and their parents alone.
LEMMA RowsKept ==
  ASSUME OrgInv, UNCHANGED <<active, upc, cmd, copy, raced>>,
         stage' \in [Orgs -> {"new", "checked", "row"}], Rows' = Rows,
         parent' \in [Orgs -> Orgs \cup Foreign \cup {None}],
         \A o \in Orgs : parent'[o] \in Above, \A o \in Rows : parent'[o] = parent[o]
  PROVE  OrgInv'
  <1>1. Above' = Above /\ (Grounded => Grounded') BY DEF Above, Grounded
  <1>2. \A t, p : Clear(t, p) => Clear(t, p)' BY <1>1 DEF Clear
  <1>3. \A u : Busy(u)' <=> Busy(u) BY DEF Busy
  <1>4. OrgTypeOK' BY <1>3 DEF OrgInv, OrgTypeOK
  <1>5. ASSUME NEW u \in Updates PROVE UpdateOk(u)'
    <2> SUFFICES ASSUME Busy(u) PROVE UpdateOk(u)' BY <1>3 DEF UpdateOk
    <2>1. UpdateOk(u) BY DEF OrgInv
    <2>2. cmd[u].target \in Rows BY <2>1 DEF UpdateOk
    <2>3. parent'[cmd[u].target] = parent[cmd[u].target] BY <2>2
    <2> QED BY <1>1, <1>2, <1>3, <2>1, <2>3 DEF UpdateOk
  <1> QED BY <1>1, <1>3, <1>4, <1>5 DEF OrgInv

LEMMA CheckParentKeeps ==
  ASSUME OrgInv, NEW o \in Orgs, CheckParent(o) PROVE OrgInv'
  <1>1. PICK p \in (Rows \cap active) \cup {None} : parent' = [parent EXCEPT ![o] = p] BY DEF CheckParent
  <1>2. p \in Above /\ p \in Orgs \cup Foreign \cup {None} BY DEF Above, Rows
  <1>3. /\ stage[o] = "new" /\ stage' = [stage EXCEPT ![o] = "checked"]
        /\ UNCHANGED <<active, upc, cmd, copy, raced>>
    BY DEF CheckParent
  <1>4. stage' \in [Orgs -> {"new", "checked", "row"}] /\ Rows' = Rows /\ o \notin Rows
    BY <1>3 DEF OrgInv, OrgTypeOK, Rows
  <1>5. parent' \in [Orgs -> Orgs \cup Foreign \cup {None}] BY <1>1, <1>2 DEF OrgInv, OrgTypeOK
  <1>6. \A q \in Orgs : parent'[q] \in Above BY <1>1, <1>2 DEF OrgInv, OrgTypeOK
  <1>7. \A q \in Rows : parent'[q] = parent[q] BY <1>1, <1>4 DEF OrgInv, OrgTypeOK, Rows
  <1> QED BY <1>3, <1>4, <1>5, <1>6, <1>7, RowsKept

LEMMA FailCreateKeeps ==
  ASSUME OrgInv, NEW o \in Orgs, FailCreate(o) PROVE OrgInv'
  <1>1. /\ stage[o] = "checked" /\ stage' = [stage EXCEPT ![o] = "new"]
        /\ parent' = [parent EXCEPT ![o] = None] /\ UNCHANGED <<active, upc, cmd, copy, raced>>
    BY DEF FailCreate
  <1>2. stage' \in [Orgs -> {"new", "checked", "row"}] /\ Rows' = Rows /\ o \notin Rows
    BY <1>1 DEF OrgInv, OrgTypeOK, Rows
  <1>3. parent' \in [Orgs -> Orgs \cup Foreign \cup {None}] BY <1>1 DEF OrgInv, OrgTypeOK
  <1>4. \A q \in Orgs : parent'[q] \in Above BY <1>1 DEF OrgInv, OrgTypeOK, Above
  <1>5. \A q \in Rows : parent'[q] = parent[q] BY <1>1, <1>2 DEF OrgInv, OrgTypeOK, Rows
  <1> QED BY <1>1, <1>2, <1>3, <1>4, <1>5, RowsKept

\* A new row is nobody's parent.
LEMMA InsertOrgKeeps ==
  ASSUME OrgInv, NEW o \in Orgs, InsertOrg(o) PROVE OrgInv'
  <1>1. /\ stage[o] = "checked" /\ stage' = [stage EXCEPT ![o] = "row"] /\ active' = active \cup {o}
        /\ UNCHANGED <<parent, upc, cmd, copy, raced>>
    BY DEF InsertOrg, StoreOrg
  <1>2. stage' \in [Orgs -> {"new", "checked", "row"}] /\ Rows' = Rows \cup {o} /\ o \notin Rows
    BY <1>1 DEF OrgInv, OrgTypeOK, Rows
  <1>3. o \notin Above /\ Above \subseteq Above' BY <1>1, <1>2, OrgsAssumption DEF Above
  <1>4. \A t, p : Clear(t, p) => Clear(t, p)'
    <2> SUFFICES ASSUME NEW t, NEW p, Clear(t, p) PROVE Clear(t, p)' OBVIOUS
    <2>1. PICK A \in SUBSET Above : p \in A /\ t \notin A /\ \A q \in A \cap Rows : parent[q] \in A
      BY DEF Clear
    <2>2. A \in SUBSET Above' /\ \A q \in A \cap Rows' : parent'[q] \in A BY <1>1, <1>2, <1>3, <2>1
    <2> QED BY <2>1, <2>2 DEF Clear
  <1>5. ASSUME Grounded, NEW S \in SUBSET Rows', S # {} PROVE \E q \in S : parent[q] \notin S
    <2>1. CASE S \ {o} = {}
      <3>1. S = {o} BY <1>5, <2>1
      <3>2. parent[o] \in Above BY DEF OrgInv
      <3> QED BY <1>3, <3>1, <3>2
    <2>2. CASE S \ {o} # {}
      <3>1. S \ {o} \in SUBSET Rows BY <1>2, <1>5
      <3>2. PICK q \in S \ {o} : parent[q] \notin S \ {o} BY <1>5, <2>2, <3>1 DEF Grounded
      <3>3. parent[q] \in Above BY <3>1, <3>2, RowsSize DEF OrgInv
      <3> QED BY <1>3, <3>2, <3>3
    <2> QED BY <2>1, <2>2
  <1>6. Grounded => Grounded' BY <1>1, <1>5 DEF Grounded
  <1>7. \A u : Busy(u)' <=> Busy(u) BY <1>1 DEF Busy
  <1>8. OrgTypeOK' BY <1>1, <1>2, <1>7 DEF OrgInv, OrgTypeOK
  <1>9. ASSUME NEW u \in Updates PROVE UpdateOk(u)'
    <2> SUFFICES ASSUME Busy(u) PROVE UpdateOk(u)' BY <1>7 DEF UpdateOk
    <2>1. UpdateOk(u) BY DEF OrgInv
    <2>2. cmd'[u] \in [target : Rows', parent : Above'] /\ copy'[u] \in [parent : Above', active : BOOLEAN]
      BY <1>1, <1>2, <1>3, <2>1 DEF UpdateOk
    <2> QED BY <1>1, <1>4, <2>1, <2>2 DEF UpdateOk
  <1>10. \A q \in Orgs : parent'[q] \in Above' BY <1>1, <1>3 DEF OrgInv
  <1> QED BY <1>1, <1>6, <1>7, <1>8, <1>9, <1>10 DEF OrgInv

LEMMA ReadOrgKeeps ==
  ASSUME OrgInv, NEW u \in Updates, ReadOrg(u) PROVE OrgInv'
  <1>1. /\ upc[u] = "idle" /\ raced' = (raced \/ \E v \in Updates \ {u} : Busy(v))
        /\ UNCHANGED <<stage, parent, active>>
    BY DEF ReadOrg
  <1>2. PICK o \in Rows, p \in Rows \cup Foreign \cup {None}, setActive \in BOOLEAN :
          /\ cmd' = [cmd EXCEPT ![u] = [target |-> o, parent |-> p]]
          /\ \E held \in {parent[o]} \cup (IF p = None THEN {None} ELSE {}) :
               copy' = [copy EXCEPT ![u] = [parent |-> held, active |-> setActive]]
          /\ upc' = [upc EXCEPT ![u] = IF p # None /\ p # parent[o] THEN "check" ELSE "write"]
    BY DEF ReadOrg
  <1>3. Rows' = Rows /\ Above' = Above /\ (Grounded => Grounded') BY <1>1 DEF Rows, Above, Grounded
  <1>4. /\ cmd'[u] \in [target : Rows, parent : Above] /\ cmd'[u].target = o
        /\ copy'[u] \in [parent : Above, active : BOOLEAN] /\ copy'[u].parent \in {None, parent[o]}
        /\ DOMAIN cmd' = Updates /\ DOMAIN copy' = Updates
    <2>1. parent[o] \in Above BY RowsSize DEF OrgInv
    <2> PICK held \in {parent[o]} \cup (IF p = None THEN {None} ELSE {}) :
           copy' = [copy EXCEPT ![u] = [parent |-> held, active |-> setActive]]
      BY <1>2
    <2>2. held \in Above /\ held \in {None, parent[o]} /\ p \in Above BY <2>1 DEF Above
    <2> QED BY <1>2, <2>2 DEF OrgInv
  <1>5. /\ upc' \in [Updates -> {"idle", "check", "write", "done"}] /\ upc'[u] \in {"check", "write"}
        /\ \A v \in Updates : v # u => upc'[v] = upc[v] /\ cmd'[v] = cmd[v] /\ copy'[v] = copy[v]
    BY <1>2 DEF OrgInv, OrgTypeOK
  <1>6. \A v \in Updates : v # u => (Busy(v)' <=> Busy(v)) BY <1>5 DEF Busy
  <1>7. raced' \in BOOLEAN /\ (raced => raced') BY <1>1 DEF OrgInv, OrgTypeOK
  <1>8. OrgTypeOK'
    <2>1. \A v \in Updates : Busy(v)' => cmd'[v].target \in Rows'
      BY <1>3, <1>4, <1>5, <1>6 DEF OrgInv, OrgTypeOK
    <2> QED BY <1>1, <1>3, <1>5, <1>7, <2>1 DEF OrgInv, OrgTypeOK
  <1>9. ASSUME NEW v \in Updates PROVE UpdateOk(v)'
    <2>1. CASE v = u BY <1>1, <1>3, <1>4, <2>1 DEF UpdateOk
    <2>2. CASE v # u
      <3> SUFFICES ASSUME Busy(v) PROVE UpdateOk(v)' BY <1>6, <2>2 DEF UpdateOk
      <3>1. raced' BY <1>1, <2>2
      <3>2. UpdateOk(v) BY DEF OrgInv
      <3> QED BY <1>3, <1>5, <2>2, <3>1, <3>2 DEF UpdateOk
    <2> QED BY <2>1, <2>2
  <1>10. \A v, w \in Updates : Busy(v)' /\ Busy(w)' /\ v # w => raced'
    BY <1>1, <1>6, <1>7 DEF OrgInv
  <1>11. \A q \in Orgs : parent'[q] \in Above' BY <1>1, <1>3 DEF OrgInv
  <1> QED BY <1>3, <1>4, <1>7, <1>8, <1>9, <1>10, <1>11 DEF OrgInv
\* An update that moves on and leaves the table alone.
LEMMA UpdateMoves ==
  ASSUME OrgInv, NEW u \in Updates, Busy(u), UNCHANGED <<stage, parent, active, cmd, raced>>,
         upc' \in [Updates -> {"idle", "check", "write", "done"}], DOMAIN copy' = Updates,
         \A v \in Updates : v # u => upc'[v] = upc[v] /\ copy'[v] = copy[v],
         UpdateOk(u)'
  PROVE  OrgInv'
  <1>1. Rows' = Rows /\ Above' = Above /\ (Grounded => Grounded') BY DEF Rows, Above, Grounded
  <1>2. \A t, p : Clear(t, p) => Clear(t, p)' BY <1>1 DEF Clear
  <1>3. \A v \in Updates : Busy(v)' => Busy(v) BY DEF Busy
  <1>4. OrgTypeOK' BY <1>1, <1>3 DEF OrgInv, OrgTypeOK
  <1>5. ASSUME NEW v \in Updates, v # u PROVE UpdateOk(v)'
    <2>1. UpdateOk(v) BY DEF OrgInv
    <2> QED BY <1>1, <1>2, <1>5, <2>1 DEF UpdateOk, Busy
  <1> QED BY <1>1, <1>3, <1>4, <1>5 DEF OrgInv

LEMMA CheckHierarchyKeeps ==
  ASSUME OrgInv, NEW u \in Updates, CheckHierarchy(u) PROVE OrgInv'
  <1>1. upc[u] = "check" /\ UNCHANGED <<stage, parent, active, cmd, raced>> BY DEF CheckHierarchy
  <1>2. Busy(u) /\ UpdateOk(u) BY <1>1 DEF Busy, OrgInv
  <1>3. cmd[u] \in [target : Rows, parent : Above] /\ copy[u] \in [parent : Above, active : BOOLEAN]
    BY <1>2 DEF UpdateOk
  <1>4. Rows' = Rows /\ Above' = Above BY <1>1 DEF Rows, Above
  <1>5. CASE ~ CheckCircularReference(parent, Rows, cmd[u].target, cmd[u].parent)
    <2>1. upc' = [upc EXCEPT ![u] = "done"] /\ UNCHANGED copy BY <1>5 DEF CheckHierarchy
    <2>2. /\ upc' \in [Updates -> {"idle", "check", "write", "done"}] /\ upc'[u] = "done"
          /\ \A v \in Updates : v # u => upc'[v] = upc[v]
      BY <2>1 DEF OrgInv, OrgTypeOK
    <2>3. UpdateOk(u)' BY <2>2 DEF UpdateOk, Busy
    <2> QED BY <1>1, <1>2, <2>1, <2>2, <2>3, UpdateMoves DEF OrgInv
  <1>6. CASE CheckCircularReference(parent, Rows, cmd[u].target, cmd[u].parent)
    <2>1. upc' = [upc EXCEPT ![u] = "write"] /\ copy' = [copy EXCEPT ![u].parent = cmd[u].parent]
      BY <1>6 DEF CheckHierarchy
    <2>2. /\ upc' \in [Updates -> {"idle", "check", "write", "done"}]
          /\ \A v \in Updates : v # u => upc'[v] = upc[v] /\ copy'[v] = copy[v]
          /\ DOMAIN copy' = Updates
      BY <2>1 DEF OrgInv, OrgTypeOK
    <2>3. copy'[u] = [copy[u] EXCEPT !.parent = cmd[u].parent] BY <2>1 DEF OrgInv
    <2>4. copy'[u] \in [parent : Above, active : BOOLEAN] /\ copy'[u].parent = cmd[u].parent
      BY <1>3, <2>3
    <2>5. copy'[u].parent = None \/ Clear(cmd[u].target, copy'[u].parent)
      <3>1. cmd[u].target \in Rows /\ cmd[u].parent \in Above BY <1>3
      <3> QED BY <1>6, <2>4, <3>1, CheckedIsClear DEF OrgInv
    <2>6. Clear(cmd[u].target, copy'[u].parent) => Clear(cmd[u].target, copy[u].parent)'
      BY <1>1, <1>4 DEF Clear
    <2>7. UpdateOk(u)' BY <1>1, <1>3, <1>4, <2>4, <2>5, <2>6 DEF UpdateOk
    <2> QED BY <1>1, <1>2, <2>2, <2>7, UpdateMoves
  <1> QED BY <1>5, <1>6

LEMMA FailUpdateKeeps ==
  ASSUME OrgInv, NEW u \in Updates, FailUpdate(u) PROVE OrgInv'
  <1>1. /\ Busy(u) /\ upc' = [upc EXCEPT ![u] = "done"]
        /\ UNCHANGED <<stage, parent, active, cmd, copy, raced>>
    BY DEF FailUpdate
  <1>2. /\ upc' \in [Updates -> {"idle", "check", "write", "done"}] /\ upc'[u] = "done"
        /\ \A v \in Updates : v # u => upc'[v] = upc[v]
    BY <1>1 DEF OrgInv, OrgTypeOK
  <1>3. UpdateOk(u)' BY <1>2 DEF UpdateOk, Busy
  <1> QED BY <1>1, <1>2, <1>3, UpdateMoves DEF OrgInv

\* The parent that a clear update writes closes no cycle.
LEMMA ClearKeepsGrounded ==
  ASSUME Grounded, NEW t \in Rows, NEW p, Clear(t, p), Rows' = Rows, parent'[t] = p,
         \A o \in Rows : o # t => parent'[o] = parent[o]
  PROVE  Grounded'
  <1> SUFFICES ASSUME NEW S \in SUBSET Rows, S # {}, \A o \in S : parent'[o] \in S PROVE FALSE
    BY DEF Grounded
  <1>1. PICK A \in SUBSET Above : p \in A /\ t \notin A /\ \A o \in A \cap Rows : parent[o] \in A
    BY DEF Clear
  <1>2. CASE t \notin S BY <1>2 DEF Grounded
  <1>3. CASE t \in S
    <2>1. PICK U : U = S \cap A OBVIOUS
    <2>2. U \in SUBSET Rows /\ p \in U BY <1>1, <1>3, <2>1
    <2>3. \A o \in U : parent[o] \in U BY <1>1, <2>1
    <2> QED BY <2>2, <2>3 DEF Grounded
  <1> QED BY <1>2, <1>3

LEMMA WriteOrgKeeps ==
  ASSUME OrgInv, NEW u \in Updates, WriteOrg(u) PROVE OrgInv'
  <1>1. /\ upc[u] = "write" /\ upc' = [upc EXCEPT ![u] = "done"] /\ UNCHANGED <<stage, cmd, copy, raced>>
        /\ SetOrg(cmd[u].target, copy[u])
    BY DEF WriteOrg
  <1>2. Busy(u) /\ UpdateOk(u) BY <1>1 DEF Busy, OrgInv
  <1>3. PICK t, p : t = cmd[u].target /\ p = copy[u].parent OBVIOUS
  <1>4. /\ t \in Rows /\ t \in Orgs /\ p \in Above /\ copy[u].active \in BOOLEAN
        /\ p \in Orgs \cup Foreign \cup {None}
    BY <1>2, <1>3, RowsSize DEF UpdateOk, Above
  <1>5. /\ parent' = (IF p = None THEN parent ELSE [parent EXCEPT ![t] = p])
        /\ active' \subseteq active \cup {t}
    BY <1>1, <1>3, <1>4 DEF SetOrg
  <1>6. Rows' = Rows /\ Above' = Above BY <1>1 DEF Rows, Above
  <1>7. /\ upc' \in [Updates -> {"idle", "check", "write", "done"}] /\ upc'[u] = "done"
        /\ \A v \in Updates : v # u => upc'[v] = upc[v]
    BY <1>1 DEF OrgInv, OrgTypeOK
  <1>8. /\ ~Busy(u)'
        /\ \A v \in Updates : v # u => (Busy(v)' <=> Busy(v))
    BY <1>7 DEF Busy
  <1>9. parent' \in [Orgs -> Orgs \cup Foreign \cup {None}] BY <1>4, <1>5 DEF OrgInv, OrgTypeOK
  <1>10. \A o \in Orgs : parent'[o] \in Above' BY <1>4, <1>5, <1>6 DEF OrgInv, OrgTypeOK
  <1>11. OrgTypeOK'
    <2>1. active' \subseteq Rows' BY <1>4, <1>5, <1>6 DEF OrgInv, OrgTypeOK
    <2>2. \A v \in Updates : Busy(v)' => cmd'[v].target \in Rows' BY <1>1, <1>6, <1>8 DEF OrgInv, OrgTypeOK
    <2> QED BY <1>1, <1>7, <1>9, <2>1, <2>2 DEF OrgInv, OrgTypeOK
  <1>12. ASSUME NEW v \in Updates PROVE UpdateOk(v)'
    <2> SUFFICES ASSUME Busy(v)' PROVE UpdateOk(v)' BY DEF UpdateOk
    <2>1. v # u /\ Busy(v) /\ UpdateOk(v) BY <1>8 DEF OrgInv
    <2>2. raced BY <1>2, <2>1 DEF OrgInv
    <2> QED BY <1>1, <1>6, <2>1, <2>2 DEF UpdateOk
  <1>13. \A v, w \in Updates : Busy(v)' /\ Busy(w)' /\ v # w => raced' BY <1>1, <1>8 DEF OrgInv
  <1>14. ASSUME ~raced PROVE Grounded'
    <2>1. Grounded BY <1>14 DEF OrgInv
    <2>2. p \in {None, parent[t]} \/ Clear(t, p) BY <1>1, <1>2, <1>3, <1>14 DEF UpdateOk
    <2>3. CASE p \in {None, parent[t]}
      <3>1. parent' = parent BY <1>4, <1>5, <2>3 DEF OrgInv, OrgTypeOK
      <3> QED BY <1>6, <2>1, <3>1 DEF Grounded
    <2>4. CASE p # None /\ Clear(t, p)
      <3>1. parent'[t] = p /\ \A o \in Rows : o # t => parent'[o] = parent[o]
        BY <1>4, <1>5, <2>4, RowsSize DEF OrgInv, OrgTypeOK
      <3> QED BY <1>4, <1>6, <2>1, <2>4, <3>1, ClearKeepsGrounded
    <2> QED BY <2>2, <2>3, <2>4
  <1> QED BY <1>1, <1>10, <1>11, <1>12, <1>13, <1>14 DEF OrgInv

LEMMA OrgStep == OrgInv /\ [OrgNext]_orgVars => OrgInv'
  <1> SUFFICES ASSUME OrgInv, [OrgNext]_orgVars PROVE OrgInv' OBVIOUS
  <1>1. CASE UNCHANGED orgVars
    <2>1. Rows' = Rows /\ Above' = Above BY <1>1 DEF orgVars, Rows, Above
    <2> QED BY <1>1, <2>1 DEF orgVars, OrgInv, OrgTypeOK, UpdateOk, Busy, Clear, Grounded
  <1>2. CASE OrgNext
    BY <1>2, CheckParentKeeps, InsertOrgKeeps, FailCreateKeeps, ReadOrgKeeps, CheckHierarchyKeeps,
       WriteOrgKeeps, FailUpdateKeeps DEF OrgNext
  <1> QED BY <1>1, <1>2
-----------------------------------------------------------------------------
(* The answer of BuildTree.                                                *)

\* The walk from o is at a root of the tenant after m steps.
Rooted(o, m) == Walk(parent, Rows, o)[m] \in Rows /\ parent[Walk(parent, Rows, o)[m]] = None

\* From outside the rows no walk comes back to them.
LEMMA WalkStaysOut ==
  ASSUME \A o \in Orgs : parent[o] \in Above, NEW p \in Above, p \notin Rows
  PROVE  \A n \in 0..Cardinality(Orgs) : ~Rooted(p, n)
  <1>1. PICK K \in Nat : K = Cardinality(Orgs) BY RowsSize
  <1>2. PICK at : at = Walk(parent, Rows, p) OBVIOUS
  <1>3. /\ at[0] = p
        /\ \A n \in 1..K : at[n] = IF at[n - 1] \in Rows THEN parent[at[n - 1]] ELSE None
    BY <1>1, <1>2, WalkUp
  <1>4. PICK T : T = {n \in Nat : n <= K => at[n] \notin Rows} OBVIOUS
  <1>5. T \in SUBSET Nat /\ 0 \in T BY <1>3, <1>4
  <1>6. ASSUME NEW n \in T PROVE n + 1 \in T
    <2> SUFFICES ASSUME n + 1 <= K PROVE at[n + 1] \notin Rows BY <1>4, <1>6
    <2>1. n \in Nat /\ n <= K /\ at[n] \notin Rows BY <1>1, <1>4, <1>6
    <2>2. n + 1 \in 1..K /\ (n + 1) - 1 = n BY <1>1, <2>1
    <2> QED BY <1>3, <2>1, <2>2, RowsSize
  <1>7. \A n \in Nat : n \in T BY <1>5, <1>6, SetInduction
  <1>8. \A n \in 0..K : at[n] \notin Rows BY <1>1, <1>4, <1>7
  <1> QED BY <1>1, <1>2, <1>8 DEF Rooted

\* The walk from a row is, one step on, the walk from its parent.
LEMMA WalkShifts ==
  ASSUME \A o \in Orgs : parent[o] \in Above, NEW o \in Rows
  PROVE  \A n \in 0..(Cardinality(Orgs) - 1) : Rooted(parent[o], n) <=> Rooted(o, n + 1)
  <1>1. PICK K \in Nat : K = Cardinality(Orgs) BY RowsSize
  <1>2. PICK at, up : at = Walk(parent, Rows, o) /\ up = Walk(parent, Rows, parent[o]) OBVIOUS
  <1>3. o \in Above /\ parent[o] \in Above BY RowsSize DEF Above
  <1>4. /\ at[0] = o
        /\ \A n \in 1..K : at[n] = IF at[n - 1] \in Rows THEN parent[at[n - 1]] ELSE None
    BY <1>1, <1>2, <1>3, WalkUp
  <1>5. /\ up[0] = parent[o]
        /\ \A n \in 1..K : up[n] = IF up[n - 1] \in Rows THEN parent[up[n - 1]] ELSE None
    BY <1>1, <1>2, <1>3, WalkUp
  <1>6. PICK T : T = {n \in Nat : n < K => up[n] = at[n + 1]} OBVIOUS
  <1>7. T \in SUBSET Nat /\ 0 \in T
    <2> SUFFICES ASSUME 0 < K PROVE up[0] = at[0 + 1] BY <1>6
    <2>1. 1 \in 1..K /\ 0 + 1 = 1 /\ 1 - 1 = 0 BY <1>1
    <2>2. at[1] = parent[o] BY <1>4, <2>1
    <2> QED BY <1>5, <2>1, <2>2
  <1>8. ASSUME NEW n \in T PROVE n + 1 \in T
    <2> SUFFICES ASSUME n + 1 < K PROVE up[n + 1] = at[(n + 1) + 1] BY <1>6, <1>8
    <2>1. n \in Nat /\ n < K /\ up[n] = at[n + 1] BY <1>1, <1>6, <1>8
    <2>2. n + 1 \in 1..K /\ (n + 1) - 1 = n /\ (n + 1) + 1 \in 1..K /\ ((n + 1) + 1) - 1 = n + 1
      BY <1>1, <2>1
    <2>3. up[n + 1] = IF up[n] \in Rows THEN parent[up[n]] ELSE None BY <1>5, <2>2
    <2>4. at[(n + 1) + 1] = IF at[n + 1] \in Rows THEN parent[at[n + 1]] ELSE None BY <1>4, <2>2
    <2> QED BY <2>1, <2>3, <2>4
  <1>9. \A n \in Nat : n \in T BY <1>7, <1>8, SetInduction
  <1>10. \A n \in 0..(K - 1) : n \in Nat /\ n < K BY <1>1
  <1>11. \A n \in 0..(K - 1) : up[n] = at[n + 1] BY <1>6, <1>9, <1>10
  <1> QED BY <1>1, <1>2, <1>11 DEF Rooted

\* BuildTree, level by level.
LEMMA LevelsAre ==
  \E level \in [0..Cardinality(Orgs) -> SUBSET Rows] :
    /\ level[0] = {o \in Rows : parent[o] = None}
    /\ \A n \in 1..Cardinality(Orgs) :
         level[n] = level[n - 1] \cup {o \in Rows : parent[o] \in level[n - 1]}
    /\ BuildTree(parent, Rows) = level[Cardinality(Orgs)]
  <1>1. PICK K \in Nat : K = Cardinality(Orgs) BY RowsSize
  <1>2. PICK g : g = [n \in Nat |-> [L \in SUBSET Rows |-> L \cup {o \in Rows : parent[o] \in L}]] OBVIOUS
  <1>3. PICK roots : roots = {o \in Rows : parent[o] = None} OBVIOUS
  <1>4. g \in [Nat -> [SUBSET Rows -> SUBSET Rows]] /\ roots \in SUBSET Rows BY <1>2, <1>3
  <1>5. PICK f : Follows(f, K, SUBSET Rows, roots, g) BY <1>4, RecursionExists
  <1>6. f = [n \in 0..K |-> IF n = 0 THEN {o \in Rows : parent[o] = None}
                            ELSE f[n - 1] \cup {o \in Rows : parent[o] \in f[n - 1]}]
    <2>1. ASSUME NEW n \in 0..K
          PROVE  f[n] = IF n = 0 THEN {o \in Rows : parent[o] = None}
                        ELSE f[n - 1] \cup {o \in Rows : parent[o] \in f[n - 1]}
      <3>1. CASE n = 0 BY <1>3, <1>5, <3>1 DEF Follows
      <3>2. CASE n # 0
        <4>1. n \in 1..K /\ n - 1 \in 0..K BY <3>2
        <4>2. f[n] = g[n][f[n - 1]] /\ f[n - 1] \in SUBSET Rows /\ n \in Nat BY <1>5, <4>1 DEF Follows
        <4> QED BY <1>2, <3>2, <4>2
      <3> QED BY <3>1, <3>2
    <2>2. f = [n \in 0..K |-> f[n]] BY <1>5 DEF Follows
    <2> QED BY <2>1, <2>2
  <1>7. PICK level :
          /\ level = [n \in 0..K |-> IF n = 0 THEN {o \in Rows : parent[o] = None}
                                     ELSE level[n - 1] \cup {o \in Rows : parent[o] \in level[n - 1]}]
          /\ BuildTree(parent, Rows) = level[K]
    BY <1>1, <1>6 DEF BuildTree
  <1>8. /\ level[0] = {o \in Rows : parent[o] = None}
        /\ \A n \in 1..K : level[n] = level[n - 1] \cup {o \in Rows : parent[o] \in level[n - 1]}
    <2>1. level[0] = {o \in Rows : parent[o] = None}
      <3>1. 0 \in 0..K BY <1>1
      <3> QED BY <1>7, <3>1
    <2>2. ASSUME NEW n \in 1..K PROVE level[n] = level[n - 1] \cup {o \in Rows : parent[o] \in level[n - 1]}
      <3>1. n \in 0..K /\ n # 0 BY <1>1, <2>2
      <3> QED BY <1>7, <3>1
    <2> QED BY <2>1, <2>2
  <1>9. PICK T : T = {n \in Nat : n <= K => level[n] \in SUBSET Rows} OBVIOUS
  <1>10. T \in SUBSET Nat /\ 0 \in T BY <1>8, <1>9
  <1>11. ASSUME NEW n \in T PROVE n + 1 \in T
    <2> SUFFICES ASSUME n + 1 <= K PROVE level[n + 1] \in SUBSET Rows BY <1>9, <1>11
    <2>1. n \in Nat /\ n <= K /\ level[n] \in SUBSET Rows BY <1>1, <1>9, <1>11
    <2>2. n + 1 \in 1..K /\ (n + 1) - 1 = n BY <1>1, <2>1
    <2> QED BY <1>8, <2>1, <2>2
  <1>12. \A n \in Nat : n \in T BY <1>10, <1>11, SetInduction
  <1>13. \A n \in 0..K : level[n] \in SUBSET Rows BY <1>1, <1>9, <1>12
  <1>14. level \in [0..K -> SUBSET Rows]
    <2>1. level = [n \in 0..K |-> level[n]] BY <1>7
    <2> QED BY <1>13, <2>1
  <1> QED BY <1>1, <1>7, <1>8, <1>14
\* What looks down from the roots finds what looks up to them.
LEMMA TreeRooted ==
  ASSUME OrgInv PROVE TreeIsRootedPart
  <1>1. PICK K \in Nat : K = Cardinality(Orgs) BY RowsSize
  <1>2. PICK level \in [0..K -> SUBSET Rows] :
          /\ level[0] = {o \in Rows : parent[o] = None}
          /\ \A n \in 1..K : level[n] = level[n - 1] \cup {o \in Rows : parent[o] \in level[n - 1]}
          /\ BuildTree(parent, Rows) = level[K]
    BY <1>1, LevelsAre
  <1>3. \A o \in Orgs : parent[o] \in Above BY DEF OrgInv
  <1> DEFINE Upward(n) == {o \in Rows : \E m \in 0..n : Rooted(o, m)}
  <1>4. PICK T : T = {n \in Nat : n <= K => level[n] = Upward(n)} OBVIOUS
  <1>5. 0 \in T
    <2>1. ASSUME NEW o \in Rows PROVE parent[o] = None <=> \E m \in 0..0 : Rooted(o, m)
      <3>1. Walk(parent, Rows, o)[0] = o BY <1>3, <2>1, WalkUp DEF Above
      <3>2. \A m \in 0..0 : m = 0 OBVIOUS
      <3>3. 0 \in 0..0 OBVIOUS
      <3> QED BY <2>1, <3>1, <3>2, <3>3 DEF Rooted
    <2>2. level[0] = Upward(0) BY <1>2, <2>1
    <2> QED BY <1>4, <2>2
  <1>6. ASSUME NEW n \in T PROVE n + 1 \in T
    <2> SUFFICES ASSUME n + 1 <= K PROVE level[n + 1] = Upward(n + 1) BY <1>4, <1>6
    <2>1. n \in Nat /\ n <= K /\ level[n] = Upward(n) BY <1>1, <1>4, <1>6
    <2>2. n + 1 \in 1..K /\ (n + 1) - 1 = n BY <1>1, <2>1
    <2>3. level[n + 1] = level[n] \cup {o \in Rows : parent[o] \in level[n]} BY <1>2, <2>2
    <2>4. ASSUME NEW o \in Rows
          PROVE  (o \in level[n] \/ parent[o] \in level[n]) <=> \E m \in 0..(n + 1) : Rooted(o, m)
      <3>1. \A m \in 0..n : m \in 0..(K - 1) /\ m + 1 \in 0..(n + 1) /\ m \in 0..(n + 1) /\ m \in 0..K
        BY <1>1, <2>1
      <3>2. \A m \in 0..n : Rooted(parent[o], m) <=> Rooted(o, m + 1)
        BY <1>1, <1>3, <2>4, <3>1, WalkShifts
      <3>3. parent[o] \in Above BY <1>3, <2>4, RowsSize
      <3>4. ASSUME o \in level[n] PROVE \E m \in 0..(n + 1) : Rooted(o, m)
        BY <2>1, <3>1, <3>4
      <3>5. ASSUME parent[o] \in level[n] PROVE \E m \in 0..(n + 1) : Rooted(o, m)
        <4>1. PICK m \in 0..n : Rooted(parent[o], m) BY <2>1, <3>5
        <4> QED BY <3>1, <3>2, <4>1
      <3>6. ASSUME NEW m \in 0..(n + 1), Rooted(o, m) PROVE o \in level[n] \/ parent[o] \in level[n]
        <4>1. CASE m # n + 1
          <5>1. m \in 0..n BY <2>1, <3>6, <4>1
          <5> QED BY <2>1, <2>4, <3>6, <5>1
        <4>2. CASE m = n + 1
          <5>1. n \in 0..n BY <2>1
          <5>2. Rooted(parent[o], n) BY <3>2, <3>6, <4>2, <5>1
          <5>3. parent[o] \in Rows BY <1>1, <1>3, <3>1, <3>3, <5>1, <5>2, WalkStaysOut
          <5> QED BY <2>1, <5>1, <5>2, <5>3
        <4> QED BY <4>1, <4>2
      <3> QED BY <3>4, <3>5, <3>6
    <2>5. level[n] \in SUBSET Rows BY <2>1
    <2> QED BY <2>3, <2>4, <2>5
  <1>7. T \in SUBSET Nat BY <1>4
  <1>8. K \in T BY <1>5, <1>6, <1>7, SetInduction
  <1>9. level[K] = Upward(K) BY <1>1, <1>4, <1>8
  <1> QED BY <1>1, <1>2, <1>9 DEF TreeIsRootedPart, Rooted

LEMMA OrgInvSound == OrgInv => HierarchySound
  BY GroundedIsAcyclic, TreeRooted DEF OrgInv, HierarchySound, AcyclicUnlessRaced

-----------------------------------------------------------------------------
(* Units, products and variants.                                           *)

ProductArgs == [product : Products,
                asked : [status : ProductStatuses \cup {Missing}, barcode : Barcodes \cup {Missing}],
                status : ProductStatuses, barcode : Barcodes \cup {Missing}]

CatalogShape ==
  /\ CatalogTypeOK
  /\ DOMAIN karg = CatalogCallers /\ DOMAIN ordered = Products /\ clashed \subseteq Products

ConversionOk(c) ==
  kpc[c] = "insert" => karg[c] \in [from : Units, to : Units, factor : Exponents \cup {Tiny}]

ProductOk(p) ==
  /\ kpc[p] \in {"unit", "insert"} => karg[p] \in ProductRow /\ karg[p].status = "active"
  /\ kpc[p] \in {"idle", "unit", "insert"} => product[p] = Missing

VariantOk(v) == kpc[v] = "insert" => karg[v] \in VariantRow

\* What an update of a product has read stays true unless another overlaps it.
OverwriteOk(c) ==
  kpc[c] = "write" =>
    /\ karg[c] \in ProductArgs /\ product[karg[c].product] # Missing
    /\ karg[c].product \notin clashed =>
         LET row == product[karg[c].product]  want == karg[c].asked IN
         karg[c].status = Given(want.status, row.status) /\ karg[c].barcode = Given(want.barcode, row.barcode)

OverwritesApart ==
  \A c, d \in ProductCalls : c # d /\ kpc[c] = "write" /\ kpc[d] = "write" /\ karg[c].product = karg[d].product
    => karg[c].product \in clashed

CatalogInv ==
  /\ CatalogShape
  /\ \A u \in Units : GetUnitByID(u) => unit[u].upper
  /\ UnitCodesDiffer /\ SkusUnique /\ ProductAsAsked
  /\ \A c \in Conversions : ConversionOk(c)
  /\ \A p \in Products : ProductOk(p)
  /\ \A v \in Variants : VariantOk(v)
  /\ \A c \in ProductCalls : OverwriteOk(c)
  /\ OverwritesApart

-----------------------------------------------------------------------------
(* Parties.                                                                *)

PartyShape ==
  /\ PartyTypeOK
  /\ DOMAIN parg = PartyCallers /\ DOMAIN asked = Creations /\ collided \subseteq Creations

\* The initial role t of p has been dealt with.
RoleDone(p, t) == <<p, t>> \in swallowed \cup removed \/ \E r \in role : r[1] = p /\ r[2] = t

CreationArgs == [party : {Unset}, code : PartyCodes \cup {Unset}, status : {Unset}, asked : {Unset},
                 todo : Seq(RoleTypes), role : SUBSET RoleTypes]

CreationOk(p) ==
  /\ ppc[p] \in {"idle", "insert"} => party[p] = Unset
  /\ ppc[p] \in {"insert", "roles"} => parg[p] \in CreationArgs
  /\ ppc[p] = "insert" => \A t \in parg[p].role : t \in Range(parg[p].todo)
  /\ ppc[p] = "roles" => \A t \in parg[p].role : RoleDone(p, t) \/ t \in Range(parg[p].todo)

PartyCallOk(c) ==
  /\ ppc[c] = "add" => parg[c].role \in PartyRole
  /\ ppc[c] = "write" =>
       /\ parg[c].party \in Creations /\ PartyExists(parg[c].party) /\ parg[c].status \in PartyStatuses
       /\ parg[c].asked # Unset => parg[c].status = parg[c].asked
       /\ parg[c].asked = Unset /\ parg[c].party \notin collided => parg[c].status = party[parg[c].party].status

AdditionOk(a) == ppc[a] \in {"address", "link", "contact"} => parg[a].party \in Creations

PartyUpdatesApart ==
  \A c, d \in PartyCalls : c # d /\ ppc[c] = "write" /\ ppc[d] = "write" /\ parg[c].party = parg[d].party
    => parg[c].party \in collided

PartyInv ==
  /\ PartyShape
  /\ InitialRolesGiven /\ AddressesHaveOwners /\ PartyAsAsked
  /\ \A p \in Creations : CreationOk(p)
  /\ \A c \in PartyCalls : PartyCallOk(c)
  /\ \A a \in Additions : AdditionOk(a)
  /\ PartyUpdatesApart
-----------------------------------------------------------------------------
(* The steps of the catalog.                                               *)

LEMMA CatalogInitOk == CatalogInit => CatalogInv
  <1> SUFFICES ASSUME CatalogInit PROVE CatalogInv OBVIOUS
  <1>1. CatalogTypeOK
    <2>1. conv = <<>> /\ conv \in Seq(ConversionRow) /\ DOMAIN conv = {} BY DEF CatalogInit
    <2> QED BY <2>1 DEF CatalogInit, CatalogTypeOK, CatalogLabels, CatalogCallers
  <1>2. CatalogShape BY <1>1 DEF CatalogInit, CatalogShape
  <1>3. UnitCodesDiffer /\ SkusUnique /\ ProductAsAsked /\ (\A u \in Units : ~GetUnitByID(u))
    BY DEF CatalogInit, UnitCodesDiffer, SkusUnique, ProductAsAsked, GetUnitByID
  <1>4. \A c \in CatalogCallers : kpc[c] = "idle" BY DEF CatalogInit
  <1>5. \A p \in Products : product[p] = Missing BY DEF CatalogInit
  <1> QED BY <1>2, <1>3, <1>4, <1>5
        DEF CatalogInv, CatalogCallers, ConversionOk, ProductOk, VariantOk, OverwriteOk, OverwritesApart

LEMMA CatalogLabelsAre ==
  {"idle", "unit", "insert", "write", "ok", "refused"} \subseteq CatalogLabels
  BY DEF CatalogLabels

\* A call moves on alone.
CatalogMoved(c) ==
  /\ kpc' \in [CatalogCallers -> CatalogLabels] /\ DOMAIN karg' = CatalogCallers
  /\ \A e \in CatalogCallers : e # c => kpc'[e] = kpc[e] /\ karg'[e] = karg[e]

LEMMA CatalogToMoves ==
  ASSUME CatalogInv, NEW c \in CatalogCallers, NEW label \in CatalogLabels, NEW r, CatalogTo(c, label, r)
  PROVE  CatalogMoved(c) /\ kpc'[c] = label /\ karg'[c] = r
  BY DEF CatalogTo, CatalogMoved, CatalogInv, CatalogShape, CatalogTypeOK

\* A step that changes no table.
LEMMA CatalogQuiet ==
  ASSUME CatalogInv, NEW c \in CatalogCallers, CatalogMoved(c),
         UNCHANGED <<unit, conv, product, variant, ordered>>,
         clashed \subseteq clashed', clashed' \subseteq Products,
         c \in Conversions => ConversionOk(c)', c \in Products => ProductOk(c)',
         c \in Variants => VariantOk(c)', c \in ProductCalls => OverwriteOk(c)', OverwritesApart'
  PROVE  CatalogInv'
  <1>1. CatalogShape' BY DEF CatalogInv, CatalogShape, CatalogTypeOK, CatalogMoved
  <1>2. (UnitCodesDiffer /\ SkusUnique /\ ProductAsAsked /\ \A u \in Units : GetUnitByID(u) => unit[u].upper)'
    BY DEF CatalogInv, UnitCodesDiffer, SkusUnique, ProductAsAsked, GetUnitByID
  <1>3. \A e \in Conversions : e # c => ConversionOk(e)'
    BY DEF CatalogInv, CatalogMoved, CatalogCallers, ConversionOk
  <1>4. \A e \in Products : e # c => ProductOk(e)' BY DEF CatalogInv, CatalogMoved, CatalogCallers, ProductOk
  <1>5. \A e \in Variants : e # c => VariantOk(e)' BY DEF CatalogInv, CatalogMoved, CatalogCallers, VariantOk
  <1>6. \A e \in ProductCalls : e # c => OverwriteOk(e)'
    BY DEF CatalogInv, CatalogMoved, CatalogCallers, OverwriteOk
  <1> QED BY <1>1, <1>2, <1>3, <1>4, <1>5, <1>6 DEF CatalogInv

\* A call that does not write keeps the updates apart.
LEMMA OverwritesStayApart ==
  ASSUME CatalogInv, NEW c \in CatalogCallers, CatalogMoved(c), clashed \subseteq clashed',
         c \in ProductCalls => kpc'[c] # "write"
  PROVE  OverwritesApart'
  BY DEF CatalogInv, OverwritesApart, CatalogMoved, CatalogCallers

\* A call that ends without having changed a table.
LEMMA CatalogEnds ==
  ASSUME CatalogInv, NEW c \in CatalogCallers, NEW r, NEW label \in {"ok", "refused"},
         CatalogTo(c, label, r), UNCHANGED <<unit, conv, product, variant, ordered, clashed>>
  PROVE  CatalogInv'
  <1>1. label \in CatalogLabels BY CatalogLabelsAre
  <1>2. CatalogMoved(c) /\ kpc'[c] = label BY <1>1, CatalogToMoves
  <1>3. /\ c \in Conversions => ConversionOk(c)'
        /\ c \in Variants => VariantOk(c)'
        /\ c \in Products => ProductOk(c)'
        /\ c \in ProductCalls => OverwriteOk(c)'
    BY <1>2 DEF ConversionOk, VariantOk, ProductOk, OverwriteOk
  <1>4. OverwritesApart'
    <2>1. kpc'[c] # "write" /\ clashed \subseteq clashed' BY <1>2
    <2> QED BY <1>2, <2>1, OverwritesStayApart
  <1>5. clashed \subseteq clashed' /\ clashed' \subseteq Products BY DEF CatalogInv, CatalogShape
  <1> QED BY <1>2, <1>3, <1>4, <1>5, CatalogQuiet
\* A call that ends with a write of the tables.
LEMMA CatalogWrites ==
  ASSUME CatalogInv, NEW c \in CatalogCallers, CatalogTo(c, "ok", Missing), clashed' = clashed,
         unit' \in [Units -> UnitCode \cup {Missing}], conv' \in Seq(ConversionRow),
         product' \in [Products -> ProductRow \cup {Missing}], variant' \in [Variants -> VariantRow \cup {Missing}],
         (\A i, j \in DOMAIN conv : conv[i].from = conv[j].from /\ conv[i].to = conv[j].to => i = j)',
         DOMAIN ordered' = Products,
         (UnitCodesDiffer /\ SkusUnique /\ ProductAsAsked)',
         (\A u \in Units : GetUnitByID(u) => unit[u].upper)',
         \A p \in Products : p # c /\ product[p] = Missing => product'[p] = Missing,
         \A e \in ProductCalls : e # c => OverwriteOk(e)'
  PROVE  CatalogInv'
  <1>1. CatalogMoved(c) /\ kpc'[c] = "ok" BY CatalogToMoves, CatalogLabelsAre
  <1>2. CatalogTypeOK' BY <1>1 DEF CatalogTypeOK, CatalogMoved
  <1>3. CatalogShape' BY <1>1, <1>2 DEF CatalogInv, CatalogShape, CatalogMoved
  <1>4. \A e \in Conversions : ConversionOk(e)'
    BY <1>1 DEF CatalogInv, CatalogMoved, CatalogCallers, ConversionOk
  <1>5. \A e \in Products : ProductOk(e)' BY <1>1 DEF CatalogInv, CatalogMoved, CatalogCallers, ProductOk
  <1>6. \A e \in Variants : VariantOk(e)' BY <1>1 DEF CatalogInv, CatalogMoved, CatalogCallers, VariantOk
  <1>7. \A e \in ProductCalls : OverwriteOk(e)' BY <1>1 DEF OverwriteOk
  <1>8. OverwritesApart' BY <1>1, OverwritesStayApart
  <1> QED BY <1>3, <1>4, <1>5, <1>6, <1>7, <1>8 DEF CatalogInv

\* Updates see no difference in a step that leaves products alone.
LEMMA OverwriteUnmoved ==
  ASSUME CatalogInv, NEW c \in CatalogCallers, CatalogMoved(c), clashed' = clashed, product' = product,
         NEW e \in ProductCalls, e # c
  PROVE  OverwriteOk(e)'
  BY DEF CatalogInv, CatalogMoved, CatalogCallers, OverwriteOk

LEMMA CreateUnitKeeps ==
  ASSUME CatalogInv, NEW u \in Units, CreateUnit(u) PROVE CatalogInv'
  <1> u \in CatalogCallers BY DEF CatalogCallers
  <1>1. UNCHANGED <<conv, product, variant, ordered, clashed>> BY DEF CreateUnit
  <1>2. PICK code : /\ code \in UnitCode /\ code.upper
                    /\ IF \E v \in Units : unit[v] = code
                         THEN CatalogTo(u, "refused", Missing) /\ UNCHANGED unit
                         ELSE CatalogTo(u, "ok", Missing) /\ unit' = [unit EXCEPT ![u] = code]
    <2>1. PICK spelled \in UnitCode :
            IF \E v \in Units : unit[v] = NormalizeCode(spelled)
              THEN CatalogTo(u, "refused", Missing) /\ UNCHANGED unit
              ELSE CatalogTo(u, "ok", Missing) /\ InsertUnit(u, NormalizeCode(spelled))
      BY DEF CreateUnit
    <2>2. NormalizeCode(spelled) \in UnitCode /\ NormalizeCode(spelled).upper BY DEF NormalizeCode, UnitCode
    <2> QED BY <2>1, <2>2 DEF InsertUnit
  <1>3. CASE \E v \in Units : unit[v] = code
    <2>1. CatalogTo(u, "refused", Missing) /\ UNCHANGED unit BY <1>2, <1>3
    <2> QED BY <1>1, <2>1, CatalogEnds
  <1>4. CASE ~ \E v \in Units : unit[v] = code
    <2>1. CatalogTo(u, "ok", Missing) /\ unit' = [unit EXCEPT ![u] = code] BY <1>2, <1>4
    <2>2. CatalogMoved(u) BY <2>1, CatalogToMoves, CatalogLabelsAre
    <2>3. /\ unit' \in [Units -> UnitCode \cup {Missing}] /\ unit'[u] = code
          /\ \A v \in Units : v # u => unit'[v] = unit[v]
      BY <1>2, <2>1 DEF CatalogInv, CatalogShape, CatalogTypeOK
    <2>4. \A v \in Units : GetUnitByID(v) /\ unit[v].letters = code.letters => unit[v] = code
      <3> SUFFICES ASSUME NEW v \in Units, GetUnitByID(v), unit[v].letters = code.letters PROVE unit[v] = code
        OBVIOUS
      <3>1. unit[v] \in UnitCode /\ unit[v].upper
        BY DEF CatalogInv, CatalogShape, CatalogTypeOK, GetUnitByID
      <3> QED BY <1>2, <3>1 DEF UnitCode
    <2>5. UnitCodesDiffer' /\ (\A v \in Units : GetUnitByID(v) => unit[v].upper)'
      BY <1>2, <1>4, <2>3, <2>4 DEF CatalogInv, UnitCodesDiffer, GetUnitByID
    <2>6. (SkusUnique /\ ProductAsAsked)' BY <1>1 DEF CatalogInv, SkusUnique, ProductAsAsked
    <2>7. \A e \in ProductCalls : e # u => OverwriteOk(e)' BY <1>1, <2>2, OverwriteUnmoved
    <2> QED BY <1>1, <2>1, <2>3, <2>5, <2>6, <2>7, CatalogWrites DEF CatalogInv, CatalogShape, CatalogTypeOK
  <1> QED BY <1>3, <1>4

LEMMA CheckConversionKeeps ==
  ASSUME CatalogInv, NEW c \in Conversions, CheckConversion(c) PROVE CatalogInv'
  <1> c \in CatalogCallers /\ c \notin Products /\ c \notin Variants /\ c \notin ProductCalls
    BY CatalogCallersDisjoint DEF CatalogCallers
  <1>1. UNCHANGED <<unit, conv, product, variant, ordered, clashed>> BY DEF CheckConversion, catalogTables
  <1>2. PICK from \in Units, to \in Units, factor \in Exponents \cup {Tiny, Zero} :
          IF from # to /\ factor # Zero /\ GetUnitByID(from) /\ GetUnitByID(to)
            THEN CatalogTo(c, "insert", [from |-> from, to |-> to, factor |-> factor])
            ELSE CatalogTo(c, "refused", Missing)
    BY DEF CheckConversion
  <1>3. CASE CatalogTo(c, "refused", Missing) BY <1>1, <1>3, CatalogEnds
  <1>4. CASE factor # Zero /\ CatalogTo(c, "insert", [from |-> from, to |-> to, factor |-> factor])
    <2>1. PICK r : r = [from |-> from, to |-> to, factor |-> factor] OBVIOUS
    <2>2. r \in [from : Units, to : Units, factor : Exponents \cup {Tiny}] BY <1>4, <2>1
    <2>3. CatalogMoved(c) /\ kpc'[c] = "insert" /\ karg'[c] = r BY <1>4, <2>1, CatalogToMoves, CatalogLabelsAre
    <2>4. ConversionOk(c)' BY <2>2, <2>3 DEF ConversionOk
    <2>5. OverwritesApart' BY <1>1, <2>3, OverwritesStayApart
    <2>6. clashed' \subseteq Products BY <1>1 DEF CatalogInv, CatalogShape
    <2> QED BY <1>1, <2>3, <2>4, <2>5, <2>6, CatalogQuiet
  <1> QED BY <1>2, <1>3, <1>4

LEMMA CreateConversionKeeps ==
  ASSUME CatalogInv, NEW c \in Conversions, CreateConversion(c) PROVE CatalogInv'
  <1> c \in CatalogCallers BY DEF CatalogCallers
  <1>1. UNCHANGED <<unit, product, variant, ordered, clashed>> /\ kpc[c] = "insert" BY DEF CreateConversion
  <1>2. CASE \E i \in DOMAIN conv : conv[i].from = karg[c].from /\ conv[i].to = karg[c].to
    <2>1. CatalogTo(c, "refused", Missing) /\ UNCHANGED conv BY <1>2 DEF CreateConversion
    <2> QED BY <1>1, <2>1, CatalogEnds
  <1>3. CASE ~ \E i \in DOMAIN conv : conv[i].from = karg[c].from /\ conv[i].to = karg[c].to
    <2>1. PICK row : row = [karg[c] EXCEPT !.factor = floatToNumeric(karg[c].factor)] OBVIOUS
    <2>2. CatalogTo(c, "ok", Missing) /\ conv' = Append(conv, row)
      BY <1>3, <2>1 DEF CreateConversion, InsertConversion
    <2>3. karg[c] \in [from : Units, to : Units, factor : Exponents \cup {Tiny}]
      BY <1>1 DEF CatalogInv, ConversionOk
    <2>4. row \in ConversionRow /\ row.from = karg[c].from /\ row.to = karg[c].to
      BY <2>1, <2>3 DEF ConversionRow, floatToNumeric
    <2>5. conv \in Seq(ConversionRow) BY DEF CatalogInv, CatalogShape, CatalogTypeOK
    <2>6. PICK n \in Nat : n = Len(conv) BY <2>5, LenProperties
    <2>7. /\ conv' \in Seq(ConversionRow) /\ DOMAIN conv = 1..n /\ DOMAIN conv' = 1..(n + 1)
          /\ conv'[n + 1] = row /\ \A i \in 1..n : conv'[i] = conv[i]
      BY <2>2, <2>4, <2>5, <2>6, AppendProperties
    <2>8. ASSUME NEW i \in 1..(n + 1), NEW j \in 1..(n + 1),
                 conv'[i].from = conv'[j].from, conv'[i].to = conv'[j].to
          PROVE  i = j
      <3>1. \A k \in 1..(n + 1) : k = n + 1 \/ k \in 1..n BY <2>6
      <3>2. \A k \in 1..n : conv'[k].from # row.from \/ conv'[k].to # row.to BY <1>3, <2>4, <2>7
      <3>3. CASE i \in 1..n /\ j \in 1..n
        BY <2>7, <2>8, <3>3 DEF CatalogInv, CatalogShape, CatalogTypeOK
      <3> QED BY <2>7, <2>8, <3>1, <3>2, <3>3
    <2>9. (UnitCodesDiffer /\ SkusUnique /\ ProductAsAsked /\ \A u \in Units : GetUnitByID(u) => unit[u].upper)'
      BY <1>1 DEF CatalogInv, UnitCodesDiffer, SkusUnique, ProductAsAsked, GetUnitByID
    <2>10. CatalogMoved(c) BY <2>2, CatalogToMoves, CatalogLabelsAre
    <2>11. \A e \in ProductCalls : e # c => OverwriteOk(e)' BY <1>1, <2>10, OverwriteUnmoved
    <2> QED BY <1>1, <2>2, <2>7, <2>8, <2>9, <2>11, CatalogWrites DEF CatalogInv, CatalogShape, CatalogTypeOK
  <1> QED BY <1>2, <1>3
\* A call of a kind other than an update moves on without touching a table.
LEMMA CatalogGoesOn ==
  ASSUME CatalogInv, NEW c \in Products \cup Variants, NEW label \in {"unit", "insert"}, NEW r,
         CatalogTo(c, label, r), UNCHANGED <<unit, conv, product, variant, ordered, clashed>>,
         c \in Products => r \in ProductRow /\ r.status = "active" /\ product[c] = Missing,
         c \in Variants => r \in VariantRow
  PROVE  CatalogInv'
  <1> c \in CatalogCallers /\ c \notin Conversions /\ c \notin ProductCalls
    BY CatalogCallersDisjoint DEF CatalogCallers
  <1>1. label \in CatalogLabels BY CatalogLabelsAre
  <1>2. CatalogMoved(c) /\ kpc'[c] = label /\ karg'[c] = r BY <1>1, CatalogToMoves
  <1>3. c \in Products => ProductOk(c)' BY <1>2 DEF ProductOk
  <1>4. c \in Variants => VariantOk(c)' BY <1>2 DEF VariantOk
  <1>5. OverwritesApart' BY <1>2, OverwritesStayApart
  <1>6. clashed \subseteq clashed' /\ clashed' \subseteq Products BY DEF CatalogInv, CatalogShape
  <1> QED BY <1>2, <1>3, <1>4, <1>5, <1>6, CatalogQuiet

LEMMA CheckSkuKeeps ==
  ASSUME CatalogInv, NEW p \in Products, CheckSku(p) PROVE CatalogInv'
  <1> p \in CatalogCallers /\ p \notin Variants BY CatalogCallersDisjoint DEF CatalogCallers
  <1>1. UNCHANGED <<unit, conv, product, variant, ordered, clashed>> /\ kpc[p] = "idle"
    BY DEF CheckSku, catalogTables
  <1>2. PICK sku \in Skus \cup {Missing}, u \in Units, b \in Barcodes \cup {Missing} :
          CatalogTo(p, IF sku # Missing /\ GetProductBySKU(sku) # {} THEN "refused" ELSE "unit",
                    [sku |-> sku, unit |-> u, status |-> "active", barcode |-> b])
    BY DEF CheckSku
  <1>3. PICK r : r = [sku |-> sku, unit |-> u, status |-> "active", barcode |-> b] OBVIOUS
  <1>4. r \in ProductRow /\ r.status = "active" BY <1>3 DEF ProductRow, ProductStatuses
  <1>5. product[p] = Missing BY <1>1 DEF CatalogInv, ProductOk
  <1>6. CatalogTo(p, "refused", r) \/ CatalogTo(p, "unit", r) BY <1>2, <1>3
  <1>7. CASE CatalogTo(p, "refused", r) BY <1>1, <1>7, CatalogEnds
  <1>8. CASE CatalogTo(p, "unit", r) BY <1>1, <1>4, <1>5, <1>8, CatalogGoesOn
  <1> QED BY <1>6, <1>7, <1>8

LEMMA CheckUnitKeeps ==
  ASSUME CatalogInv, NEW p \in Products, CheckUnit(p) PROVE CatalogInv'
  <1> p \in CatalogCallers /\ p \notin Variants BY CatalogCallersDisjoint DEF CatalogCallers
  <1>1. UNCHANGED <<unit, conv, product, variant, ordered, clashed>> /\ kpc[p] = "unit"
    BY DEF CheckUnit, catalogTables
  <1>2. product[p] = Missing /\ karg[p] \in ProductRow /\ karg[p].status = "active"
    BY <1>1 DEF CatalogInv, ProductOk
  <1>3. CatalogTo(p, "refused", karg[p]) \/ CatalogTo(p, "insert", karg[p]) BY DEF CheckUnit
  <1>4. CASE CatalogTo(p, "refused", karg[p]) BY <1>1, <1>4, CatalogEnds
  <1>5. CASE CatalogTo(p, "insert", karg[p]) BY <1>1, <1>2, <1>5, CatalogGoesOn
  <1> QED BY <1>3, <1>4, <1>5

LEMMA CheckProductKeeps ==
  ASSUME CatalogInv, NEW v \in Variants, CheckProduct(v) PROVE CatalogInv'
  <1> v \in CatalogCallers /\ v \notin Products BY CatalogCallersDisjoint DEF CatalogCallers
  <1>1. UNCHANGED <<unit, conv, product, variant, ordered, clashed>> BY DEF CheckProduct, catalogTables
  <1>2. PICK p \in Products, sku \in Skus :
          CatalogTo(v, "insert", [product |-> p, sku |-> sku]) \/ CatalogTo(v, "refused", Missing)
    BY DEF CheckProduct
  <1>3. PICK r : r = [product |-> p, sku |-> sku] OBVIOUS
  <1>4. r \in VariantRow BY <1>3 DEF VariantRow
  <1>5. CASE CatalogTo(v, "refused", Missing) BY <1>1, <1>5, CatalogEnds
  <1>6. CASE CatalogTo(v, "insert", r) BY <1>1, <1>4, <1>6, CatalogGoesOn
  <1> QED BY <1>2, <1>3, <1>5, <1>6

LEMMA CreateProductKeeps ==
  ASSUME CatalogInv, NEW p \in Products, CreateProduct(p) PROVE CatalogInv'
  <1> p \in CatalogCallers /\ p \notin ProductCalls BY CatalogCallersDisjoint DEF CatalogCallers
  <1>1. UNCHANGED <<unit, conv, variant, clashed>> /\ kpc[p] = "insert" BY DEF CreateProduct
  <1>2. product[p] = Missing /\ karg[p] \in ProductRow /\ karg[p].status = "active"
    BY <1>1 DEF CatalogInv, ProductOk
  <1>3. CASE karg[p].sku # Missing /\ GetProductBySKU(karg[p].sku) # {}
    <2>1. CatalogTo(p, "refused", Missing) /\ UNCHANGED <<product, ordered>> BY <1>3 DEF CreateProduct
    <2> QED BY <1>1, <2>1, CatalogEnds
  <1>4. CASE ~ (karg[p].sku # Missing /\ GetProductBySKU(karg[p].sku) # {})
    <2>1. /\ product' = [product EXCEPT ![p] = karg[p]] /\ CatalogTo(p, "ok", Missing)
          /\ ordered' = [ordered EXCEPT ![p] = [status |-> "active", barcode |-> karg[p].barcode]]
      BY <1>4 DEF CreateProduct, InsertProduct
    <2>2. CatalogMoved(p) BY <2>1, CatalogToMoves, CatalogLabelsAre
    <2>3. /\ product' \in [Products -> ProductRow \cup {Missing}] /\ product'[p] = karg[p]
          /\ DOMAIN ordered' = Products
          /\ ordered'[p] = [status |-> "active", barcode |-> karg[p].barcode]
          /\ \A q \in Products : q # p => product'[q] = product[q] /\ ordered'[q] = ordered[q]
      BY <1>2, <2>1 DEF CatalogInv, CatalogShape, CatalogTypeOK
    <2>4. \A q \in Products : product[q] # Missing /\ product[q].sku = karg[p].sku => karg[p].sku = Missing
      BY <1>4 DEF GetProductBySKU
    <2>5. SkusUnique'
      BY <1>1, <2>3, <2>4 DEF CatalogInv, SkusUnique
    <2>6. ProductAsAsked'
      <3> SUFFICES ASSUME NEW q \in Products, product'[q] # Missing, q \notin clashed
                   PROVE ordered'[q] = [status |-> product'[q].status, barcode |-> product'[q].barcode]
        BY <1>1 DEF ProductAsAsked
      <3>1. CASE q = p BY <1>2, <2>3, <3>1
      <3>2. CASE q # p BY <2>3, <3>2 DEF CatalogInv, ProductAsAsked
      <3> QED BY <3>1, <3>2
    <2>7. (UnitCodesDiffer /\ \A u \in Units : GetUnitByID(u) => unit[u].upper)'
      BY <1>1 DEF CatalogInv, UnitCodesDiffer, GetUnitByID
    <2>8. ASSUME NEW e \in ProductCalls PROVE OverwriteOk(e)'
      <3>1. kpc'[e] = kpc[e] /\ karg'[e] = karg[e] /\ OverwriteOk(e)
        BY <2>2 DEF CatalogMoved, CatalogCallers, CatalogInv
      <3>2. CASE kpc[e] = "write"
        <4>1. karg[e].product \in Products /\ karg[e].product # p
          BY <1>2, <3>1, <3>2 DEF OverwriteOk, ProductArgs
        <4>2. product'[karg[e].product] = product[karg[e].product] BY <2>3, <4>1
        <4> QED BY <1>1, <3>1, <3>2, <4>2 DEF OverwriteOk
      <3>3. CASE kpc[e] # "write" BY <3>1, <3>3 DEF OverwriteOk
      <3> QED BY <3>2, <3>3
    <2>9. \A q \in Products : q # p /\ product[q] = Missing => product'[q] = Missing BY <2>3
    <2> QED BY <1>1, <2>1, <2>3, <2>5, <2>6, <2>7, <2>8, <2>9, CatalogWrites
          DEF CatalogInv, CatalogShape, CatalogTypeOK
  <1> QED BY <1>3, <1>4
LEMMA GetProductByIDKeeps ==
  ASSUME CatalogInv, NEW c \in ProductCalls, GetProductByID(c) PROVE CatalogInv'
  <1> c \in CatalogCallers /\ c \notin Products /\ c \notin Variants /\ c \notin Conversions
    BY CatalogCallersDisjoint DEF CatalogCallers
  <1>1. UNCHANGED <<unit, conv, product, variant, ordered>> /\ kpc[c] = "idle"
    BY DEF GetProductByID, catalogTables
  <1>2. PICK p \in Products, s \in ProductStatuses \cup {Missing}, b \in Barcodes \cup {Missing} :
       /\ product[p] # Missing
       /\ CatalogTo(c, "write",
                    [product |-> p, asked |-> [status |-> s, barcode |-> b],
                     status |-> Given(s, product[p].status),
                     barcode |-> Given(b, product[p].barcode)])
       /\ clashed' = IF Overwriting(p) # {} THEN clashed \cup {p} ELSE clashed
    BY DEF GetProductByID
  <1>3. PICK want : want = [status |-> s, barcode |-> b] OBVIOUS
  <1>4. PICK r : r = [product |-> p, asked |-> want, status |-> Given(s, product[p].status),
                      barcode |-> Given(b, product[p].barcode)]
    OBVIOUS
  <1>5. product[p] \in ProductRow BY <1>2 DEF CatalogInv, CatalogShape, CatalogTypeOK
  <1>6. Given(s, product[p].status) \in ProductStatuses /\ Given(b, product[p].barcode) \in Barcodes \cup {Missing}
    BY <1>2, <1>5 DEF Given, ProductRow
  <1>7. /\ want \in [status : ProductStatuses \cup {Missing}, barcode : Barcodes \cup {Missing}]
        /\ want.status = s /\ want.barcode = b
    BY <1>2, <1>3
  <1>8. /\ r \in ProductArgs /\ r.product = p /\ r.asked = want
        /\ r.status = Given(s, product[p].status) /\ r.barcode = Given(b, product[p].barcode)
    BY <1>4, <1>6, <1>7 DEF ProductArgs
  <1>9. CatalogMoved(c) /\ kpc'[c] = "write" /\ karg'[c] = r
    BY <1>2, <1>3, <1>4, CatalogToMoves, CatalogLabelsAre
  <1>10. OverwriteOk(c)' BY <1>1, <1>2, <1>7, <1>8, <1>9 DEF OverwriteOk
  <1>11. clashed \subseteq clashed' /\ clashed' \subseteq Products BY <1>2 DEF CatalogInv, CatalogShape
  <1>12. ASSUME NEW e \in ProductCalls, e # c, kpc'[e] = "write", karg'[e].product = p PROVE p \in clashed'
    <2>1. e \in Overwriting(p) BY <1>9, <1>12 DEF CatalogMoved, CatalogCallers, Overwriting
    <2> QED BY <1>2, <2>1
  <1>13. OverwritesApart'
    BY <1>8, <1>9, <1>11, <1>12 DEF OverwritesApart, CatalogInv, CatalogMoved, CatalogCallers
  <1> QED BY <1>1, <1>9, <1>10, <1>11, <1>13, CatalogQuiet

LEMMA UpdateProductKeeps ==
  ASSUME CatalogInv, NEW c \in ProductCalls, UpdateProduct(c) PROVE CatalogInv'
  <1> c \in CatalogCallers /\ c \notin Products BY CatalogCallersDisjoint DEF CatalogCallers
  <1>1. UNCHANGED <<unit, conv, variant, clashed>> /\ kpc[c] = "write" /\ CatalogTo(c, "ok", Missing)
    BY DEF UpdateProduct
  <1>2. OverwriteOk(c) BY DEF CatalogInv
  <1>3. PICK p, want : p = karg[c].product /\ want = karg[c].asked OBVIOUS
  <1>4. /\ p \in Products /\ product[p] # Missing /\ product[p] \in ProductRow
        /\ karg[c].status \in ProductStatuses /\ karg[c].barcode \in Barcodes \cup {Missing}
    BY <1>1, <1>2, <1>3 DEF OverwriteOk, ProductArgs, CatalogInv, CatalogShape, CatalogTypeOK
  <1>5. PICK row : row = [product[p] EXCEPT !.status = karg[c].status,
                                            !.barcode = Given(karg[c].barcode, product[p].barcode)]
    OBVIOUS
  <1>6. /\ row \in ProductRow /\ row.sku = product[p].sku /\ row.status = karg[c].status
        /\ row.barcode = Given(karg[c].barcode, product[p].barcode)
    BY <1>4, <1>5 DEF ProductRow, Given
  <1>7. product' = [product EXCEPT ![p] = row]
    BY <1>3, <1>4, <1>5 DEF UpdateProduct, SetProduct, CatalogInv, CatalogShape, CatalogTypeOK
  <1>8. ordered' = [ordered EXCEPT ![p] = [status |-> Given(want.status, ordered[p].status),
                                           barcode |-> Given(want.barcode, ordered[p].barcode)]]
    BY <1>3 DEF UpdateProduct
  <1>9. /\ product' \in [Products -> ProductRow \cup {Missing}] /\ product'[p] = row
        /\ DOMAIN ordered' = Products
        /\ ordered'[p] = [status |-> Given(want.status, ordered[p].status),
                          barcode |-> Given(want.barcode, ordered[p].barcode)]
        /\ \A q \in Products : q # p => product'[q] = product[q] /\ ordered'[q] = ordered[q]
    BY <1>4, <1>6, <1>7, <1>8 DEF CatalogInv, CatalogShape, CatalogTypeOK
  <1>10. row # Missing BY <1>6, MissingIsNothing
  <1>11. \A q \in Products : /\ product'[q] = Missing <=> product[q] = Missing
                             /\ product[q] # Missing => product'[q].sku = product[q].sku
    BY <1>4, <1>6, <1>9, <1>10
  <1>12. SkusUnique' BY <1>1, <1>11 DEF CatalogInv, SkusUnique
  <1>13. ProductAsAsked'
    <2> SUFFICES ASSUME NEW q \in Products, product'[q] # Missing, q \notin clashed
                 PROVE ordered'[q] = [status |-> product'[q].status, barcode |-> product'[q].barcode]
      BY <1>1 DEF ProductAsAsked
    <2>1. CASE q = p
      <3>1. ordered[p] = [status |-> product[p].status, barcode |-> product[p].barcode]
        BY <1>4, <2>1 DEF CatalogInv, ProductAsAsked
      <3>2. karg[c].status = Given(want.status, product[p].status)
            /\ karg[c].barcode = Given(want.barcode, product[p].barcode)
        BY <1>1, <1>2, <1>3, <2>1 DEF OverwriteOk
      <3>3. row.barcode = Given(want.barcode, product[p].barcode) BY <1>6, <3>2 DEF Given
      <3>4. ordered[p].status = product[p].status /\ ordered[p].barcode = product[p].barcode BY <3>1
      <3> QED BY <1>6, <1>9, <2>1, <3>2, <3>3, <3>4
    <2>2. CASE q # p BY <1>9, <2>2 DEF CatalogInv, ProductAsAsked
    <2> QED BY <2>1, <2>2
  <1>14. (UnitCodesDiffer /\ \A u \in Units : GetUnitByID(u) => unit[u].upper)'
    BY <1>1 DEF CatalogInv, UnitCodesDiffer, GetUnitByID
  <1>15. ASSUME NEW e \in ProductCalls, e # c PROVE OverwriteOk(e)'
    <2>1. kpc'[e] = kpc[e] /\ karg'[e] = karg[e] /\ OverwriteOk(e)
      BY <1>1, <1>15, CatalogToMoves, CatalogLabelsAre DEF CatalogMoved, CatalogCallers, CatalogInv
    <2>2. CASE kpc[e] # "write" BY <2>1, <2>2 DEF OverwriteOk
    <2>3. CASE kpc[e] = "write" /\ karg[e].product = p
      <3>1. p \in clashed BY <1>1, <1>3, <1>15, <2>3 DEF CatalogInv, OverwritesApart
      <3> QED BY <1>1, <1>9, <1>10, <2>1, <2>3, <3>1 DEF OverwriteOk
    <2>4. CASE kpc[e] = "write" /\ karg[e].product # p
      <3>1. karg[e].product \in Products BY <2>1, <2>4 DEF OverwriteOk, ProductArgs
      <3>2. product'[karg[e].product] = product[karg[e].product] BY <1>9, <2>4, <3>1
      <3> QED BY <1>1, <2>1, <2>4, <3>2 DEF OverwriteOk
    <2> QED BY <2>2, <2>3, <2>4
  <1> QED BY <1>1, <1>9, <1>11, <1>12, <1>13, <1>14, <1>15, CatalogWrites DEF CatalogInv, CatalogShape, CatalogTypeOK
\* What a write of the variants leaves true.
LEMMA VariantWrites ==
  ASSUME CatalogInv, NEW c \in CatalogCallers, CatalogTo(c, "ok", Missing),
         UNCHANGED <<unit, conv, product, ordered, clashed>>,
         variant' \in [Variants -> VariantRow \cup {Missing}],
         (\A v, w \in Variants : variant[v] # Missing /\ variant[w] # Missing /\ variant[v].sku = variant[w].sku => v = w)'
  PROVE  CatalogInv'
  <1>1. SkusUnique' BY DEF CatalogInv, SkusUnique
  <1>2. (UnitCodesDiffer /\ ProductAsAsked /\ \A u \in Units : GetUnitByID(u) => unit[u].upper)'
    BY DEF CatalogInv, UnitCodesDiffer, ProductAsAsked, GetUnitByID
  <1>3. CatalogMoved(c) BY CatalogToMoves, CatalogLabelsAre
  <1>4. \A e \in ProductCalls : e # c => OverwriteOk(e)' BY <1>3, OverwriteUnmoved
  <1> QED BY <1>1, <1>2, <1>4, CatalogWrites DEF CatalogInv, CatalogShape, CatalogTypeOK

LEMMA CreateVariantKeeps ==
  ASSUME CatalogInv, NEW v \in Variants, CreateVariant(v) PROVE CatalogInv'
  <1> v \in CatalogCallers BY DEF CatalogCallers
  <1>1. UNCHANGED <<unit, conv, product, ordered, clashed>> /\ kpc[v] = "insert" BY DEF CreateVariant
  <1>2. karg[v] \in VariantRow BY <1>1 DEF CatalogInv, VariantOk
  <1>3. CASE \E w \in Variants : variant[w] # Missing /\ variant[w].sku = karg[v].sku
    <2>1. CatalogTo(v, "refused", Missing) /\ UNCHANGED variant BY <1>3 DEF CreateVariant
    <2> QED BY <1>1, <2>1, CatalogEnds
  <1>4. CASE ~ \E w \in Variants : variant[w] # Missing /\ variant[w].sku = karg[v].sku
    <2>1. variant' = [variant EXCEPT ![v] = karg[v]] /\ CatalogTo(v, "ok", Missing)
      BY <1>4 DEF CreateVariant, InsertVariant
    <2>2. /\ variant' \in [Variants -> VariantRow \cup {Missing}] /\ variant'[v] = karg[v]
          /\ \A w \in Variants : w # v => variant'[w] = variant[w]
      BY <1>2, <2>1 DEF CatalogInv, CatalogShape, CatalogTypeOK
    <2>3. (\A u, w \in Variants : variant[u] # Missing /\ variant[w] # Missing /\ variant[u].sku = variant[w].sku => u = w)'
      BY <1>4, <2>2 DEF CatalogInv, SkusUnique
    <2> QED BY <1>1, <2>1, <2>2, <2>3, VariantWrites
  <1> QED BY <1>3, <1>4

LEMMA DeleteVariantKeeps ==
  ASSUME CatalogInv, NEW c \in ProductCalls, DeleteVariant(c) PROVE CatalogInv'
  <1> c \in CatalogCallers BY DEF CatalogCallers
  <1>1. UNCHANGED <<unit, conv, product, ordered, clashed>> /\ CatalogTo(c, "ok", Missing) BY DEF DeleteVariant
  <1>2. PICK v \in Variants : variant' = [variant EXCEPT ![v] = Missing] BY DEF DeleteVariant
  <1>3. /\ variant' \in [Variants -> VariantRow \cup {Missing}] /\ variant'[v] = Missing
        /\ \A w \in Variants : w # v => variant'[w] = variant[w]
    BY <1>2 DEF CatalogInv, CatalogShape, CatalogTypeOK
  <1>4. (\A u, w \in Variants : variant[u] # Missing /\ variant[w] # Missing /\ variant[u].sku = variant[w].sku => u = w)'
    BY <1>3 DEF CatalogInv, SkusUnique
  <1> QED BY <1>1, <1>3, <1>4, VariantWrites

LEMMA CatalogStep == CatalogInv /\ [CatalogNext]_catalogVars => CatalogInv'
  <1> SUFFICES ASSUME CatalogInv, [CatalogNext]_catalogVars PROVE CatalogInv' OBVIOUS
  <1>1. CASE UNCHANGED catalogVars
    BY <1>1 DEF catalogVars, catalogTables, CatalogInv, CatalogShape, CatalogTypeOK, UnitCodesDiffer, SkusUnique,
         ProductAsAsked, GetUnitByID, ConversionOk, ProductOk, VariantOk, OverwriteOk, OverwritesApart
  <1>2. CASE CatalogNext
    BY <1>2, CreateUnitKeeps, CheckConversionKeeps, CreateConversionKeeps, CheckSkuKeeps, CheckUnitKeeps,
       CreateProductKeeps, GetProductByIDKeeps, UpdateProductKeeps, DeleteVariantKeeps, CheckProductKeeps,
       CreateVariantKeeps DEF CatalogNext
  <1> QED BY <1>1, <1>2

-----------------------------------------------------------------------------
(* The steps of the parties.                                               *)

LEMMA PartyInitOk == PartyInit => PartyInv
  <1> SUFFICES ASSUME PartyInit PROVE PartyInv OBVIOUS
  <1>1. \A c \in PartyCallers : ppc[c] = "idle" BY DEF PartyInit
  <1>2. \A p \in Creations : party[p] = Unset BY DEF PartyInit
  <1>3. PartyShape
    BY <1>2 DEF PartyInit, PartyShape, PartyTypeOK, PartyLabels, PartyCallers, PartyExists
  <1>4. InitialRolesGiven /\ AddressesHaveOwners /\ PartyAsAsked
    BY <1>1, <1>2 DEF PartyInit, InitialRolesGiven, AddressesHaveOwners, PartyAsAsked, PartyCallers, PartyExists
  <1> QED BY <1>1, <1>2, <1>3, <1>4
        DEF PartyInv, PartyCallers, CreationOk, PartyCallOk, AdditionOk, PartyUpdatesApart

LEMMA PartyLabelsAre ==
  {"idle", "insert", "roles", "write", "add", "address", "link", "contact", "ok", "refused"} \subseteq PartyLabels
  BY DEF PartyLabels

\* A call moves on alone.
PartyMoved(c) ==
  /\ ppc' \in [PartyCallers -> PartyLabels] /\ DOMAIN parg' = PartyCallers
  /\ \A e \in PartyCallers : e # c => ppc'[e] = ppc[e] /\ parg'[e] = parg[e]

LEMMA PartyToMoves ==
  ASSUME PartyInv, NEW c \in PartyCallers, NEW label \in PartyLabels, NEW r, PartyTo(c, label, r)
  PROVE  PartyMoved(c) /\ ppc'[c] = label /\ parg'[c] = r
  BY DEF PartyTo, PartyMoved, PartyInv, PartyShape, PartyTypeOK

\* A step is right if it is right about the call it moves, keeps the parts that
\* relate tables, and takes from the others nothing they rely on.
LEMMA PartyWrites ==
  ASSUME PartyInv, NEW c \in PartyCallers, PartyMoved(c),
         party' \in [Creations -> PartyRow \cup {Unset}], role' \subseteq PartyRole,
         address' \subseteq Additions, addressOf' \subseteq Creations \X Additions,
         contact' \subseteq Creations \X Additions,
         (\A p, q \in Creations : PartyExists(p) /\ PartyExists(q) /\ p # q
            => party[p].code = Unset \/ party[p].code # party[q].code)',
         DOMAIN asked' = Creations, collided \subseteq collided', collided' \subseteq Creations,
         AddressesHaveOwners', PartyAsAsked', PartyUpdatesApart',
         \A p \in Creations : p # c /\ party[p] = Unset => party'[p] = Unset,
         \A p, t : RoleDone(p, t) => RoleDone(p, t)',
         c \in Creations => CreationOk(c)' /\ (ppc'[c] = "ok" => \A t \in parg'[c].role : RoleDone(c, t)'),
         \A e \in PartyCalls : PartyCallOk(e)',
         c \in Additions => AdditionOk(c)'
  PROVE  PartyInv'
  <1>1. PartyTypeOK' BY DEF PartyTypeOK, PartyMoved
  <1>2. PartyShape' BY <1>1 DEF PartyShape, PartyMoved
  <1>3. ASSUME NEW p \in Creations PROVE CreationOk(p)'
    <2>1. CASE p = c BY <2>1
    <2>2. CASE p # c
      <3>1. ppc'[p] = ppc[p] /\ parg'[p] = parg[p] /\ CreationOk(p)
        BY <2>2 DEF PartyMoved, PartyCallers, PartyInv
      <3> QED BY <2>2, <3>1 DEF CreationOk
    <2> QED BY <2>1, <2>2
  <1>4. InitialRolesGiven'
    <2> SUFFICES ASSUME NEW p \in Creations, ppc'[p] = "ok", NEW t \in parg'[p].role PROVE RoleDone(p, t)'
      BY DEF InitialRolesGiven, RoleDone
    <2>1. CASE p = c BY <2>1
    <2>2. CASE p # c
      <3>1. ppc[p] = "ok" /\ t \in parg[p].role BY <2>2 DEF PartyMoved, PartyCallers
      <3>2. RoleDone(p, t) BY <3>1 DEF PartyInv, InitialRolesGiven, RoleDone
      <3> QED BY <3>2
    <2> QED BY <2>1, <2>2
  <1>5. \A a \in Additions : AdditionOk(a)' BY DEF PartyInv, AdditionOk, PartyMoved, PartyCallers
  <1> QED BY <1>2, <1>3, <1>4, <1>5 DEF PartyInv
\* A call that does not write keeps the updates of a party apart.
LEMMA PartyUpdatesStayApart ==
  ASSUME PartyInv, NEW c \in PartyCallers, PartyMoved(c), collided \subseteq collided',
         c \in PartyCalls => ppc'[c] # "write"
  PROVE  PartyUpdatesApart'
  BY DEF PartyInv, PartyUpdatesApart, PartyMoved, PartyCallers

\* The calls that did not move rely on the rows of parties only.
LEMMA PartyCallsKept ==
  ASSUME PartyInv, NEW c \in PartyCallers, PartyMoved(c), collided \subseteq collided', party' = party,
         NEW e \in PartyCalls, e # c
  PROVE  PartyCallOk(e)'
  <1>1. ppc'[e] = ppc[e] /\ parg'[e] = parg[e] /\ PartyCallOk(e) BY DEF PartyMoved, PartyCallers, PartyInv
  <1> QED BY <1>1 DEF PartyCallOk, PartyExists

\* A step that leaves the parties and what was asked for alone.
LEMMA PartySteps ==
  ASSUME PartyInv, NEW c \in PartyCallers, PartyMoved(c), party' = party, asked' = asked,
         role' \subseteq PartyRole, address' \subseteq Additions, addressOf' \subseteq Creations \X Additions,
         contact' \subseteq Creations \X Additions,
         collided \subseteq collided', collided' \subseteq Creations,
         AddressesHaveOwners', PartyUpdatesApart',
         \A p, t : RoleDone(p, t) => RoleDone(p, t)',
         c \in Creations => CreationOk(c)' /\ (ppc'[c] = "ok" => \A t \in parg'[c].role : RoleDone(c, t)'),
         c \in PartyCalls => PartyCallOk(c)',
         c \in Additions => AdditionOk(c)'
  PROVE  PartyInv'
  <1>1. party' \in [Creations -> PartyRow \cup {Unset}] /\ DOMAIN asked' = Creations
    BY DEF PartyInv, PartyShape, PartyTypeOK
  <1>2. (\A p, q \in Creations : PartyExists(p) /\ PartyExists(q) /\ p # q
            => party[p].code = Unset \/ party[p].code # party[q].code)'
    BY DEF PartyInv, PartyShape, PartyTypeOK, PartyExists
  <1>3. PartyAsAsked' BY DEF PartyInv, PartyAsAsked, PartyExists
  <1>4. \A e \in PartyCalls : PartyCallOk(e)' BY PartyCallsKept
  <1> QED BY <1>1, <1>2, <1>3, <1>4, PartyWrites

\* A call that moves on and changes no table.
LEMMA PartyQuiet ==
  ASSUME PartyInv, NEW c \in PartyCallers, PartyMoved(c),
         UNCHANGED <<party, role, address, addressOf, contact, swallowed, removed, severed, asked>>,
         collided \subseteq collided', collided' \subseteq Creations, PartyUpdatesApart',
         c \in Creations => CreationOk(c)' /\ (ppc'[c] = "ok" => \A t \in parg'[c].role : RoleDone(c, t)'),
         c \in PartyCalls => PartyCallOk(c)',
         c \in Additions => AdditionOk(c)' /\ ppc[c] # "link"
  PROVE  PartyInv'
  <1>1. \A p, t : RoleDone(p, t) => RoleDone(p, t)' BY DEF RoleDone
  <1>2. AddressesHaveOwners'
    <2> SUFFICES ASSUME NEW a \in address, ~ \E p \in Creations : <<p, a>> \in addressOf, a \notin severed
                 PROVE ppc'[a] = "link"
      BY DEF AddressesHaveOwners
    <2>1. a \in Additions /\ ppc[a] = "link"
      BY DEF PartyInv, PartyShape, PartyTypeOK, AddressesHaveOwners
    <2> QED BY <2>1 DEF PartyMoved, PartyCallers
  <1>3. /\ role' \subseteq PartyRole /\ address' \subseteq Additions /\ addressOf' \subseteq Creations \X Additions
        /\ contact' \subseteq Creations \X Additions
    BY DEF PartyInv, PartyShape, PartyTypeOK
  <1> QED BY <1>1, <1>2, <1>3, PartySteps

LEMMA RequestPartyKeeps ==
  ASSUME PartyInv, NEW p \in Creations, RequestParty(p) PROVE PartyInv'
  <1> p \in PartyCallers /\ p \notin PartyCalls /\ p \notin Additions
    BY PartyCallersDisjoint DEF PartyCallers
  <1>1. /\ UNCHANGED <<party, role, address, addressOf, contact, swallowed, removed, severed, asked, collided>>
        /\ ppc[p] = "idle"
    BY DEF RequestParty, partyTables, partyHistory
  <1>2. PICK code \in PartyCodes \cup {Unset}, todo \in BoundedSeq(RoleTypes, 2) :
          PartyTo(p, "insert", [NoPartyArgs EXCEPT !.code = code, !.todo = todo, !.role = Range(todo)])
    BY DEF RequestParty
  <1>3. PICK r : r = [NoPartyArgs EXCEPT !.code = code, !.todo = todo, !.role = Range(todo)] OBVIOUS
  <1>4. r = [party |-> Unset, code |-> code, status |-> Unset, asked |-> Unset, todo |-> todo, role |-> Range(todo)]
    BY <1>3 DEF NoPartyArgs
  <1>5. todo \in Seq(RoleTypes) /\ Range(todo) \in SUBSET RoleTypes
    <2>1. PICK m \in 0..2 : todo \in [1..m -> RoleTypes] BY <1>2 DEF BoundedSeq, SeqOf
    <2>2. m \in Nat BY <2>1
    <2>3. todo \in Seq(RoleTypes) BY <2>1, <2>2, SeqDef
    <2>4. Range(todo) \in SUBSET RoleTypes BY <2>1 DEF Range
    <2> QED BY <2>3, <2>4
  <1>6. PartyMoved(p) /\ ppc'[p] = "insert" /\ parg'[p] = r BY <1>2, <1>3, PartyToMoves, PartyLabelsAre
  <1>7. party[p] = Unset BY <1>1 DEF PartyInv, CreationOk
  <1>8. CreationOk(p)'
    <2>1. r \in CreationArgs BY <1>2, <1>4, <1>5 DEF CreationArgs
    <2>2. r.role = Range(todo) /\ r.todo = todo BY <1>4
    <2> QED BY <1>1, <1>6, <1>7, <2>1, <2>2 DEF CreationOk
  <1>9. PartyUpdatesApart' BY <1>1, <1>6, PartyUpdatesStayApart
  <1>10. collided' \subseteq Creations BY <1>1 DEF PartyInv, PartyShape
  <1> QED BY <1>1, <1>6, <1>8, <1>9, <1>10, PartyQuiet

LEMMA CreatePartyKeeps ==
  ASSUME PartyInv, NEW p \in Creations, CreateParty(p) PROVE PartyInv'
  <1> p \in PartyCallers /\ p \notin PartyCalls /\ p \notin Additions
    BY PartyCallersDisjoint DEF PartyCallers
  <1>1. /\ UNCHANGED <<role, address, addressOf, contact, swallowed, removed, severed, collided>>
        /\ ppc[p] = "insert"
    BY DEF CreateParty
  <1>2. CreationOk(p) BY DEF PartyInv
  <1>3. collided' \subseteq Creations BY <1>1 DEF PartyInv, PartyShape
  <1>4. CASE CodeTaken(parg[p].code)
    <2>1. PartyTo(p, "refused", NoPartyArgs) /\ UNCHANGED <<party, asked>> BY <1>4 DEF CreateParty
    <2>2. PartyMoved(p) /\ ppc'[p] = "refused" BY <2>1, PartyToMoves, PartyLabelsAre
    <2>3. CreationOk(p)' BY <2>2 DEF CreationOk
    <2>4. PartyUpdatesApart' BY <1>1, <2>2, PartyUpdatesStayApart
    <2> QED BY <1>1, <1>3, <2>1, <2>2, <2>3, <2>4, PartyQuiet
  <1>5. CASE ~CodeTaken(parg[p].code)
    <2>1. PICK row : row = [code |-> parg[p].code, status |-> "active"] OBVIOUS
    <2>2. /\ party' = [party EXCEPT ![p] = row] /\ asked' = [asked EXCEPT ![p] = "active"]
          /\ PartyTo(p, "roles", parg[p])
      BY <1>5, <2>1 DEF CreateParty, InsertParty
    <2>3. row \in PartyRow /\ row.code = parg[p].code /\ row.status = "active"
      BY <1>1, <1>2, <2>1 DEF CreationOk, CreationArgs, PartyRow, PartyStatuses
    <2>4. /\ party' \in [Creations -> PartyRow \cup {Unset}] /\ party'[p] = row
          /\ DOMAIN asked' = Creations /\ asked'[p] = "active"
          /\ \A q \in Creations : q # p => party'[q] = party[q] /\ asked'[q] = asked[q]
      BY <2>2, <2>3 DEF PartyInv, PartyShape, PartyTypeOK
    <2>5. PartyMoved(p) /\ ppc'[p] = "roles" /\ parg'[p] = parg[p] BY <2>2, PartyToMoves, PartyLabelsAre
    <2>6. (\A q, r \in Creations : PartyExists(q) /\ PartyExists(r) /\ q # r
              => party[q].code = Unset \/ party[q].code # party[r].code)'
      BY <1>5, <2>3, <2>4 DEF PartyInv, PartyShape, PartyTypeOK, PartyExists, CodeTaken
    <2>7. PartyAsAsked' BY <1>1, <2>3, <2>4 DEF PartyInv, PartyAsAsked, PartyExists
    <2>8. CreationOk(p)' BY <1>1, <1>2, <2>5 DEF CreationOk
    <2>9. PartyUpdatesApart' BY <1>1, <2>5, PartyUpdatesStayApart
    <2>10. \A q, t : RoleDone(q, t) => RoleDone(q, t)' BY <1>1 DEF RoleDone
    <2>11. AddressesHaveOwners'
      <3>1. \A a \in Additions : ppc'[a] = ppc[a] BY <2>5 DEF PartyMoved, PartyCallers
      <3> QED BY <1>1, <3>1 DEF AddressesHaveOwners, PartyInv, PartyShape, PartyTypeOK
    <2>12. ASSUME NEW e \in PartyCalls PROVE PartyCallOk(e)'
      <3>1. ppc'[e] = ppc[e] /\ parg'[e] = parg[e] /\ PartyCallOk(e) BY <2>5 DEF PartyMoved, PartyCallers, PartyInv
      <3>2. CASE ppc[e] = "write"
        <4>1. parg[e].party \in Creations /\ parg[e].party # p
          BY <1>1, <1>2, <3>1, <3>2 DEF PartyCallOk, PartyExists, CreationOk
        <4>2. party'[parg[e].party] = party[parg[e].party] BY <2>4, <4>1
        <4> QED BY <1>1, <3>1, <3>2, <4>2 DEF PartyCallOk, PartyExists
      <3>3. CASE ppc[e] # "write" BY <3>1, <3>3 DEF PartyCallOk
      <3> QED BY <3>2, <3>3
    <2>13. /\ role' \subseteq PartyRole /\ address' \subseteq Additions
           /\ addressOf' \subseteq Creations \X Additions /\ contact' \subseteq Creations \X Additions
      BY <1>1 DEF PartyInv, PartyShape, PartyTypeOK
    <2>14. \A q \in Creations : q # p /\ party[q] = Unset => party'[q] = Unset BY <2>4
    <2>15. collided \subseteq collided' BY <1>1
    <2> QED BY <1>3, <2>4, <2>5, <2>6, <2>7, <2>8, <2>9, <2>10, <2>11, <2>12, <2>13, <2>14, <2>15, PartyWrites
  <1> QED BY <1>4, <1>5
LEMMA AddInitialRoleKeeps ==
  ASSUME PartyInv, NEW p \in Creations, AddInitialRole(p) PROVE PartyInv'
  <1> p \in PartyCallers /\ p \notin PartyCalls /\ p \notin Additions
    BY PartyCallersDisjoint DEF PartyCallers
  <1>1. /\ UNCHANGED <<party, address, addressOf, contact, removed, severed, asked, collided>>
        /\ ppc[p] = "roles"
    BY DEF AddInitialRole
  <1>2. PICK todo : todo = parg[p].todo OBVIOUS
  <1>3. /\ todo \in Seq(RoleTypes) /\ parg[p] \in CreationArgs
        /\ \A t \in parg[p].role : RoleDone(p, t) \/ t \in Range(todo)
    BY <1>1, <1>2 DEF PartyInv, CreationOk, CreationArgs
  <1>4. collided \subseteq collided' /\ collided' \subseteq Creations BY <1>1 DEF PartyInv, PartyShape
  <1>5. CASE todo = <<>> /\ PartyTo(p, "ok", parg[p]) /\ UNCHANGED <<role, swallowed>>
    <2>1. PartyMoved(p) /\ ppc'[p] = "ok" /\ parg'[p] = parg[p] BY <1>5, PartyToMoves, PartyLabelsAre
    <2>2. CreationOk(p)' BY <2>1 DEF CreationOk
    <2>3. Range(todo) = {} BY <1>5 DEF Range
    <2>4. \A t \in parg'[p].role : RoleDone(p, t)' BY <1>1, <1>3, <1>5, <2>1, <2>3 DEF RoleDone
    <2>5. PartyUpdatesApart' BY <1>4, <2>1, PartyUpdatesStayApart
    <2> QED BY <1>1, <1>4, <1>5, <2>1, <2>2, <2>4, <2>5, PartyQuiet
  <1>6. CASE /\ todo # <<>> /\ PartyTo(p, "roles", [parg[p] EXCEPT !.todo = Tail(todo)])
             /\ \/ role' = role \cup {<<p, Head(todo), Unset>>} /\ UNCHANGED swallowed
                \/ swallowed' = swallowed \cup {<<p, Head(todo)>>} /\ UNCHANGED role
    <2>1. PICK h, rest : h = Head(todo) /\ rest = Tail(todo) OBVIOUS
    <2>2. h \in RoleTypes /\ rest \in Seq(RoleTypes) /\ \A t \in Range(todo) : t = h \/ t \in Range(rest)
      <3>1. h \in RoleTypes /\ rest \in Seq(RoleTypes) /\ Len(todo) \in Nat /\ Len(todo) # 0
        BY <1>3, <1>6, <2>1, HeadTailProperties, EmptySeq, LenProperties
      <3>2. DOMAIN todo = 1..Len(todo) /\ DOMAIN rest = 1..(Len(todo) - 1)
            /\ \A i \in 1..(Len(todo) - 1) : rest[i] = todo[i + 1]
        BY <1>3, <1>6, <2>1, <3>1
      <3>3. h = todo[1] BY <1>3, <2>1, <3>1
      <3>4. ASSUME NEW i \in 1..Len(todo) PROVE todo[i] = h \/ todo[i] \in Range(rest)
        <4>1. CASE i = 1 BY <3>3, <4>1
        <4>2. CASE i # 1
          <5>1. i - 1 \in 1..(Len(todo) - 1) /\ (i - 1) + 1 = i BY <3>1, <3>4, <4>2
          <5>2. rest[i - 1] = todo[i] BY <3>2, <5>1
          <5> QED BY <3>2, <5>1, <5>2 DEF Range
        <4> QED BY <4>1, <4>2
      <3> QED BY <3>1, <3>2, <3>4 DEF Range
    <2>3. PICK r : r = [parg[p] EXCEPT !.todo = rest] OBVIOUS
    <2>4. PartyMoved(p) /\ ppc'[p] = "roles" /\ parg'[p] = r
      BY <1>6, <2>1, <2>3, PartyToMoves, PartyLabelsAre
    <2>5. RoleDone(p, h)' /\ \A q, t : RoleDone(q, t) => RoleDone(q, t)'
      <3>1. CASE role' = role \cup {<<p, Head(todo), Unset>>} /\ UNCHANGED swallowed
        <4>1. <<p, h, Unset>> \in role' /\ <<p, h, Unset>>[1] = p /\ <<p, h, Unset>>[2] = h BY <2>1, <3>1
        <4>2. RoleDone(p, h)' BY <4>1 DEF RoleDone
        <4> QED BY <1>1, <3>1, <4>2 DEF RoleDone
      <3>2. CASE swallowed' = swallowed \cup {<<p, Head(todo)>>} /\ UNCHANGED role
        BY <1>1, <2>1, <3>2 DEF RoleDone
      <3> QED BY <1>6, <3>1, <3>2
    <2>6. r \in CreationArgs /\ r.todo = rest /\ r.role = parg[p].role BY <1>3, <2>2, <2>3 DEF CreationArgs
    <2>7. CreationOk(p)' BY <1>3, <2>2, <2>4, <2>5, <2>6 DEF CreationOk
    <2>8. PartyUpdatesApart' BY <1>4, <2>4, PartyUpdatesStayApart
    <2>9. role' \subseteq PartyRole
      BY <1>6, <2>1, <2>2 DEF PartyInv, PartyShape, PartyTypeOK, PartyRole
    <2>10. AddressesHaveOwners'
      <3>1. \A a \in Additions : ppc'[a] = ppc[a] BY <2>4 DEF PartyMoved, PartyCallers
      <3> QED BY <1>1, <3>1 DEF AddressesHaveOwners, PartyInv, PartyShape, PartyTypeOK
    <2>11. /\ address' \subseteq Additions
           /\ addressOf' \subseteq Creations \X Additions /\ contact' \subseteq Creations \X Additions
      BY <1>1 DEF PartyInv, PartyShape, PartyTypeOK
    <2> QED BY <1>1, <1>4, <2>4, <2>5, <2>7, <2>8, <2>9, <2>10, <2>11, PartySteps
  <1> QED BY <1>2, <1>5, <1>6 DEF AddInitialRole, Smooth, Mishap, InsertRole
LEMMA ReadPartyKeeps ==
  ASSUME PartyInv, NEW c \in PartyCalls, ReadParty(c) PROVE PartyInv'
  <1> c \in PartyCallers /\ c \notin Creations /\ c \notin Additions
    BY PartyCallersDisjoint DEF PartyCallers
  <1>1. UNCHANGED <<party, role, address, addressOf, contact, swallowed, removed, severed, asked>>
    BY DEF ReadParty, partyTables
  <1>2. PICK p \in Creations, s \in PartyStatuses \cup {Unset} :
          /\ PartyExists(p)
          /\ PartyTo(c, "write", [NoPartyArgs EXCEPT !.party = p, !.asked = s, !.status = PartyStatusToWrite(p, s)])
          /\ collided' = IF PartyUpdating(p) # {} THEN collided \cup {p} ELSE collided
    BY DEF ReadParty
  <1>3. PICK r : r = [NoPartyArgs EXCEPT !.party = p, !.asked = s, !.status = PartyStatusToWrite(p, s)] OBVIOUS
  <1>4. r.party = p /\ r.asked = s /\ r.status = PartyStatusToWrite(p, s) BY <1>3 DEF NoPartyArgs
  <1>5. party[p] \in PartyRow BY <1>2 DEF PartyInv, PartyShape, PartyTypeOK, PartyExists
  <1>6. PartyMoved(c) /\ ppc'[c] = "write" /\ parg'[c] = r BY <1>2, <1>3, PartyToMoves, PartyLabelsAre
  <1>7. PartyCallOk(c)'
    BY <1>1, <1>2, <1>4, <1>5, <1>6 DEF PartyCallOk, PartyStatusToWrite, PartyExists, PartyRow
  <1>8. collided \subseteq collided' /\ collided' \subseteq Creations BY <1>2 DEF PartyInv, PartyShape
  <1>9. ASSUME NEW e \in PartyCalls, e # c, ppc'[e] = "write", parg'[e].party = p PROVE p \in collided'
    <2>1. e \in PartyUpdating(p) BY <1>6, <1>9 DEF PartyMoved, PartyCallers, PartyUpdating
    <2> QED BY <1>2, <2>1
  <1>10. PartyUpdatesApart'
    BY <1>4, <1>6, <1>8, <1>9 DEF PartyUpdatesApart, PartyInv, PartyMoved, PartyCallers
  <1> QED BY <1>1, <1>6, <1>7, <1>8, <1>10, PartyQuiet

LEMMA UpdatePartyKeeps ==
  ASSUME PartyInv, NEW c \in PartyCalls, UpdateParty(c) PROVE PartyInv'
  <1> c \in PartyCallers /\ c \notin Creations /\ c \notin Additions
    BY PartyCallersDisjoint DEF PartyCallers
  <1>1. /\ UNCHANGED <<role, address, addressOf, contact, swallowed, removed, severed, collided>>
        /\ ppc[c] = "write" /\ PartyTo(c, "ok", NoPartyArgs)
    BY DEF UpdateParty
  <1>2. PICK p, s : p = parg[c].party /\ s = parg[c].status OBVIOUS
  <1>3. /\ p \in Creations /\ PartyExists(p) /\ s \in PartyStatuses /\ party[p] \in PartyRow
        /\ parg[c].asked # Unset => s = parg[c].asked
        /\ parg[c].asked = Unset /\ p \notin collided => s = party[p].status
    BY <1>1, <1>2 DEF PartyInv, PartyCallOk, PartyShape, PartyTypeOK, PartyExists
  <1>4. PICK row : row = [party[p] EXCEPT !.status = s] OBVIOUS
  <1>5. row \in PartyRow /\ row.code = party[p].code /\ row.status = s BY <1>3, <1>4 DEF PartyRow
  <1>6. party' = [party EXCEPT ![p] = row]
    BY <1>2, <1>3, <1>4 DEF UpdateParty, SetPartyStatus, PartyInv, PartyShape, PartyTypeOK
  <1>7. /\ party' \in [Creations -> PartyRow \cup {Unset}] /\ party'[p] = row /\ row # Unset
        /\ \A q \in Creations : q # p => party'[q] = party[q]
    BY <1>3, <1>5, <1>6, UnsetIsNothing DEF PartyInv, PartyShape, PartyTypeOK
  <1>8. /\ DOMAIN asked' = Creations
        /\ asked'[p] = (IF parg[c].asked = Unset THEN asked[p] ELSE parg[c].asked)
        /\ \A q \in Creations : q # p => asked'[q] = asked[q]
    BY <1>2, <1>3 DEF UpdateParty, PartyInv, PartyShape
  <1>9. PartyMoved(c) /\ ppc'[c] = "ok" BY <1>1, PartyToMoves, PartyLabelsAre
  <1>10. \A q \in Creations : /\ PartyExists(q)' <=> PartyExists(q)
                              /\ PartyExists(q) => party'[q].code = party[q].code
    BY <1>3, <1>5, <1>7 DEF PartyExists
  <1>11. (\A q, r \in Creations : PartyExists(q) /\ PartyExists(r) /\ q # r
              => party[q].code = Unset \/ party[q].code # party[r].code)'
    BY <1>10 DEF PartyInv, PartyShape, PartyTypeOK
  <1>12. PartyAsAsked'
    <2> SUFFICES ASSUME NEW q \in Creations, PartyExists(q), q \notin collided
                 PROVE party'[q].status = asked'[q]
      BY <1>1, <1>10 DEF PartyAsAsked
    <2>1. party[q].status = asked[q] BY DEF PartyInv, PartyAsAsked
    <2>2. CASE q = p BY <1>3, <1>5, <1>7, <1>8, <2>1, <2>2
    <2>3. CASE q # p BY <1>7, <1>8, <2>1, <2>3
    <2> QED BY <2>2, <2>3
  <1>13. ASSUME NEW e \in PartyCalls PROVE PartyCallOk(e)'
    <2>1. CASE e = c BY <1>9, <2>1 DEF PartyCallOk
    <2>2. CASE e # c
      <3>1. ppc'[e] = ppc[e] /\ parg'[e] = parg[e] /\ PartyCallOk(e)
        BY <1>9, <2>2 DEF PartyMoved, PartyCallers, PartyInv
      <3>2. CASE ppc[e] # "write" BY <3>1, <3>2 DEF PartyCallOk
      <3>3. CASE ppc[e] = "write"
        <4>1. parg[e].party \in Creations /\ PartyExists(parg[e].party)' BY <1>10, <3>1, <3>3 DEF PartyCallOk
        <4>2. CASE parg[e].party = p
          <5>1. p \in collided BY <1>1, <1>2, <2>2, <3>3, <4>2 DEF PartyInv, PartyUpdatesApart
          <5> QED BY <1>1, <3>1, <3>3, <4>1, <4>2, <5>1 DEF PartyCallOk, PartyExists
        <4>3. CASE parg[e].party # p
          <5>1. party'[parg[e].party] = party[parg[e].party] BY <1>7, <4>1, <4>3
          <5> QED BY <1>1, <3>1, <3>3, <4>1, <5>1 DEF PartyCallOk, PartyExists
        <4> QED BY <4>2, <4>3
      <3> QED BY <3>2, <3>3
    <2> QED BY <2>1, <2>2
  <1>14. PartyUpdatesApart' BY <1>1, <1>9, PartyUpdatesStayApart
  <1>15. \A q, t : RoleDone(q, t) => RoleDone(q, t)' BY <1>1 DEF RoleDone
  <1>16. AddressesHaveOwners'
    <2>1. \A a \in Additions : ppc'[a] = ppc[a] BY <1>9 DEF PartyMoved, PartyCallers
    <2> QED BY <1>1, <2>1 DEF AddressesHaveOwners, PartyInv, PartyShape, PartyTypeOK
  <1>17. /\ role' \subseteq PartyRole /\ address' \subseteq Additions
         /\ addressOf' \subseteq Creations \X Additions /\ contact' \subseteq Creations \X Additions
         /\ collided \subseteq collided' /\ collided' \subseteq Creations
    BY <1>1 DEF PartyInv, PartyShape, PartyTypeOK
  <1>18. \A q \in Creations : party[q] = Unset => party'[q] = Unset BY <1>10 DEF PartyExists
  <1> QED BY <1>7, <1>8, <1>9, <1>11, <1>12, <1>13, <1>14, <1>15, <1>16, <1>17, <1>18, PartyWrites

LEMMA VerifyPartyKeeps ==
  ASSUME PartyInv, NEW c \in PartyCalls, VerifyParty(c) PROVE PartyInv'
  <1> c \in PartyCallers /\ c \notin Creations /\ c \notin Additions
    BY PartyCallersDisjoint DEF PartyCallers
  <1>1. UNCHANGED <<party, role, address, addressOf, contact, swallowed, removed, severed, asked, collided>>
    BY DEF VerifyParty, partyTables, partyHistory
  <1>2. PICK p \in Creations, t \in RoleTypes, o \in OrgIds \cup {Unset} :
          PartyTo(c, IF PartyExists(p) THEN "add" ELSE "refused", [NoPartyArgs EXCEPT !.role = <<p, t, o>>])
    BY DEF VerifyParty
  <1>3. PICK r : r = [NoPartyArgs EXCEPT !.role = <<p, t, o>>] OBVIOUS
  <1>4. r.role \in PartyRole BY <1>2, <1>3 DEF NoPartyArgs, PartyRole
  <1>5. PartyMoved(c) /\ ppc'[c] \in {"add", "refused"} /\ parg'[c] = r
    BY <1>2, <1>3, PartyToMoves, PartyLabelsAre
  <1>6. PartyCallOk(c)' BY <1>4, <1>5 DEF PartyCallOk
  <1>7. PartyUpdatesApart' BY <1>1, <1>5, PartyUpdatesStayApart
  <1>8. collided \subseteq collided' /\ collided' \subseteq Creations BY <1>1 DEF PartyInv, PartyShape
  <1> QED BY <1>1, <1>5, <1>6, <1>7, <1>8, PartyQuiet
LEMMA AddRoleKeeps ==
  ASSUME PartyInv, NEW c \in PartyCalls, AddRole(c) PROVE PartyInv'
  <1> c \in PartyCallers /\ c \notin Creations /\ c \notin Additions
    BY PartyCallersDisjoint DEF PartyCallers
  <1>1. /\ UNCHANGED <<party, address, addressOf, contact, swallowed, removed, severed, asked, collided>>
        /\ ppc[c] = "add" /\ role' = role \cup {parg[c].role}
    BY DEF AddRole, InsertRole, partyHistory
  <1>2. PartyMoved(c) /\ ppc'[c] \in {"ok", "refused"}
    BY PartyToMoves, PartyLabelsAre DEF AddRole
  <1>3. role' \subseteq PartyRole BY <1>1 DEF PartyInv, PartyCallOk, PartyShape, PartyTypeOK
  <1>4. \A p, t : RoleDone(p, t) => RoleDone(p, t)' BY <1>1 DEF RoleDone
  <1>5. AddressesHaveOwners'
    <2>1. \A a \in Additions : ppc'[a] = ppc[a] BY <1>2 DEF PartyMoved, PartyCallers
    <2> QED BY <1>1, <2>1 DEF AddressesHaveOwners, PartyInv, PartyShape, PartyTypeOK
  <1>6. /\ address' \subseteq Additions /\ addressOf' \subseteq Creations \X Additions
        /\ contact' \subseteq Creations \X Additions
        /\ collided \subseteq collided' /\ collided' \subseteq Creations
    BY <1>1 DEF PartyInv, PartyShape, PartyTypeOK
  <1>7. PartyUpdatesApart' BY <1>2, <1>6, PartyUpdatesStayApart
  <1>8. PartyCallOk(c)' BY <1>2 DEF PartyCallOk
  <1> QED BY <1>1, <1>2, <1>3, <1>4, <1>5, <1>6, <1>7, <1>8, PartySteps

\* A role that is removed is remembered as removed.
LEMMA RemoveRoleKeeps ==
  ASSUME PartyInv, NEW c \in PartyCalls, RemoveRole(c) PROVE PartyInv'
  <1> c \in PartyCallers /\ c \notin Creations /\ c \notin Additions
    BY PartyCallersDisjoint DEF PartyCallers
  <1>1. UNCHANGED <<party, address, addressOf, contact, swallowed, severed, asked, collided>>
    BY DEF RemoveRole
  <1>2. PICK r \in role : role' = role \ {r} /\ removed' = removed \cup {<<r[1], r[2]>>}
    BY DEF RemoveRole
  <1>3. PartyMoved(c) /\ ppc'[c] = "ok" BY PartyToMoves, PartyLabelsAre DEF RemoveRole
  <1>4. ASSUME NEW p, NEW t, RoleDone(p, t) PROVE RoleDone(p, t)'
    BY <1>1, <1>2, <1>4 DEF RoleDone
  <1>5. AddressesHaveOwners'
    <2>1. \A a \in Additions : ppc'[a] = ppc[a] BY <1>3 DEF PartyMoved, PartyCallers
    <2> QED BY <1>1, <2>1 DEF AddressesHaveOwners, PartyInv, PartyShape, PartyTypeOK
  <1>6. /\ role' \subseteq PartyRole
        /\ address' \subseteq Additions /\ addressOf' \subseteq Creations \X Additions
        /\ contact' \subseteq Creations \X Additions
        /\ collided \subseteq collided' /\ collided' \subseteq Creations
    BY <1>1, <1>2 DEF PartyInv, PartyShape, PartyTypeOK
  <1>7. PartyUpdatesApart' BY <1>3, <1>6, PartyUpdatesStayApart
  <1>8. PartyCallOk(c)' BY <1>3 DEF PartyCallOk
  <1> QED BY <1>1, <1>3, <1>4, <1>5, <1>6, <1>7, <1>8, PartySteps

LEMMA VerifyOwnerKeeps ==
  ASSUME PartyInv, NEW a \in Additions, VerifyOwner(a) PROVE PartyInv'
  <1> a \in PartyCallers /\ a \notin Creations /\ a \notin PartyCalls
    BY PartyCallersDisjoint DEF PartyCallers
  <1>1. /\ UNCHANGED <<party, role, address, addressOf, contact, swallowed, removed, severed, asked, collided>>
        /\ ppc[a] = "idle"
    BY DEF VerifyOwner, partyTables, partyHistory
  <1>2. PICK p \in Creations, next \in {"address", "contact"} :
          PartyTo(a, IF PartyExists(p) THEN next ELSE "refused", [NoPartyArgs EXCEPT !.party = p])
    BY DEF VerifyOwner
  <1>3. PICK r : r = [NoPartyArgs EXCEPT !.party = p] OBVIOUS
  <1>4. r.party = p BY <1>3 DEF NoPartyArgs
  <1>5. PICK label \in PartyLabels : label = IF PartyExists(p) THEN next ELSE "refused" BY PartyLabelsAre
  <1>6. PartyMoved(a) /\ parg'[a] = r BY <1>2, <1>3, <1>5, PartyToMoves
  <1>7. AdditionOk(a)' BY <1>4, <1>6 DEF AdditionOk
  <1>8. collided \subseteq collided' /\ collided' \subseteq Creations BY <1>1 DEF PartyInv, PartyShape
  <1>9. PartyUpdatesApart' BY <1>6, <1>8, PartyUpdatesStayApart
  <1> QED BY <1>1, <1>6, <1>7, <1>8, <1>9, PartyQuiet

\* What the steps of AddAddress and AddContact have in common.
LEMMA AdditionSteps ==
  ASSUME PartyInv, NEW a \in Additions, PartyMoved(a),
         UNCHANGED <<party, role, swallowed, removed, asked, collided>>,
         address' \subseteq Additions, addressOf' \subseteq Creations \X Additions,
         contact' \subseteq Creations \X Additions,
         address' \subseteq address \cup {a}, addressOf \subseteq addressOf', severed \subseteq severed',
         a \in address' => (\E p \in Creations : <<p, a>> \in addressOf') \/ ppc'[a] = "link" \/ a \in severed',
         AdditionOk(a)'
  PROVE  PartyInv'
  <1> a \in PartyCallers /\ a \notin Creations /\ a \notin PartyCalls
    BY PartyCallersDisjoint DEF PartyCallers
  <1>1. AddressesHaveOwners'
    <2> SUFFICES ASSUME NEW b \in address'
                 PROVE  (\E p \in Creations : <<p, b>> \in addressOf') \/ ppc'[b] = "link" \/ b \in severed'
      BY DEF AddressesHaveOwners
    <2>1. CASE b = a BY <2>1
    <2>2. CASE b # a
      <3>1. b \in address /\ b \in PartyCallers BY <2>2 DEF PartyCallers
      <3>2. ppc'[b] = ppc[b] BY <2>2, <3>1 DEF PartyMoved
      <3> QED BY <3>1, <3>2 DEF PartyInv, AddressesHaveOwners
    <2> QED BY <2>1, <2>2
  <1>2. \A p, t : RoleDone(p, t) => RoleDone(p, t)' BY DEF RoleDone
  <1>3. role' \subseteq PartyRole /\ collided \subseteq collided' /\ collided' \subseteq Creations
    BY DEF PartyInv, PartyShape, PartyTypeOK
  <1>4. PartyUpdatesApart' BY <1>3, PartyUpdatesStayApart
  <1> QED BY <1>1, <1>2, <1>3, <1>4, PartySteps
LEMMA CreateAddressKeeps ==
  ASSUME PartyInv, NEW a \in Additions, CreateAddress(a) PROVE PartyInv'
  <1> a \in PartyCallers BY DEF PartyCallers
  <1>1. /\ UNCHANGED <<party, role, addressOf, contact, swallowed, removed, severed, asked, collided>>
        /\ ppc[a] = "address"
    BY DEF CreateAddress, partyHistory
  <1>2. /\ address \subseteq Additions /\ addressOf' \subseteq Creations \X Additions
        /\ contact' \subseteq Creations \X Additions /\ parg[a].party \in Creations
    BY <1>1 DEF PartyInv, PartyShape, PartyTypeOK, AdditionOk
  <1>3. CASE address' = address \cup {a} /\ PartyTo(a, "link", parg[a])
    <2>1. PartyMoved(a) /\ ppc'[a] = "link" /\ parg'[a] = parg[a] BY <1>3, PartyToMoves, PartyLabelsAre
    <2>2. AdditionOk(a)' BY <1>2, <2>1 DEF AdditionOk
    <2> QED BY <1>1, <1>2, <1>3, <2>1, <2>2, AdditionSteps
  <1>4. CASE address' = address /\ PartyTo(a, "refused", NoPartyArgs)
    <2>1. PartyMoved(a) /\ ppc'[a] = "refused" BY <1>4, PartyToMoves, PartyLabelsAre
    <2>2. AdditionOk(a)' BY <2>1 DEF AdditionOk
    <2>3. a \in address => (\E p \in Creations : <<p, a>> \in addressOf) \/ a \in severed
      BY <1>1 DEF PartyInv, AddressesHaveOwners
    <2> QED BY <1>1, <1>2, <1>4, <2>1, <2>2, <2>3, AdditionSteps
  <1> QED BY <1>3, <1>4 DEF CreateAddress, InsertAddress

LEMMA LinkPartyAddressKeeps ==
  ASSUME PartyInv, NEW a \in Additions, LinkPartyAddress(a) PROVE PartyInv'
  <1> a \in PartyCallers BY DEF PartyCallers
  <1>1. /\ UNCHANGED <<party, role, address, contact, swallowed, removed, asked, collided>>
        /\ ppc[a] = "link"
    BY DEF LinkPartyAddress
  <1>2. /\ address' \subseteq Additions /\ addressOf \subseteq Creations \X Additions
        /\ contact' \subseteq Creations \X Additions /\ parg[a].party \in Creations
    BY <1>1 DEF PartyInv, PartyShape, PartyTypeOK, AdditionOk
  <1>3. PartyMoved(a) /\ ppc'[a] \in {"ok", "refused"}
    BY PartyToMoves, PartyLabelsAre DEF LinkPartyAddress
  <1>4. AdditionOk(a)' BY <1>3 DEF AdditionOk
  <1>5. /\ addressOf' \subseteq Creations \X Additions /\ addressOf \subseteq addressOf' /\ severed \subseteq severed'
        /\ (\E p \in Creations : <<p, a>> \in addressOf') \/ a \in severed'
    BY <1>2 DEF LinkPartyAddress
  <1> QED BY <1>1, <1>2, <1>3, <1>4, <1>5, AdditionSteps

LEMMA CreateContactKeeps ==
  ASSUME PartyInv, NEW a \in Additions, CreateContact(a) PROVE PartyInv'
  <1> a \in PartyCallers BY DEF PartyCallers
  <1>1. /\ UNCHANGED <<party, role, address, addressOf, swallowed, removed, severed, asked, collided>>
        /\ ppc[a] = "contact" /\ contact' = contact \cup {<<parg[a].party, a>>}
    BY DEF CreateContact, InsertContact, partyHistory
  <1>2. /\ address' \subseteq Additions /\ addressOf' \subseteq Creations \X Additions
        /\ contact' \subseteq Creations \X Additions
    BY <1>1 DEF PartyInv, PartyShape, PartyTypeOK, AdditionOk
  <1>3. PartyMoved(a) /\ ppc'[a] = "ok" BY PartyToMoves, PartyLabelsAre DEF CreateContact
  <1>4. AdditionOk(a)' BY <1>3 DEF AdditionOk
  <1>5. a \in address => (\E p \in Creations : <<p, a>> \in addressOf) \/ a \in severed
    BY <1>1 DEF PartyInv, AddressesHaveOwners
  <1> QED BY <1>1, <1>2, <1>3, <1>4, <1>5, AdditionSteps

LEMMA PartyStep == PartyInv /\ [PartyNext]_partyVars => PartyInv'
  <1> SUFFICES ASSUME PartyInv, [PartyNext]_partyVars PROVE PartyInv' OBVIOUS
  <1>1. ASSUME UNCHANGED <<ppc, parg, partyTables, partyHistory>> PROVE PartyInv'
    BY <1>1 DEF partyTables, partyHistory, PartyInv, PartyShape, PartyTypeOK, PartyExists, InitialRolesGiven,
         AddressesHaveOwners, PartyAsAsked, CreationOk, RoleDone, PartyCallOk, AdditionOk, PartyUpdatesApart
  <1>2. CASE UNCHANGED partyVars BY <1>1, <1>2, ZenonT(30) DEF partyVars
  <1>3. ASSUME NEW w \in Walkers, StartWalk(w) \/ CountStep(w) \/ RowsStep(w) PROVE PartyInv'
    BY <1>1, <1>3, ZenonT(30) DEF StartWalk, CountStep, RowsStep
  <1>4. CASE PartyNext
    BY <1>3, <1>4, RequestPartyKeeps, CreatePartyKeeps, AddInitialRoleKeeps, ReadPartyKeeps, UpdatePartyKeeps,
       VerifyPartyKeeps, AddRoleKeeps, RemoveRoleKeeps, VerifyOwnerKeeps, CreateAddressKeeps,
       LinkPartyAddressKeeps, CreateContactKeeps DEF PartyNext
  <1> QED BY <1>2, <1>4

-----------------------------------------------------------------------------
(* The four components side by side.                                       *)

MasterInv == FieldInv /\ OrgInv /\ CatalogInv /\ PartyInv

\* The inductive invariant of the master data: what every call in flight still
\* knows of the rows it read, in each of the four components, holds in every
\* reachable state, for any number of calls.
THEOREM MasterInvariance == MasterSpec => []MasterInv
  <1>1. PartyInit /\ CatalogInit /\ FieldInit /\ OrgInit => MasterInv
    BY FieldInitOk, OrgInitOk, CatalogInitOk, PartyInitOk DEF MasterInv
  <1>2. MasterInv /\ [MasterNext]_<<partyVars, catalogVars, fieldVars, orgVars>> => MasterInv'
    <2> SUFFICES ASSUME MasterInv, [MasterNext]_<<partyVars, catalogVars, fieldVars, orgVars>> PROVE MasterInv'
      OBVIOUS
    <2>1. /\ [PartyNext]_partyVars /\ [CatalogNext]_catalogVars
          /\ [FieldNext]_fieldVars /\ [OrgNext]_orgVars
      BY DEF MasterNext
    <2> QED BY <2>1, FieldStep, OrgStep, CatalogStep, PartyStep DEF MasterInv
  <1> QED BY <1>1, <1>2, PTL DEF MasterSpec

\* The codes the unique indexes guard stay unique, a select definition has
\* options, and every row has its shape, however checks and inserts race.
THEOREM MasterSchemaAlways == MasterSpec => []MasterSchema
  <1>1. MasterInv => MasterSchema
    BY DEF MasterInv, MasterSchema, FieldInv, FieldShape, OrgInv, CatalogInv, CatalogShape, PartyInv, PartyShape
  <1> QED BY <1>1, MasterInvariance, PTL

\* What a call that reported success was asked for is there and stays, unless a
\* failed insert was passed over or two updates of one row overlapped.
THEOREM MasterAsAskedAlways == MasterSpec => []AsAsked
  <1>1. MasterInv => AsAsked
    BY DEF MasterInv, AsAsked, FieldInv, CatalogInv, PartyInv
  <1> QED BY <1>1, MasterInvariance, PTL

\* The values an entity has obey every active definition that has not changed
\* since SetEntityValues checked them, although the check and the upsert are two
\* steps and definitions are updated and deleted between them: an outdated check is the only
\* way to values that break a rule of validator.go.
THEOREM ValuesAlwaysObeyRules == MasterSpec => []ValuesObeyRules
  <1>1. MasterInv => ValuesObeyRules BY FieldInvRules DEF MasterInv
  <1> QED BY <1>1, MasterInvariance, PTL

\* The organizations have no cycle unless two updates overlapped (CheckCircular
\* and the write are two statements), and the tree GetTree answers is, whatever
\* the rows have become, the part that hangs from a root.
THEOREM HierarchyAlwaysSound == MasterSpec => []HierarchySound
  <1>1. MasterInv => HierarchySound BY OrgInvSound DEF MasterInv
  <1> QED BY <1>1, MasterInvariance, PTL

-----------------------------------------------------------------------------
(* The search of Convert.                                                  *)

\* A queue item, and what the loops carry.
SearchItem == [node : Units, factor : Int]
SearchState == [queue : Seq(SearchItem), visited : SUBSET Units]

\* There is a usable row between u and v.
Adjacent(u, v) == \E i \in 1..Len(conv) : Touches(conv[i], u) /\ EdgeAt(conv[i], u).to = v

LEMMA UnitsSize == Cardinality(Units) \in Nat
  BY UnitsFinite, FS_CardinalityType

LEMMA EdgesTyped ==
  ASSUME conv \in Seq(ConversionRow), NEW i \in 1..Len(conv), NEW u \in Units, Touches(conv[i], u)
  PROVE  EdgeAt(conv[i], u) \in [to : Units, factor : Int]
  <1>1. PICK c \in ConversionRow : c = conv[i] OBVIOUS
  <1>2. c.from \in Units /\ c.to \in Units /\ c.factor \in Int
    BY <1>1, ExponentsAreIntegers DEF ConversionRow, Touches
  <1>3. 0 - c.factor \in Int BY <1>2
  <1> QED BY <1>1, <1>2, <1>3 DEF EdgeAt

\* One conversion further: over an edge of the unit.
LEMMA OnwardIs ==
  ASSUME conv \in Seq(ConversionRow), NEW S \in SUBSET (Units \X Int)
  PROVE  /\ Onward(S) \in SUBSET (Units \X Int)
         /\ \A x \in S, i \in 1..Len(conv) : Touches(conv[i], x[1])
              => <<EdgeAt(conv[i], x[1]).to, x[2] + EdgeAt(conv[i], x[1]).factor>> \in Onward(S)
         /\ \A y \in Onward(S) : \E x \in S : Adjacent(x[1], y[1])
  <1>1. PICK usable : usable = {conv[i] : i \in {j \in DOMAIN conv : conv[j].factor # Zero}} OBVIOUS
  <1>2. \A c \in usable : /\ c.from \in Units /\ c.to \in Units /\ c.factor \in Int /\ c.factor # Zero
                          /\ \E i \in 1..Len(conv) : c = conv[i]
    <2> SUFFICES ASSUME NEW i \in DOMAIN conv, conv[i].factor # Zero
                 PROVE  /\ conv[i].from \in Units /\ conv[i].to \in Units /\ conv[i].factor \in Int
                        /\ i \in 1..Len(conv)
      BY <1>1
    <2>1. conv[i] \in ConversionRow /\ i \in 1..Len(conv) OBVIOUS
    <2> QED BY <2>1, ExponentsAreIntegers DEF ConversionRow
  <1>3. PICK there : there = {<<e[1].to, e[2][2] + e[1].factor>> : e \in {f \in usable \X S : f[1].from = f[2][1]}}
    OBVIOUS
  <1>4. PICK back : back = {<<e[1].from, e[2][2] - e[1].factor>> : e \in {f \in usable \X S : f[1].to = f[2][1]}}
    OBVIOUS
  <1>5. Onward(S) = there \cup back BY <1>1, <1>3, <1>4 DEF Onward
  <1>6. ASSUME NEW y \in there
        PROVE  y \in Units \X Int /\ \E x \in S : Adjacent(x[1], y[1])
    <2>1. PICK e \in usable \X S : e[1].from = e[2][1] /\ y = <<e[1].to, e[2][2] + e[1].factor>> BY <1>3, <1>6
    <2>2. PICK c \in usable, x \in S : c = e[1] /\ x = e[2] BY <2>1
    <2>3. c.from = x[1] /\ y = <<c.to, x[2] + c.factor>> /\ x[2] \in Int BY <2>1, <2>2
    <2>4. PICK i \in 1..Len(conv) : c = conv[i] BY <1>2, <2>2
    <2>5. Touches(conv[i], x[1]) /\ EdgeAt(conv[i], x[1]).to = y[1]
      BY <1>2, <2>2, <2>3, <2>4 DEF Touches, EdgeAt
    <2>6. c.from \in Units /\ c.to \in Units /\ c.factor \in Int BY <1>2, <2>2
    <2>7. y \in Units \X Int BY <2>3, <2>6
    <2>8. Adjacent(x[1], y[1]) BY <2>4, <2>5 DEF Adjacent
    <2> QED BY <2>2, <2>7, <2>8
  <1>7. ASSUME NEW y \in back
        PROVE  y \in Units \X Int /\ \E x \in S : Adjacent(x[1], y[1])
    <2>1. PICK e \in usable \X S : e[1].to = e[2][1] /\ y = <<e[1].from, e[2][2] - e[1].factor>> BY <1>4, <1>7
    <2>2. PICK c \in usable, x \in S : c = e[1] /\ x = e[2] BY <2>1
    <2>3. c.to = x[1] /\ y = <<c.from, x[2] - c.factor>> /\ x[2] \in Int BY <2>1, <2>2
    <2>4. PICK i \in 1..Len(conv) : c = conv[i] BY <1>2, <2>2
    <2>5. Touches(conv[i], x[1]) /\ EdgeAt(conv[i], x[1]).to = y[1]
      BY <1>2, <2>2, <2>3, <2>4 DEF Touches, EdgeAt
    <2>6. c.from \in Units /\ c.to \in Units /\ c.factor \in Int BY <1>2, <2>2
    <2>7. y \in Units \X Int BY <2>3, <2>6
    <2>8. Adjacent(x[1], y[1]) BY <2>4, <2>5 DEF Adjacent
    <2> QED BY <2>2, <2>7, <2>8
  <1>8. ASSUME NEW x \in S, NEW i \in 1..Len(conv), Touches(conv[i], x[1])
        PROVE  <<EdgeAt(conv[i], x[1]).to, x[2] + EdgeAt(conv[i], x[1]).factor>> \in Onward(S)
    <2>1. PICK c : c = conv[i] OBVIOUS
    <2>2. c \in usable BY <1>1, <1>8, <2>1 DEF Touches
    <2>3. <<c, x>> \in usable \X S /\ <<c, x>>[1] = c /\ <<c, x>>[2] = x BY <2>2
    <2>4. x[2] \in Int /\ c.factor \in Int BY <1>2, <2>2
    <2>5. CASE c.from = x[1]
      <3>1. <<c.to, x[2] + c.factor>> \in there BY <1>3, <2>3, <2>5
      <3> QED BY <1>5, <2>1, <2>5, <3>1 DEF EdgeAt
    <2>6. CASE c.from # x[1]
      <3>1. c.to = x[1] BY <1>8, <2>1, <2>6 DEF Touches
      <3>2. <<c.from, x[2] - c.factor>> \in back BY <1>4, <2>3, <3>1
      <3>3. x[2] - c.factor = x[2] + (0 - c.factor) BY <2>4
      <3> QED BY <1>5, <2>1, <2>6, <3>2, <3>3 DEF EdgeAt
    <2> QED BY <2>5, <2>6
  <1> QED BY <1>5, <1>6, <1>7, <1>8

\* Paths starts with the unit itself and goes on over the rows.
LEMMA PathsAre ==
  ASSUME conv \in Seq(ConversionRow), NEW a \in Units
  PROVE  /\ Paths(a) \in [0..Cardinality(Units) -> SUBSET (Units \X Int)]
         /\ Paths(a)[0] = {<<a, 0>>}
         /\ \A n \in 1..Cardinality(Units) : Paths(a)[n] = Onward(Paths(a)[n - 1])
  <1>1. PICK K \in Nat : K = Cardinality(Units) BY UnitsSize
  <1>2. PICK P : P = SUBSET (Units \X Int) OBVIOUS
  <1>3. \A S \in P : Onward(S) \in P BY <1>2, OnwardIs
  <1>4. PICK g : g = [n \in Nat |-> [S \in P |-> Onward(S)]] OBVIOUS
  <1>5. g \in [Nat -> [P -> P]] /\ {<<a, 0>>} \in P BY <1>2, <1>3, <1>4
  <1>6. PICK f : Follows(f, K, P, {<<a, 0>>}, g) BY <1>5, RecursionExists
  <1>7. f = [n \in 0..K |-> IF n = 0 THEN {<<a, 0>>} ELSE Onward(f[n - 1])]
    <2>1. ASSUME NEW n \in 0..K PROVE f[n] = IF n = 0 THEN {<<a, 0>>} ELSE Onward(f[n - 1])
      <3>1. CASE n = 0 BY <1>6, <3>1 DEF Follows
      <3>2. CASE n # 0
        <4>1. n \in 1..K /\ n - 1 \in 0..K /\ n \in Nat BY <3>2
        <4>2. f[n] = g[n][f[n - 1]] /\ f[n - 1] \in P BY <1>6, <4>1 DEF Follows
        <4> QED BY <1>4, <3>2, <4>1, <4>2
      <3> QED BY <3>1, <3>2
    <2>2. f = [n \in 0..K |-> f[n]] BY <1>6 DEF Follows
    <2> QED BY <2>1, <2>2
  <1>8. PICK at : at = Paths(a) OBVIOUS
  <1>9. at = [n \in 0..K |-> IF n = 0 THEN {<<a, 0>>} ELSE Onward(at[n - 1])] BY <1>1, <1>7, <1>8 DEF Paths
  <1>10. at[0] = {<<a, 0>>} /\ \A n \in 1..K : at[n] = Onward(at[n - 1])
    <2>1. 0 \in 0..K /\ \A n \in 1..K : n \in 0..K /\ n # 0 BY <1>1
    <2>2. at[0] = {<<a, 0>>} BY <1>9, <2>1
    <2> QED BY <1>9, <2>1, <2>2
  <1>11. PICK T : T = {n \in Nat : at[n] \in P} OBVIOUS
  <1>12. ASSUME NEW n \in 1..K, n - 1 \in T PROVE n \in T BY <1>3, <1>10, <1>11, <1>12
  <1>13. \A n \in 0..K : n \in T
    <2>1. 0 \in T BY <1>5, <1>10, <1>11
    <2> QED BY <1>12, <2>1, BoundedInduction
  <1>14. at \in [0..K -> P]
    <2>1. at = [n \in 0..K |-> at[n]] BY <1>9
    <2> QED BY <1>11, <1>13, <2>1
  <1> QED BY <1>1, <1>2, <1>8, <1>10, <1>14

\* v is n conversions away from a, and no fewer.
Distance(a, v, n) == n \in Hops(a, v) /\ \A m \in Hops(a, v) : n <= m

LEMMA DistanceIsOne ==
  ASSUME NEW a, NEW v, NEW m, NEW n, Distance(a, v, m), Distance(a, v, n)
  PROVE  m = n /\ n \in 0..Cardinality(Units)
  BY UnitsSize DEF Distance, Hops

LEMMA DistanceExists ==
  ASSUME NEW a, NEW v, NEW h \in Hops(a, v)
  PROVE  \E n \in 0..Cardinality(Units) : Distance(a, v, n) /\ n <= h
  <1>1. Hops(a, v) \in SUBSET Nat /\ Hops(a, v) \subseteq 0..Cardinality(Units) BY UnitsSize DEF Hops
  <1>2. PICK n \in Hops(a, v) : \A m \in Hops(a, v) : n <= m BY <1>1, LeastNumber
  <1> QED BY <1>1, <1>2 DEF Distance

\* A unit n conversions away is next to one that is at most n - 1 away.
LEMMA DistanceComesFrom ==
  ASSUME conv \in Seq(ConversionRow), NEW a \in Units, NEW v, NEW n, Distance(a, v, n), n # 0
  PROVE  \E u \in Units, m \in 0..Cardinality(Units) : Distance(a, u, m) /\ m < n /\ Adjacent(u, v)
  <1>1. PICK K \in Nat : K = Cardinality(Units) BY UnitsSize
  <1>2. n \in 1..K BY <1>1 DEF Distance, Hops
  <1>3. PICK y \in Paths(a)[n] : y[1] = v BY DEF Distance, Hops
  <1>4. n - 1 \in 0..K BY <1>2
  <1>5. Paths(a)[n - 1] \in SUBSET (Units \X Int) /\ Paths(a)[n] = Onward(Paths(a)[n - 1])
    BY <1>1, <1>2, <1>4, PathsAre
  <1>6. PICK x \in Paths(a)[n - 1] : Adjacent(x[1], v) BY <1>3, <1>5, OnwardIs
  <1>7. x[1] \in Units /\ n - 1 \in Hops(a, x[1]) BY <1>1, <1>4, <1>5, <1>6 DEF Hops
  <1>8. PICK m \in 0..K : Distance(a, x[1], m) /\ m <= n - 1 BY <1>1, <1>7, DistanceExists
  <1>9. m < n BY <1>2, <1>8
  <1> QED BY <1>1, <1>6, <1>7, <1>8, <1>9

\* A path goes on over an edge.
LEMMA PathGoesOn ==
  ASSUME conv \in Seq(ConversionRow), NEW a \in Units, NEW n \in 0..Cardinality(Units), n # Cardinality(Units),
         NEW u \in Units, NEW f \in Int, <<u, f>> \in Paths(a)[n], NEW i \in 1..Len(conv), Touches(conv[i], u)
  PROVE  /\ n + 1 \in 0..Cardinality(Units)
         /\ <<EdgeAt(conv[i], u).to, f + EdgeAt(conv[i], u).factor>> \in Paths(a)[n + 1]
         /\ n + 1 \in Hops(a, EdgeAt(conv[i], u).to)
  <1>1. PICK K \in Nat : K = Cardinality(Units) BY UnitsSize
  <1>2. n + 1 \in 1..K /\ (n + 1) - 1 = n /\ n + 1 \in 0..K BY <1>1
  <1>3. Paths(a)[n] \in SUBSET (Units \X Int) /\ Paths(a)[n + 1] = Onward(Paths(a)[n]) BY <1>1, <1>2, PathsAre
  <1>4. PICK x \in Paths(a)[n] : x = <<u, f>> /\ x[1] = u /\ x[2] = f OBVIOUS
  <1>5. PICK y : y = <<EdgeAt(conv[i], u).to, f + EdgeAt(conv[i], u).factor>> OBVIOUS
  <1>6. y \in Paths(a)[n + 1] BY <1>3, <1>4, <1>5, OnwardIs
  <1>7. y[1] = EdgeAt(conv[i], u).to BY <1>5
  <1> QED BY <1>1, <1>2, <1>5, <1>6, <1>7 DEF Hops

LEMMA VisitTyped ==
  ASSUME conv \in Seq(ConversionRow), NEW item \in SearchItem, NEW s \in SearchState, NEW i \in 1..Len(conv)
  PROVE  Visit(item, s, conv[i]) \in SearchState
  <1>1. CASE ~Touches(conv[i], item.node) \/ EdgeAt(conv[i], item.node).to \in s.visited
    BY <1>1 DEF Visit
  <1>2. CASE Touches(conv[i], item.node) /\ EdgeAt(conv[i], item.node).to \notin s.visited
    <2>1. item.node \in Units /\ item.factor \in Int BY DEF SearchItem
    <2>2. PICK e \in [to : Units, factor : Int] : e = EdgeAt(conv[i], item.node) BY <1>2, <2>1, EdgesTyped
    <2>3. e.to \in Units /\ item.factor + e.factor \in Int BY <2>1, <2>2
    <2>4. PICK r \in SearchItem : r = [node |-> e.to, factor |-> item.factor + e.factor] BY <2>3 DEF SearchItem
    <2>5. PICK q \in Seq(SearchItem) : q = Append(s.queue, r)
      <3>1. s.queue \in Seq(SearchItem) BY DEF SearchState
      <3>2. Append(s.queue, r) \in Seq(SearchItem) BY <2>4, <3>1
      <3> QED BY <3>2
    <2>6. PICK v \in SUBSET Units : v = s.visited \cup {e.to} BY <2>3 DEF SearchState
    <2>7. Visit(item, s, conv[i]) = [queue |-> q, visited |-> v] BY <1>2, <2>2, <2>4, <2>5, <2>6 DEF Visit
    <2> QED BY <2>5, <2>6, <2>7 DEF SearchState
  <1> QED BY <1>1, <1>2

\* The inner loop takes the rows one by one.
LEMMA ExpandIs ==
  ASSUME conv \in Seq(ConversionRow), NEW s \in SearchState, s.queue # <<>>
  PROVE  \E over \in [0..Len(conv) -> SearchState] :
           /\ over[0] = [queue |-> Tail(s.queue), visited |-> s.visited]
           /\ \A n \in 1..Len(conv) : over[n] = Visit(Head(s.queue), over[n - 1], conv[n])
           /\ Expand(s) = over[Len(conv)]
  <1>1. PICK K \in Nat : K = Len(conv) OBVIOUS
  <1>2. PICK first, item : first = [queue |-> Tail(s.queue), visited |-> s.visited] /\ item = Head(s.queue) OBVIOUS
  <1>3. first \in SearchState /\ item \in SearchItem
    <2>1. s.queue \in Seq(SearchItem) /\ s.visited \in SUBSET Units BY DEF SearchState
    <2>2. Tail(s.queue) \in Seq(SearchItem) /\ Head(s.queue) \in SearchItem BY <2>1, HeadTailProperties
    <2> QED BY <1>2, <2>1, <2>2 DEF SearchState
  <1>4. PICK g : g = [n \in Nat |-> [t \in SearchState |-> IF n \in 1..K THEN Visit(item, t, conv[n]) ELSE t]] OBVIOUS
  <1>5. g \in [Nat -> [SearchState -> SearchState]] BY <1>1, <1>3, <1>4, VisitTyped
  <1>6. PICK f : Follows(f, K, SearchState, first, g) BY <1>3, <1>5, RecursionExists
  <1>7. f = [n \in 0..K |-> IF n = 0 THEN first ELSE Visit(item, f[n - 1], conv[n])]
    <2>1. ASSUME NEW n \in 0..K PROVE f[n] = IF n = 0 THEN first ELSE Visit(item, f[n - 1], conv[n])
      <3>1. CASE n = 0 BY <1>6, <3>1 DEF Follows
      <3>2. CASE n # 0
        <4>1. n \in 1..K /\ n - 1 \in 0..K /\ n \in Nat BY <3>2
        <4>2. f[n] = g[n][f[n - 1]] /\ f[n - 1] \in SearchState BY <1>6, <4>1 DEF Follows
        <4> QED BY <1>4, <3>2, <4>1, <4>2
      <3> QED BY <3>1, <3>2
    <2>2. f = [n \in 0..K |-> f[n]] BY <1>6 DEF Follows
    <2> QED BY <2>1, <2>2
  <1>8. PICK over : /\ over = [n \in 0..K |-> IF n = 0 THEN first ELSE Visit(item, over[n - 1], conv[n])]
                    /\ Expand(s) = over[K]
    BY <1>1, <1>2, <1>7 DEF Expand
  <1>9. over[0] = first /\ \A n \in 1..K : over[n] = Visit(item, over[n - 1], conv[n])
    <2>1. 0 \in 0..K /\ \A n \in 1..K : n \in 0..K /\ n # 0 BY <1>1
    <2>2. over[0] = first BY <1>8, <2>1
    <2> QED BY <1>8, <2>1, <2>2
  <1>10. PICK T : T = {n \in Nat : over[n] \in SearchState} OBVIOUS
  <1>11. ASSUME NEW n \in 1..K, n - 1 \in T PROVE n \in T
    <2>1. over[n - 1] \in SearchState BY <1>10, <1>11
    <2>2. over[n] \in SearchState BY <1>1, <1>3, <1>9, <2>1, VisitTyped
    <2> QED BY <1>10, <2>2
  <1>12. \A n \in 0..K : n \in T
    <2>1. 0 \in T BY <1>3, <1>9, <1>10
    <2> QED BY <1>11, <2>1, BoundedInduction
  <1>13. over \in [0..K -> SearchState]
    <2>1. over = [n \in 0..K |-> over[n]] BY <1>8
    <2> QED BY <1>10, <1>12, <2>1
  <1> QED BY <1>1, <1>2, <1>8, <1>9, <1>13

\* The outer loop ends at the target or with an empty queue.
SearchOver(s, b) == s.queue = <<>> \/ Head(s.queue).node = b

LEMMA SearchIs ==
  ASSUME conv \in Seq(ConversionRow), NEW a \in Units, NEW b \in Units
  PROVE  /\ Search(a, b) \in [0..Cardinality(Units) -> SearchState]
         /\ Search(a, b)[0] = [queue |-> <<[node |-> a, factor |-> 0]>>, visited |-> {a}]
         /\ \A n \in 1..Cardinality(Units) :
              Search(a, b)[n] = IF SearchOver(Search(a, b)[n - 1], b) THEN Search(a, b)[n - 1]
                                ELSE Expand(Search(a, b)[n - 1])
  <1>1. PICK K \in Nat : K = Cardinality(Units) BY UnitsSize
  <1>2. PICK first : first = [queue |-> <<[node |-> a, factor |-> 0]>>, visited |-> {a}] OBVIOUS
  <1>3. first \in SearchState
    <2>1. PICK r \in SearchItem : r = [node |-> a, factor |-> 0]
      <3>1. [node |-> a, factor |-> 0] \in SearchItem BY DEF SearchItem
      <3> QED BY <3>1
    <2>2. <<r>> \in Seq(SearchItem) /\ {a} \in SUBSET Units OBVIOUS
    <2> QED BY <1>2, <2>1, <2>2 DEF SearchState
  <1>4. ASSUME NEW s \in SearchState, ~ SearchOver(s, b) PROVE Expand(s) \in SearchState
    <2>1. s.queue # <<>> BY <1>4 DEF SearchOver
    <2>2. Len(conv) \in Nat /\ Len(conv) \in 0..Len(conv) OBVIOUS
    <2>3. PICK over \in [0..Len(conv) -> SearchState] : Expand(s) = over[Len(conv)] BY <2>1, ExpandIs
    <2> QED BY <2>2, <2>3
  <1>5. PICK g : g = [n \in Nat |-> [s \in SearchState |-> IF SearchOver(s, b) THEN s ELSE Expand(s)]] OBVIOUS
  <1>6. g \in [Nat -> [SearchState -> SearchState]] BY <1>4, <1>5
  <1>7. PICK f : Follows(f, K, SearchState, first, g) BY <1>3, <1>6, RecursionExists
  <1>8. f = [n \in 0..K |-> IF n = 0 THEN first ELSE IF SearchOver(f[n - 1], b) THEN f[n - 1] ELSE Expand(f[n - 1])]
    <2>1. ASSUME NEW n \in 0..K
          PROVE  f[n] = IF n = 0 THEN first ELSE IF SearchOver(f[n - 1], b) THEN f[n - 1] ELSE Expand(f[n - 1])
      <3>1. CASE n = 0 BY <1>7, <3>1 DEF Follows
      <3>2. CASE n # 0
        <4>1. n \in 1..K /\ n - 1 \in 0..K /\ n \in Nat BY <3>2
        <4>2. f[n] = g[n][f[n - 1]] /\ f[n - 1] \in SearchState BY <1>7, <4>1 DEF Follows
        <4> QED BY <1>5, <3>2, <4>1, <4>2
      <3> QED BY <3>1, <3>2
    <2>2. f = [n \in 0..K |-> f[n]] BY <1>7 DEF Follows
    <2> QED BY <2>1, <2>2
  <1>9. PICK at : at = Search(a, b) OBVIOUS
  <1>10. at = [n \in 0..K |-> IF n = 0 THEN first ELSE IF SearchOver(at[n - 1], b) THEN at[n - 1] ELSE Expand(at[n - 1])]
    <2>1. f = [n \in 0..K |-> IF n = 0 THEN first
                              ELSE IF f[n - 1].queue = <<>> \/ Head(f[n - 1].queue).node = b THEN f[n - 1]
                                   ELSE Expand(f[n - 1])]
      BY <1>8, ZenonT(30) DEF SearchOver
    <2>2. at = [n \in 0..K |-> IF n = 0 THEN first
                               ELSE IF at[n - 1].queue = <<>> \/ Head(at[n - 1].queue).node = b THEN at[n - 1]
                                    ELSE Expand(at[n - 1])]
      BY <1>1, <1>2, <1>9, <2>1, ZenonT(30) DEF Search
    <2> QED BY <2>2, ZenonT(30) DEF SearchOver
  <1>11. at[0] = first /\ \A n \in 1..K : at[n] = IF SearchOver(at[n - 1], b) THEN at[n - 1] ELSE Expand(at[n - 1])
    <2>1. 0 \in 0..K /\ \A n \in 1..K : n \in 0..K /\ n # 0 BY <1>1
    <2>2. at[0] = first BY <1>10, <2>1
    <2> QED BY <1>10, <2>1, <2>2
  <1>12. PICK T : T = {n \in Nat : at[n] \in SearchState} OBVIOUS
  <1>13. ASSUME NEW n \in 1..K, n - 1 \in T PROVE n \in T
    <2>1. at[n - 1] \in SearchState BY <1>12, <1>13
    <2>2. at[n] \in SearchState BY <1>4, <1>11, <2>1
    <2> QED BY <1>12, <2>2
  <1>14. \A n \in 0..K : n \in T
    <2>1. 0 \in T BY <1>3, <1>11, <1>12
    <2> QED BY <1>13, <2>1, BoundedInduction
  <1>15. at \in [0..K -> SearchState]
    <2>1. at = [n \in 0..K |-> at[n]] BY <1>10
    <2> QED BY <1>12, <1>14, <2>1
  <1> QED BY <1>1, <1>2, <1>9, <1>11, <1>15

\* The units in the queue, and those that were taken off it.
Queued(s) == {s.queue[i].node : i \in 1..Len(s.queue)}
Expanded(s) == s.visited \ Queued(s)

\* The queue holds units at two distances, the nearer ones first, each once and
\* each with the factor of a path that is not longer than needed.
Frontier(a, s, m) ==
  /\ \A i \in 1..Len(s.queue) : \E n \in {m, m + 1} :
       /\ Distance(a, s.queue[i].node, n)
       /\ <<s.queue[i].node, s.queue[i].factor>> \in Paths(a)[n]
  /\ \A i, j \in 1..Len(s.queue) :
       i <= j /\ Distance(a, s.queue[i].node, m + 1) => Distance(a, s.queue[j].node, m + 1)
  /\ \A i, j \in 1..Len(s.queue) : i # j => s.queue[i].node # s.queue[j].node
  /\ Queued(s) \subseteq s.visited

\* Everything up to the distance m has been seen.
SeenUpTo(a, s, m) == \A v \in Units, d \in 0..Cardinality(Units) : Distance(a, v, d) /\ d <= m => v \in s.visited

\* A unit that is seen first from one at distance m is at distance m + 1.
LEMMA NewIsNext ==
  ASSUME conv \in Seq(ConversionRow), NEW a \in Units, NEW m \in 0..Cardinality(Units), m # Cardinality(Units),
         NEW u \in Units, NEW f \in Int, <<u, f>> \in Paths(a)[m], NEW i \in 1..Len(conv), Touches(conv[i], u),
         NEW s, SeenUpTo(a, s, m), EdgeAt(conv[i], u).to \notin s.visited
  PROVE  /\ Distance(a, EdgeAt(conv[i], u).to, m + 1)
         /\ <<EdgeAt(conv[i], u).to, f + EdgeAt(conv[i], u).factor>> \in Paths(a)[m + 1]
  <1>1. PICK v \in Units : v = EdgeAt(conv[i], u).to BY EdgesTyped
  <1>2. m + 1 \in Hops(a, v) /\ <<v, f + EdgeAt(conv[i], u).factor>> \in Paths(a)[m + 1]
    BY <1>1, PathGoesOn
  <1>3. PICK d \in 0..Cardinality(Units) : Distance(a, v, d) /\ d <= m + 1 BY <1>2, DistanceExists
  <1>4. ~ (d <= m) BY <1>1, <1>3 DEF SeenUpTo
  <1>5. d = m + 1 BY <1>3, <1>4, UnitsSize
  <1> QED BY <1>1, <1>2, <1>3, <1>5

LEMMA VisitKeeps ==
  ASSUME conv \in Seq(ConversionRow), NEW a \in Units, NEW item \in SearchItem,
         NEW m \in 0..Cardinality(Units), m # Cardinality(Units),
         <<item.node, item.factor>> \in Paths(a)[m],
         NEW s \in SearchState, Frontier(a, s, m), SeenUpTo(a, s, m), NEW i \in 1..Len(conv),
         NEW t, t = Visit(item, s, conv[i])
  PROVE  /\ t \in SearchState /\ Frontier(a, t, m) /\ SeenUpTo(a, t, m)
         /\ s.visited \subseteq t.visited /\ Expanded(t) = Expanded(s)
         /\ Touches(conv[i], item.node) => EdgeAt(conv[i], item.node).to \in t.visited
  <1>1. t \in SearchState BY VisitTyped
  <1>2. CASE ~Touches(conv[i], item.node) \/ EdgeAt(conv[i], item.node).to \in s.visited
    BY <1>1, <1>2 DEF Visit
  <1>3. CASE Touches(conv[i], item.node) /\ EdgeAt(conv[i], item.node).to \notin s.visited
    <2>1. item.node \in Units /\ item.factor \in Int BY DEF SearchItem
    <2>2. PICK v, f : v = EdgeAt(conv[i], item.node).to /\ f = item.factor + EdgeAt(conv[i], item.node).factor OBVIOUS
    <2>3. Distance(a, v, m + 1) /\ <<v, f>> \in Paths(a)[m + 1] BY <1>3, <2>1, <2>2, NewIsNext
    <2>4. PICK r : r = [node |-> v, factor |-> f] OBVIOUS
    <2>5. t.queue = Append(s.queue, r) /\ t.visited = s.visited \cup {v} /\ r.node = v /\ r.factor = f
      BY <1>3, <2>2, <2>4 DEF Visit
    <2>6. PICK L \in Nat : L = Len(s.queue) /\ s.queue \in Seq(SearchItem) BY DEF SearchState
    <2>7. /\ Len(t.queue) = L + 1 /\ t.queue[L + 1] = r
          /\ \A j \in 1..L : t.queue[j] = s.queue[j]
      BY <2>5, <2>6, AppendProperties
    <2>8. \A j \in 1..(L + 1) : j \in 1..L \/ j = L + 1 BY <2>6
    <2>9. Queued(t) = Queued(s) \cup {v}
      <3>1. \A j \in 1..L : j \in 1..(L + 1) BY <2>6
      <3>2. L + 1 \in 1..(L + 1) BY <2>6
      <3> QED BY <2>5, <2>6, <2>7, <2>8, <3>1, <3>2 DEF Queued
    <2>10. Expanded(t) = Expanded(s) BY <1>3, <2>2, <2>5, <2>9 DEF Expanded
    <2>11. v \notin Queued(s) BY <1>3, <2>2 DEF Frontier
    <2>12. Frontier(a, t, m)
      <3>1. ASSUME NEW j \in 1..(L + 1)
            PROVE  \E n \in {m, m + 1} : Distance(a, t.queue[j].node, n)
                                         /\ <<t.queue[j].node, t.queue[j].factor>> \in Paths(a)[n]
        <4>1. CASE j \in 1..L BY <2>6, <2>7, <4>1 DEF Frontier
        <4>2. CASE j = L + 1 BY <2>3, <2>5, <2>7, <4>2
        <4> QED BY <2>8, <4>1, <4>2
      <3>2. ASSUME NEW j \in 1..(L + 1), NEW k \in 1..(L + 1), j <= k, Distance(a, t.queue[j].node, m + 1)
            PROVE  Distance(a, t.queue[k].node, m + 1)
        <4>1. CASE k = L + 1 BY <2>3, <2>5, <2>7, <4>1
        <4>2. CASE k # L + 1
          <5>1. j \in 1..L /\ k \in 1..L BY <2>6, <3>2, <4>2
          <5> QED BY <2>6, <2>7, <3>2, <5>1 DEF Frontier
        <4> QED BY <4>1, <4>2
      <3>3. ASSUME NEW j \in 1..(L + 1), NEW k \in 1..(L + 1), j # k
            PROVE  t.queue[j].node # t.queue[k].node
        <4>1. \A l \in 1..L : t.queue[l].node # v BY <2>6, <2>7, <2>11 DEF Queued
        <4>2. CASE j \in 1..L /\ k \in 1..L BY <2>6, <2>7, <3>3, <4>2 DEF Frontier
        <4>3. CASE j = L + 1 /\ k \in 1..L BY <2>5, <2>7, <4>1, <4>3
        <4>4. CASE k = L + 1 /\ j \in 1..L BY <2>5, <2>7, <4>1, <4>4
        <4> QED BY <2>8, <3>3, <4>2, <4>3, <4>4
      <3>4. Queued(t) \subseteq t.visited BY <2>5, <2>9 DEF Frontier
      <3> QED BY <2>7, <3>1, <3>2, <3>3, <3>4 DEF Frontier
    <2>13. SeenUpTo(a, t, m) BY <2>5 DEF SeenUpTo
    <2> QED BY <1>1, <2>2, <2>5, <2>10, <2>12, <2>13
  <1> QED BY <1>2, <1>3

\* The head is taken off the queue.
LEMMA TailKeeps ==
  ASSUME NEW a \in Units, NEW s \in SearchState, s.queue # <<>>, NEW m, Frontier(a, s, m), SeenUpTo(a, s, m),
         NEW t, t = [queue |-> Tail(s.queue), visited |-> s.visited]
  PROVE  /\ t \in SearchState /\ Frontier(a, t, m) /\ SeenUpTo(a, t, m)
         /\ Head(s.queue) = s.queue[1] /\ s.queue[1] \in SearchItem /\ 1 \in 1..Len(s.queue)
         /\ s.queue[1].node \notin Expanded(s)
         /\ Expanded(t) = Expanded(s) \cup {s.queue[1].node}
  <1>1. PICK q \in Seq(SearchItem) : q = s.queue /\ q # <<>> BY DEF SearchState
  <1>2. PICK L \in Nat : L = Len(q) /\ L # 0 BY <1>1
  <1>3. PICK p \in Seq(SearchItem) : p = Tail(q)
    <2>1. Tail(q) \in Seq(SearchItem) BY <1>1
    <2> QED BY <2>1
  <1>4. Len(p) = L - 1 /\ \A i \in 1..(L - 1) : p[i] = q[i + 1] /\ i + 1 \in 1..L BY <1>1, <1>2, <1>3
  <1>5. Head(q) = q[1] /\ q[1] \in SearchItem /\ 1 \in 1..L BY <1>1, <1>2
  <1>6. t.queue = p /\ t.visited = s.visited BY <1>1, <1>3
  <1>7. t \in SearchState BY <1>1, <1>3 DEF SearchState
  <1>8. \A i \in 1..L : i = 1 \/ \E j \in 1..(L - 1) : i = j + 1 /\ p[j] = q[i]
    <2> TAKE i \in 1..L
    <2>1. CASE i # 1
      <3>1. i - 1 \in 1..(L - 1) /\ i = (i - 1) + 1 BY <1>2, <2>1
      <3> QED BY <1>4, <3>1
    <2> QED BY <2>1
  <1>9. Queued(s) = Queued(t) \cup {q[1].node}
    <2>1. Queued(s) = {q[i].node : i \in 1..L} BY <1>1, <1>2 DEF Queued
    <2>2. Queued(t) = {p[i].node : i \in 1..(L - 1)} BY <1>4, <1>6 DEF Queued
    <2>3. ASSUME NEW i \in 1..L PROVE q[i].node \in Queued(t) \cup {q[1].node}
      BY <1>8, <2>2
    <2>4. ASSUME NEW j \in 1..(L - 1) PROVE p[j].node \in Queued(s)
      BY <1>4, <2>1
    <2>5. \A y \in Queued(s) : y \in Queued(t) \cup {q[1].node} BY <2>1, <2>3
    <2>6. \A y \in Queued(t) : y \in Queued(s) BY <2>2, <2>4
    <2>7. q[1].node \in Queued(s) BY <1>5, <2>1
    <2> QED BY <2>5, <2>6, <2>7
  <1>10. q[1].node \notin Queued(t)
    <2>1. Queued(t) = {p[i].node : i \in 1..(L - 1)} BY <1>4, <1>6 DEF Queued
    <2>2. ASSUME NEW i \in 1..(L - 1) PROVE p[i].node # q[1].node
      <3>1. i + 1 # 1 /\ i + 1 \in 1..L /\ p[i] = q[i + 1] BY <1>2, <1>4
      <3> QED BY <1>1, <1>2, <1>5, <3>1 DEF Frontier
    <2> QED BY <2>1, <2>2
  <1>11. Frontier(a, t, m)
    <2>1. ASSUME NEW i \in 1..(L - 1)
          PROVE  \E n \in {m, m + 1} : Distance(a, p[i].node, n) /\ <<p[i].node, p[i].factor>> \in Paths(a)[n]
      <3>1. i + 1 \in 1..L /\ p[i] = q[i + 1] BY <1>4
      <3> QED BY <1>1, <1>2, <3>1 DEF Frontier
    <2>2. ASSUME NEW i \in 1..(L - 1), NEW j \in 1..(L - 1), i <= j, Distance(a, p[i].node, m + 1)
          PROVE  Distance(a, p[j].node, m + 1)
      <3>1. i + 1 \in 1..L /\ p[i] = q[i + 1] /\ j + 1 \in 1..L /\ p[j] = q[j + 1] /\ i + 1 <= j + 1
        BY <1>4, <2>2
      <3>2. Distance(a, q[i + 1].node, m + 1) BY <2>2, <3>1
      <3>3. Distance(a, q[j + 1].node, m + 1) BY <1>1, <1>2, <3>1, <3>2 DEF Frontier
      <3> QED BY <3>1, <3>3
    <2>3. ASSUME NEW i \in 1..(L - 1), NEW j \in 1..(L - 1), i # j
          PROVE  p[i].node # p[j].node
      <3>1. i + 1 \in 1..L /\ p[i] = q[i + 1] /\ j + 1 \in 1..L /\ p[j] = q[j + 1] /\ i + 1 # j + 1
        BY <1>4, <2>3
      <3> QED BY <1>1, <1>2, <3>1 DEF Frontier
    <2>4. Queued(t) \subseteq t.visited BY <1>6, <1>9 DEF Frontier
    <2>5. \A i \in 1..Len(t.queue) : i \in 1..(L - 1) /\ t.queue[i] = p[i] BY <1>4, <1>6
    <2>6. \A i \in 1..Len(t.queue) : \E n \in {m, m + 1} :
            Distance(a, t.queue[i].node, n) /\ <<t.queue[i].node, t.queue[i].factor>> \in Paths(a)[n]
      BY <2>1, <2>5
    <2>7. ASSUME NEW i \in 1..Len(t.queue), NEW j \in 1..Len(t.queue), i <= j, Distance(a, t.queue[i].node, m + 1)
          PROVE  Distance(a, t.queue[j].node, m + 1)
      <3>1. i \in 1..(L - 1) /\ j \in 1..(L - 1) /\ t.queue[i] = p[i] /\ t.queue[j] = p[j] BY <2>5
      <3> QED BY <2>2, <2>7, <3>1
    <2>8. ASSUME NEW i \in 1..Len(t.queue), NEW j \in 1..Len(t.queue), i # j
          PROVE  t.queue[i].node # t.queue[j].node
      <3>1. i \in 1..(L - 1) /\ j \in 1..(L - 1) /\ t.queue[i] = p[i] /\ t.queue[j] = p[j] BY <2>5
      <3> QED BY <2>3, <2>8, <3>1
    <2> QED BY <2>4, <2>6, <2>7, <2>8, Zenon DEF Frontier
  <1>12. SeenUpTo(a, t, m) BY <1>6 DEF SeenUpTo
  <1>13. q[1].node \in s.visited BY <1>9 DEF Frontier
  <1> QED BY <1>1, <1>2, <1>5, <1>6, <1>7, <1>9, <1>10, <1>11, <1>12, <1>13 DEF Expanded

\* One turn of the outer loop: the head is expanded, all its neighbours are seen.
LEMMA ExpandKeeps ==
  ASSUME conv \in Seq(ConversionRow), NEW a \in Units, NEW s \in SearchState, s.queue # <<>>,
         NEW m \in 0..Cardinality(Units), m # Cardinality(Units),
         Distance(a, s.queue[1].node, m), Frontier(a, s, m), SeenUpTo(a, s, m), NEW t, t = Expand(s)
  PROVE  /\ t \in SearchState /\ Frontier(a, t, m) /\ SeenUpTo(a, t, m) /\ s.visited \subseteq t.visited
         /\ s.queue[1].node \notin Expanded(s)
         /\ Expanded(t) = Expanded(s) \cup {s.queue[1].node}
         /\ \A v : Adjacent(s.queue[1].node, v) => v \in t.visited
  <1>1. PICK first : first = [queue |-> Tail(s.queue), visited |-> s.visited] OBVIOUS
  <1>2. PICK item \in SearchItem : item = s.queue[1] /\ item = Head(s.queue) BY <1>1, TailKeeps
  <1>3. /\ first \in SearchState /\ Frontier(a, first, m) /\ SeenUpTo(a, first, m)
        /\ item.node \notin Expanded(s) /\ Expanded(first) = Expanded(s) \cup {item.node}
        /\ first.visited = s.visited /\ 1 \in 1..Len(s.queue)
    BY <1>1, <1>2, TailKeeps
  <1>4. <<item.node, item.factor>> \in Paths(a)[m]
    <2>1. PICK n \in {m, m + 1} : Distance(a, item.node, n) /\ <<item.node, item.factor>> \in Paths(a)[n]
      BY <1>2, <1>3 DEF Frontier
    <2>2. n = m BY <1>2, <2>1, DistanceIsOne
    <2> QED BY <2>1, <2>2
  <1>5. PICK K \in Nat : K = Len(conv) OBVIOUS
  <1>6. PICK over \in [0..K -> SearchState] :
           /\ over[0] = first /\ Expand(s) = over[K]
           /\ \A n \in 1..K : over[n] = Visit(item, over[n - 1], conv[n])
    <2>1. PICK over \in [0..Len(conv) -> SearchState] :
             /\ over[0] = [queue |-> Tail(s.queue), visited |-> s.visited]
             /\ \A n \in 1..Len(conv) : over[n] = Visit(Head(s.queue), over[n - 1], conv[n])
             /\ Expand(s) = over[Len(conv)]
      BY ExpandIs
    <2> QED BY <1>1, <1>2, <1>5, <2>1
  <1> DEFINE Good(n) ==
        /\ Frontier(a, over[n], m) /\ SeenUpTo(a, over[n], m)
        /\ s.visited \subseteq over[n].visited /\ Expanded(over[n]) = Expanded(first)
        /\ \A j \in 1..n : Touches(conv[j], item.node) => EdgeAt(conv[j], item.node).to \in over[n].visited
  <1>7. PICK T : T = {n \in 0..K : Good(n)} OBVIOUS
  <1>8. 0 \in T
    <2>1. Good(0) BY <1>3, <1>6
    <2> QED BY <1>5, <1>7, <2>1
  <1>9. ASSUME NEW n \in 1..K, n - 1 \in T PROVE n \in T
    <2>1. Good(n - 1) /\ n - 1 \in 0..K BY <1>7, <1>9
    <2>2. PICK r \in SearchState : r = over[n - 1] BY <1>6, <2>1
    <2>3. PICK w : w = over[n] /\ w = Visit(item, r, conv[n]) BY <1>6, <2>2
    <2>4. Frontier(a, r, m) /\ SeenUpTo(a, r, m) BY <2>1, <2>2
    <2>5. /\ Frontier(a, w, m) /\ SeenUpTo(a, w, m) /\ r.visited \subseteq w.visited /\ Expanded(w) = Expanded(r)
          /\ Touches(conv[n], item.node) => EdgeAt(conv[n], item.node).to \in w.visited
      BY <1>4, <1>5, <2>2, <2>3, <2>4, VisitKeeps
    <2>6. \A j \in 1..n : j \in 1..(n - 1) \/ j = n OBVIOUS
    <2>7. \A j \in 1..n : Touches(conv[j], item.node) => EdgeAt(conv[j], item.node).to \in w.visited
      BY <2>1, <2>2, <2>5, <2>6
    <2>8. Good(n) BY <2>1, <2>2, <2>3, <2>5, <2>7
    <2> QED BY <1>7, <2>8
  <1>10. \A n \in 0..K : n \in T BY <1>8, <1>9, BoundedInduction
  <1>11. K \in 0..K BY <1>5
  <1>12. Good(K) BY <1>7, <1>10, <1>11
  <1>13. t = over[K] /\ t \in SearchState BY <1>6, <1>11
  <1>14. ASSUME NEW v, Adjacent(item.node, v) PROVE v \in t.visited
    BY <1>5, <1>12, <1>13, <1>14 DEF Adjacent
  <1> QED BY <1>2, <1>3, <1>12, <1>13, <1>14

\* When the units at distance m have left the queue, those at m + 1 have all been seen.
LEMMA FrontierMoves ==
  ASSUME conv \in Seq(ConversionRow), NEW a \in Units, NEW t \in SearchState, t.queue # <<>>,
         NEW m \in 0..Cardinality(Units), Frontier(a, t, m), SeenUpTo(a, t, m),
         Distance(a, t.queue[1].node, m + 1),
         \A u \in Expanded(t) : \A v : Adjacent(u, v) => v \in t.visited
  PROVE  Frontier(a, t, m + 1) /\ SeenUpTo(a, t, m + 1)
  <1>1. PICK L \in Nat : L = Len(t.queue) /\ 1 \in 1..L BY DEF SearchState
  <1>2. \A i \in 1..L : Distance(a, t.queue[i].node, m + 1)
    <2>1. \A i \in 1..L : 1 <= i BY <1>1
    <2> QED BY <1>1, <2>1 DEF Frontier
  <1>3. ASSUME NEW i \in 1..L, NEW n, Distance(a, t.queue[i].node, n) PROVE n = m + 1
    BY <1>2, <1>3, DistanceIsOne
  <1>4. Frontier(a, t, m + 1)
    <2>1. ASSUME NEW i \in 1..L
          PROVE  <<t.queue[i].node, t.queue[i].factor>> \in Paths(a)[m + 1]
      <3>1. PICK n \in {m, m + 1} : Distance(a, t.queue[i].node, n)
                                    /\ <<t.queue[i].node, t.queue[i].factor>> \in Paths(a)[n]
        BY <1>1 DEF Frontier
      <3>2. n = m + 1 BY <1>3, <3>1
      <3> QED BY <3>1, <3>2
    <2>2. ASSUME NEW i \in 1..L PROVE ~ Distance(a, t.queue[i].node, (m + 1) + 1)
      <3>1. (m + 1) + 1 # m + 1 BY UnitsSize
      <3> QED BY <1>3, <3>1
    <2>3. \A i, j \in 1..L : i # j => t.queue[i].node # t.queue[j].node BY <1>1 DEF Frontier
    <2>4. Queued(t) \subseteq t.visited BY DEF Frontier
    <2>5. \A i \in 1..L : \E n \in {m + 1, (m + 1) + 1} :
            Distance(a, t.queue[i].node, n) /\ <<t.queue[i].node, t.queue[i].factor>> \in Paths(a)[n]
      BY <1>2, <2>1
    <2> QED BY <1>1, <2>2, <2>3, <2>4, <2>5, Zenon DEF Frontier
  <1>5. ASSUME NEW v \in Units, NEW d \in 0..Cardinality(Units), Distance(a, v, d), d <= m + 1
        PROVE  v \in t.visited
    <2>1. CASE d <= m BY <1>5, <2>1 DEF SeenUpTo
    <2>2. CASE ~ (d <= m)
      <3>1. d = m + 1 /\ d # 0 BY <1>5, <2>2, UnitsSize
      <3>2. PICK u \in Units, k \in 0..Cardinality(Units) : Distance(a, u, k) /\ k < d /\ Adjacent(u, v)
        BY <1>5, <3>1, DistanceComesFrom
      <3>3. k <= m /\ k # m + 1 BY <3>1, <3>2, UnitsSize
      <3>4. u \in t.visited BY <3>2, <3>3 DEF SeenUpTo
      <3>5. u \notin Queued(t) BY <1>1, <1>3, <3>2, <3>3 DEF Queued
      <3> QED BY <3>2, <3>4, <3>5 DEF Expanded
    <2> QED BY <2>1, <2>2
  <1> QED BY <1>4, <1>5 DEF SeenUpTo

\* What holds after n turns of the search from a for b.
SearchInv(a, b, s, n) ==
  /\ s \in SearchState
  /\ a \in s.visited
  /\ b \notin Expanded(s)
  /\ \A u \in Expanded(s) : \A v : Adjacent(u, v) => v \in s.visited
  /\ s.queue # <<>> => \E m \in 0..n : Distance(a, s.queue[1].node, m) /\ Frontier(a, s, m) /\ SeenUpTo(a, s, m)
  /\ ~ SearchOver(s, b) => Cardinality(Expanded(s)) = n

LEMMA SearchStarts ==
  ASSUME conv \in Seq(ConversionRow), NEW a \in Units, NEW b \in Units, NEW s, s = Search(a, b)[0]
  PROVE  SearchInv(a, b, s, 0)
  <1>1. 0 \in 0..Cardinality(Units) BY UnitsSize
  <1>2. PICK r : r = [node |-> a, factor |-> 0] OBVIOUS
  <1>3. s \in SearchState /\ s.queue = <<r>> /\ s.visited = {a} /\ r.node = a /\ r.factor = 0
    <2>1. /\ Search(a, b) \in [0..Cardinality(Units) -> SearchState]
          /\ Search(a, b)[0] = [queue |-> <<[node |-> a, factor |-> 0]>>, visited |-> {a}]
      BY SearchIs, Zenon
    <2>2. s \in SearchState BY <1>1, <2>1
    <2> QED BY <1>2, <2>1, <2>2
  <1>4. Len(s.queue) = 1 /\ s.queue[1] = r /\ \A i \in 1..Len(s.queue) : i = 1 BY <1>3
  <1>5. Queued(s) = {a} BY <1>3, <1>4 DEF Queued
  <1>6. Expanded(s) = {} BY <1>3, <1>5 DEF Expanded
  <1>7. Paths(a)[0] = {<<a, 0>>} BY PathsAre, Zenon
  <1>8. Distance(a, a, 0)
    <2>1. PICK x \in Paths(a)[0] : x = <<a, 0>> BY <1>7
    <2>2. x[1] = a BY <2>1
    <2>3. 0 \in Hops(a, a) BY <1>1, <2>1, <2>2 DEF Hops
    <2>4. \A k \in Hops(a, a) : 0 <= k BY UnitsSize DEF Hops
    <2> QED BY <2>3, <2>4 DEF Distance
  <1>9. Frontier(a, s, 0)
    <2>1. \A i \in 1..Len(s.queue) : Distance(a, s.queue[i].node, 0)
                                     /\ <<s.queue[i].node, s.queue[i].factor>> \in Paths(a)[0]
      BY <1>3, <1>4, <1>7, <1>8
    <2>2. \A i, j \in 1..Len(s.queue) : i = j BY <1>4
    <2>3. Queued(s) \subseteq s.visited BY <1>3, <1>5
    <2> QED BY <2>1, <2>2, <2>3, Zenon DEF Frontier
  <1>10. ASSUME NEW v \in Units, NEW d \in 0..Cardinality(Units), Distance(a, v, d), d <= 0 PROVE v \in s.visited
    <2>1. d = 0 BY <1>10, UnitsSize
    <2>2. PICK x \in Paths(a)[0] : x[1] = v BY <1>10, <2>1 DEF Distance, Hops
    <2> QED BY <1>3, <1>7, <2>2
  <1>11. SeenUpTo(a, s, 0) BY <1>10 DEF SeenUpTo
  <1>12. Cardinality(Expanded(s)) = 0 BY <1>6, FS_EmptySet
  <1>13. 0 \in 0..0 OBVIOUS
  <1>14. Distance(a, s.queue[1].node, 0) BY <1>3, <1>4, <1>8
  <1> QED BY <1>3, <1>6, <1>9, <1>11, <1>12, <1>13, <1>14 DEF SearchInv

LEMMA SearchGoesOn ==
  ASSUME conv \in Seq(ConversionRow), NEW a \in Units, NEW b \in Units, NEW n \in 1..Cardinality(Units),
         NEW s, SearchInv(a, b, s, n - 1), ~ SearchOver(s, b), NEW t, t = Expand(s)
  PROVE  SearchInv(a, b, t, n)
  <1>1. s.queue # <<>> /\ s \in SearchState BY DEF SearchOver, SearchInv
  <1>2. PICK m \in 0..(n - 1) : Distance(a, s.queue[1].node, m) /\ Frontier(a, s, m) /\ SeenUpTo(a, s, m)
    BY <1>1 DEF SearchInv
  <1>3. /\ m \in 0..Cardinality(Units) /\ m # Cardinality(Units) /\ m \in 0..n /\ m + 1 \in 0..n
    BY <1>2, UnitsSize
  <1>4. PICK h : h = s.queue[1].node OBVIOUS
  <1>5. /\ t \in SearchState /\ Frontier(a, t, m) /\ SeenUpTo(a, t, m) /\ s.visited \subseteq t.visited
        /\ h \notin Expanded(s) /\ Expanded(t) = Expanded(s) \cup {h}
        /\ \A v : Adjacent(h, v) => v \in t.visited
    BY <1>1, <1>2, <1>3, <1>4, ExpandKeeps
  <1>6. h # b
    <2>1. Head(s.queue) = s.queue[1] BY <1>1 DEF SearchState
    <2> QED BY <1>4, <2>1 DEF SearchOver
  <1>7. a \in t.visited /\ b \notin Expanded(t) BY <1>5, <1>6 DEF SearchInv
  <1>8. \A u \in Expanded(t) : \A v : Adjacent(u, v) => v \in t.visited
    BY <1>5 DEF SearchInv
  <1>9. Cardinality(Expanded(t)) = n
    <2>1. Expanded(s) \subseteq Units BY <1>1 DEF Expanded, SearchState
    <2>2. IsFiniteSet(Expanded(s)) BY <2>1, UnitsFinite, FS_Subset
    <2>3. Cardinality(Expanded(t)) = Cardinality(Expanded(s)) + 1 BY <1>5, <2>2, FS_AddElement
    <2>4. Cardinality(Expanded(s)) = n - 1 BY DEF SearchInv
    <2> QED BY <2>3, <2>4
  <1>10. ASSUME t.queue # <<>>
         PROVE  \E k \in 0..n : Distance(a, t.queue[1].node, k) /\ Frontier(a, t, k) /\ SeenUpTo(a, t, k)
    <2>1. 1 \in 1..Len(t.queue) BY <1>5, <1>10 DEF SearchState
    <2>2. PICK k \in {m, m + 1} : Distance(a, t.queue[1].node, k) BY <1>5, <2>1 DEF Frontier
    <2>3. CASE k = m BY <1>3, <1>5, <2>2, <2>3
    <2>4. CASE k = m + 1
      <3>1. Distance(a, t.queue[1].node, m + 1) BY <2>2, <2>4
      <3>2. Frontier(a, t, m + 1) /\ SeenUpTo(a, t, m + 1) BY <1>3, <1>5, <1>8, <1>10, <3>1, FrontierMoves
      <3> QED BY <1>3, <3>1, <3>2
    <2> QED BY <2>2, <2>3, <2>4
  <1> QED BY <1>5, <1>7, <1>8, <1>9, <1>10 DEF SearchInv

LEMMA SearchKeeps ==
  ASSUME conv \in Seq(ConversionRow), NEW a \in Units, NEW b \in Units
  PROVE  SearchInv(a, b, Search(a, b)[Cardinality(Units)], Cardinality(Units))
  <1>1. PICK K \in Nat : K = Cardinality(Units) BY UnitsSize
  <1>2. PICK at : at = Search(a, b) OBVIOUS
  <1>3. PICK T : T = {n \in Nat : SearchInv(a, b, at[n], n)} OBVIOUS
  <1>4. 0 \in T BY <1>2, <1>3, SearchStarts
  <1>5. ASSUME NEW n \in 1..K, n - 1 \in T PROVE n \in T
    <2>1. PICK s : s = at[n - 1] OBVIOUS
    <2>2. SearchInv(a, b, s, n - 1) BY <1>3, <1>5, <2>1
    <2>3. at[n] = IF SearchOver(s, b) THEN s ELSE Expand(s) BY <1>1, <1>2, <2>1, SearchIs, Zenon
    <2>4. CASE SearchOver(s, b)
      <3>1. \A m \in 0..(n - 1) : m \in 0..n OBVIOUS
      <3>2. SearchInv(a, b, s, n) BY <2>2, <2>4, <3>1, Zenon DEF SearchInv
      <3> QED BY <1>3, <2>3, <2>4, <3>2
    <2>5. CASE ~ SearchOver(s, b)
      <3>1. SearchInv(a, b, Expand(s), n) BY <1>1, <2>2, <2>5, SearchGoesOn
      <3> QED BY <1>3, <2>3, <2>5, <3>1
    <2> QED BY <2>4, <2>5
  <1>6. \A n \in 0..K : n \in T BY <1>4, <1>5, BoundedInduction
  <1>7. K \in T BY <1>6
  <1> QED BY <1>1, <1>2, <1>3, <1>7

\* After as many turns as there are units the search is over.
LEMMA SearchEnds ==
  ASSUME conv \in Seq(ConversionRow), NEW a \in Units, NEW b \in Units, NEW s,
         SearchInv(a, b, s, Cardinality(Units))
  PROVE  SearchOver(s, b)
  <1> SUFFICES ASSUME ~ SearchOver(s, b) PROVE FALSE OBVIOUS
  <1>1. Cardinality(Expanded(s)) = Cardinality(Units) /\ b \notin Expanded(s) BY DEF SearchInv
  <1>2. Expanded(s) \subseteq Units BY DEF SearchInv, Expanded, SearchState
  <1>3. Expanded(s) = Units BY <1>1, <1>2, UnitsFinite, FS_Subset
  <1> QED BY <1>1, <1>3

\* A search that ends with an empty queue has seen all that a leads to.
LEMMA EmptySearch ==
  ASSUME conv \in Seq(ConversionRow), NEW a \in Units, NEW b \in Units, NEW s, NEW n,
         SearchInv(a, b, s, n), s.queue = <<>>
  PROVE  Hops(a, b) = {}
  <1>1. PICK K \in Nat : K = Cardinality(Units) BY UnitsSize
  <1>2. Expanded(s) = s.visited
    <2>1. \A i : i \notin 1..Len(s.queue) OBVIOUS
    <2>2. Queued(s) = {} BY <2>1 DEF Queued
    <2> QED BY <2>2 DEF Expanded
  <1>3. PICK T : T = {k \in Nat : \A x \in Paths(a)[k] : x[1] \in s.visited} OBVIOUS
  <1>4. 0 \in T
    <2>1. Paths(a)[0] = {<<a, 0>>} BY PathsAre, Zenon
    <2>2. \A x \in Paths(a)[0] : x[1] = a BY <2>1
    <2> QED BY <1>3, <2>2 DEF SearchInv
  <1>5. ASSUME NEW k \in 1..K, k - 1 \in T PROVE k \in T
    <2>1. k - 1 \in 0..K BY <1>5
    <2>2. Paths(a)[k - 1] \in SUBSET (Units \X Int) /\ Paths(a)[k] = Onward(Paths(a)[k - 1])
      BY <1>1, <1>5, <2>1, PathsAre
    <2>3. ASSUME NEW y \in Paths(a)[k] PROVE y[1] \in s.visited
      <3>1. PICK x \in Paths(a)[k - 1] : Adjacent(x[1], y[1]) BY <2>2, OnwardIs
      <3>2. x[1] \in s.visited BY <1>3, <1>5, <3>1
      <3> QED BY <1>2, <3>1, <3>2 DEF SearchInv
    <2> QED BY <1>3, <1>5, <2>3
  <1>6. \A k \in 0..K : k \in T BY <1>4, <1>5, BoundedInduction
  <1>7. b \notin s.visited BY <1>2 DEF SearchInv
  <1> QED BY <1>1, <1>3, <1>6, <1>7 DEF Hops

LEMMA ConvertIsRight ==
  ASSUME CatalogTypeOK PROVE ConvertTakesShortestPath
  <1> SUFFICES ASSUME NEW a \in Units, NEW b \in Units
               PROVE  IF Hops(a, b) = {} THEN Convert(a, b) = Missing
                      ELSE \E n \in Hops(a, b) : (\A m \in Hops(a, b) : n <= m) /\ <<b, Convert(a, b)>> \in Paths(a)[n]
    BY DEF ConvertTakesShortestPath
  <1>1. conv \in Seq(ConversionRow) BY DEF CatalogTypeOK
  <1>2. PICK s : s = Search(a, b)[Cardinality(Units)] OBVIOUS
  <1>3. SearchInv(a, b, s, Cardinality(Units)) BY <1>1, <1>2, SearchKeeps
  <1>4. Convert(a, b) = IF s.queue = <<>> THEN Missing ELSE Head(s.queue).factor BY <1>2 DEF Convert
  <1>5. CASE s.queue = <<>> BY <1>1, <1>3, <1>4, <1>5, EmptySearch
  <1>6. CASE s.queue # <<>>
    <2>1. SearchOver(s, b) BY <1>1, <1>3, SearchEnds
    <2>2. Head(s.queue) = s.queue[1] /\ 1 \in 1..Len(s.queue) BY <1>3, <1>6 DEF SearchInv, SearchState
    <2>3. s.queue[1].node = b /\ Convert(a, b) = s.queue[1].factor BY <1>4, <1>6, <2>1, <2>2 DEF SearchOver
    <2>4. PICK m : Frontier(a, s, m) BY <1>3, <1>6 DEF SearchInv
    <2>5. PICK n : Distance(a, b, n) /\ <<b, Convert(a, b)>> \in Paths(a)[n] BY <2>2, <2>3, <2>4, Zenon DEF Frontier
    <2> QED BY <2>5 DEF Distance
  <1> QED BY <1>5, <1>6

\* ConvertQuantity answers exactly when usable rows connect the two units, and
\* with the product of the factors along a path of the fewest conversions, for
\* every set of units and whatever conversions have been created.
THEOREM ConvertAlwaysShortest == MasterSpec => []ConvertTakesShortestPath
  <1>1. MasterInv => ConvertTakesShortestPath BY ConvertIsRight DEF MasterInv, CatalogInv, CatalogShape
  <1> QED BY <1>1, MasterInvariance, PTL

-----------------------------------------------------------------------------
(* The page walk of ListParties.                                           *)

\* The rows that each party has in the list, and those of the n oldest together.
RowCounts(type) == [p \in Creations |-> IF type = Unset THEN 1 ELSE RowsOf(p, type)]
Tally(b, c) ==
  LET tally[n \in 0..Len(b)] == IF n = 0 THEN 0 ELSE tally[n - 1] + c[b[n]] IN tally

\* The rows that the list has before those of the n-th party: the newest are first.
Before(b, c, n) == Tally(b, c)[Len(b)] - Tally(b, c)[n]

LEMMA TallyIs ==
  ASSUME NEW b \in Seq(Creations), NEW c \in [Creations -> Nat]
  PROVE  /\ Tally(b, c) \in [0..Len(b) -> Nat]
         /\ Tally(b, c)[0] = 0
         /\ \A n \in 1..Len(b) : Tally(b, c)[n] = Tally(b, c)[n - 1] + c[b[n]]
  <1>1. PICK K \in Nat : K = Len(b) OBVIOUS
  <1>2. \A n \in 1..K : b[n] \in Creations /\ c[b[n]] \in Nat BY <1>1
  <1>3. PICK g : g = [n \in Nat |-> [x \in Nat |-> IF n \in 1..K THEN x + c[b[n]] ELSE x]] OBVIOUS
  <1>4. g \in [Nat -> [Nat -> Nat]]
    <2>1. \A n, x \in Nat : (IF n \in 1..K THEN x + c[b[n]] ELSE x) \in Nat BY <1>2
    <2> QED BY <1>3, <2>1
  <1>5. PICK f : Follows(f, K, Nat, 0, g) BY <1>4, RecursionExists
  <1>6. f = [n \in 0..K |-> IF n = 0 THEN 0 ELSE f[n - 1] + c[b[n]]]
    <2>1. ASSUME NEW n \in 0..K PROVE f[n] = IF n = 0 THEN 0 ELSE f[n - 1] + c[b[n]]
      <3>1. CASE n = 0 BY <1>5, <3>1 DEF Follows
      <3>2. CASE n # 0
        <4>1. n \in 1..K /\ n - 1 \in 0..K /\ n \in Nat BY <3>2
        <4>2. f[n] = g[n][f[n - 1]] /\ f[n - 1] \in Nat BY <1>5, <4>1 DEF Follows
        <4> QED BY <1>3, <3>2, <4>1, <4>2
      <3> QED BY <3>1, <3>2
    <2>2. f = [n \in 0..K |-> f[n]] BY <1>5 DEF Follows
    <2> QED BY <2>1, <2>2
  <1>7. PICK at : at = Tally(b, c) OBVIOUS
  <1>8. at = [n \in 0..K |-> IF n = 0 THEN 0 ELSE at[n - 1] + c[b[n]]] BY <1>1, <1>6, <1>7 DEF Tally
  <1>9. at[0] = 0 /\ \A n \in 1..K : at[n] = at[n - 1] + c[b[n]]
    <2>1. 0 \in 0..K /\ \A n \in 1..K : n \in 0..K /\ n # 0 BY <1>1
    <2>2. at[0] = 0 BY <1>8, <2>1
    <2> QED BY <1>8, <2>1, <2>2
  <1>10. PICK T : T = {n \in Nat : at[n] \in Nat} OBVIOUS
  <1>11. ASSUME NEW n \in 1..K, n - 1 \in T PROVE n \in T
    <2>1. at[n - 1] \in Nat BY <1>10, <1>11
    <2>2. at[n] \in Nat BY <1>2, <1>9, <2>1
    <2> QED BY <1>10, <2>2
  <1>12. \A n \in 0..K : n \in T
    <2>1. 0 \in T BY <1>9, <1>10
    <2> QED BY <1>11, <2>1, BoundedInduction
  <1>13. at \in [0..K -> Nat]
    <2>1. at = [n \in 0..K |-> at[n]] BY <1>8
    <2> QED BY <1>10, <1>12, <2>1
  <1> QED BY <1>1, <1>7, <1>9, <1>13

LEMMA GrowthStep ==
  \A i, j, k, l, x, y \in Nat : i <= k /\ k - i <= l - j /\ x <= y => i <= k + x /\ (k + x) - i <= (l + y) - j
  OBVIOUS

LEMMA NoGrowth == \A i, j \in Nat : i <= i /\ i - i <= j - j
  OBVIOUS

\* When parties are added and none has fewer rows, no party has fewer rows before it.
LEMMA TallyGrows ==
  ASSUME NEW b \in Seq(Creations), NEW c \in [Creations -> Nat],
         NEW d \in Seq(Creations), NEW e \in [Creations -> Nat],
         Len(b) <= Len(d), \A n \in 1..Len(b) : d[n] = b[n],
         \A p \in Creations : c[p] <= e[p], NEW k \in 0..Len(b)
  PROVE  /\ Before(b, c, k) \in Nat
         /\ Before(b, c, k) <= Before(d, e, k)
  <1>1. PICK K \in Nat, L \in Nat : K = Len(b) /\ L = Len(d) OBVIOUS
  <1>2. PICK f \in [0..K -> Nat] : f = Tally(b, c) BY <1>1, TallyIs
  <1>3. PICK h \in [0..L -> Nat] : h = Tally(d, e) BY <1>1, TallyIs
  <1>4. \A n \in 1..K : f[n] = f[n - 1] + c[b[n]] BY <1>1, <1>2, TallyIs
  <1>5. \A n \in 1..L : h[n] = h[n - 1] + e[d[n]] BY <1>1, <1>3, TallyIs
  <1>6. k \in 0..K /\ k \in 0..L /\ K \in 0..K /\ K \in 0..L /\ L \in 0..L /\ K <= L BY <1>1
  <1>7. f[k] \in Nat /\ f[K] \in Nat /\ h[k] \in Nat /\ h[K] \in Nat /\ h[L] \in Nat BY <1>2, <1>3, <1>6
  <1>8. f[k] <= f[K] /\ f[K] - f[k] <= h[K] - h[k]
    <2>1. PICK T : T = {n \in 0..K : n >= k => f[k] <= f[n] /\ f[n] - f[k] <= h[n] - h[k]} OBVIOUS
    <2>2. 0 \in T BY <1>6, <1>7, <2>1
    <2>3. ASSUME NEW n \in 1..K, n - 1 \in T PROVE n \in T
      <3>1. SUFFICES ASSUME n >= k PROVE f[k] <= f[n] /\ f[n] - f[k] <= h[n] - h[k] BY <2>1
      <3>2. n - 1 \in 0..K /\ n \in 0..K /\ n - 1 \in 0..L /\ n \in 0..L /\ n \in 1..L BY <1>6
      <3>3. f[n] \in Nat /\ f[n - 1] \in Nat /\ h[n] \in Nat /\ h[n - 1] \in Nat BY <1>2, <1>3, <3>2
      <3>4. b[n] \in Creations /\ d[n] = b[n] BY <1>1
      <3>5. c[b[n]] \in Nat /\ e[b[n]] \in Nat /\ c[b[n]] <= e[b[n]] BY <3>4
      <3>6. f[n] = f[n - 1] + c[b[n]] /\ h[n] = h[n - 1] + e[b[n]] BY <1>4, <1>5, <3>2, <3>4
      <3>7. CASE n = k BY <1>7, <3>7, NoGrowth, Zenon
      <3>8. CASE n # k
        <4>1. n - 1 >= k BY <1>6, <3>1, <3>8
        <4>2. f[k] <= f[n - 1] /\ f[n - 1] - f[k] <= h[n - 1] - h[k] BY <2>1, <2>3, <4>1
        <4>3. PICK i \in Nat, j \in Nat, u \in Nat, v \in Nat, x \in Nat, y \in Nat :
                 /\ i = f[k] /\ j = h[k] /\ u = f[n - 1] /\ v = h[n - 1] /\ x = c[b[n]] /\ y = e[b[n]]
          BY <1>7, <3>3, <3>5
        <4>4. i <= u /\ u - i <= v - j /\ x <= y BY <3>5, <4>2, <4>3, Zenon
        <4>5. i <= u + x /\ (u + x) - i <= (v + y) - j BY <4>4, GrowthStep
        <4> QED BY <3>6, <4>3, <4>5, Zenon
      <3> QED BY <3>7, <3>8
    <2>4. \A n \in 0..K : n \in T BY <2>2, <2>3, BoundedInduction
    <2> QED BY <1>6, <2>1, <2>4
  <1>9. h[K] <= h[L]
    <2>1. PICK T : T = {n \in 0..L : n >= K => h[K] <= h[n]} OBVIOUS
    <2>2. 0 \in T BY <1>6, <1>7, <2>1
    <2>3. ASSUME NEW n \in 1..L, n - 1 \in T PROVE n \in T
      <3>1. SUFFICES ASSUME n >= K PROVE h[K] <= h[n] BY <2>1
      <3>2. n - 1 \in 0..L /\ n \in 0..L OBVIOUS
      <3>3. h[n] \in Nat /\ h[n - 1] \in Nat BY <1>3, <3>2
      <3>4. d[n] \in Creations /\ e[d[n]] \in Nat BY <1>1
      <3>5. h[n] = h[n - 1] + e[d[n]] BY <1>5
      <3>6. CASE n = K BY <1>7, <3>6
      <3>7. CASE n # K
        <4>1. n - 1 >= K BY <1>1, <3>1, <3>7
        <4>2. h[K] <= h[n - 1] BY <2>1, <2>3, <4>1
        <4>3. PICK i \in Nat, j \in Nat, x \in Nat : i = h[K] /\ j = h[n - 1] /\ x = e[d[n]] BY <1>7, <3>3, <3>4
        <4>4. i <= j => i <= j + x OBVIOUS
        <4> QED BY <3>5, <4>2, <4>3, <4>4, Zenon
      <3> QED BY <3>6, <3>7
    <2>4. \A n \in 0..L : n \in T BY <2>2, <2>3, BoundedInduction
    <2> QED BY <1>6, <2>1, <2>4
  <1> QED BY <1>1, <1>2, <1>3, <1>7, <1>8, <1>9 DEF Before

LEMMA CountsTyped ==
  ASSUME IsFiniteSet(role), NEW type
  PROVE  RowCounts(type) \in [Creations -> Nat]
  <1>1. ASSUME NEW p \in Creations PROVE RowsOf(p, type) \in Nat
    <2>1. {r \in role : r[1] = p /\ r[2] = type} \in SUBSET role OBVIOUS
    <2>2. IsFiniteSet({r \in role : r[1] = p /\ r[2] = type}) BY <2>1, FS_Subset
    <2> QED BY <2>2, FS_CardinalityType DEF RowsOf
  <1> QED BY <1>1 DEF RowCounts

LEMMA CopiesTyped ==
  ASSUME NEW p \in Creations, NEW n \in Nat
  PROVE  /\ Copies(p, n) \in Seq(Creations) /\ Len(Copies(p, n)) = n
         /\ \A i \in 1..n : Copies(p, n)[i] = p
  BY DEF Copies

\* The list of a type: the oldest party last.
LEMMA RowsAre ==
  ASSUME born \in Seq(Creations), IsFiniteSet(role), NEW type
  PROVE  \E rows \in [0..Len(born) -> Seq(Creations)] :
           /\ rows[0] = <<>>
           /\ \A n \in 1..Len(born) : rows[n] = Copies(born[n], RowCounts(type)[born[n]]) \o rows[n - 1]
           /\ MatchingRows(type) = rows[Len(born)]
  <1>1. PICK K \in Nat : K = Len(born) OBVIOUS
  <1>2. PICK b \in Seq(Creations) : b = born OBVIOUS
  <1>3. PICK c \in [Creations -> Nat] : c = RowCounts(type) BY CountsTyped
  <1>4. PICK S : S = Seq(Creations) OBVIOUS
  <1>5. ASSUME NEW n \in 1..K, NEW q \in S PROVE Copies(b[n], c[b[n]]) \o q \in S
    <2>1. b[n] \in Creations /\ c[b[n]] \in Nat BY <1>1, <1>2
    <2>2. Copies(b[n], c[b[n]]) \in Seq(Creations) BY <2>1, CopiesTyped
    <2> QED BY <1>4, <2>2
  <1>6. PICK g : g = [n \in Nat |-> [q \in S |-> IF n \in 1..K THEN Copies(b[n], c[b[n]]) \o q ELSE q]] OBVIOUS
  <1>7. g \in [Nat -> [S -> S]] BY <1>5, <1>6
  <1>8. <<>> \in S BY <1>4
  <1>9. PICK f : Follows(f, K, S, <<>>, g) BY <1>7, <1>8, RecursionExists
  <1>10. \A n \in 1..K : c[b[n]] = IF type = Unset THEN 1 ELSE RowsOf(b[n], type)
    BY <1>1, <1>2, <1>3 DEF RowCounts
  <1>11. f = [n \in 0..K |-> IF n = 0 THEN <<>>
                             ELSE Copies(b[n], IF type = Unset THEN 1 ELSE RowsOf(b[n], type)) \o f[n - 1]]
    <2>1. ASSUME NEW n \in 0..K
          PROVE  f[n] = IF n = 0 THEN <<>>
                        ELSE Copies(b[n], IF type = Unset THEN 1 ELSE RowsOf(b[n], type)) \o f[n - 1]
      <3>1. CASE n = 0 BY <1>9, <3>1 DEF Follows
      <3>2. CASE n # 0
        <4>1. n \in 1..K /\ n - 1 \in 0..K /\ n \in Nat BY <3>2
        <4>2. f[n] = g[n][f[n - 1]] /\ f[n - 1] \in S BY <1>9, <4>1 DEF Follows
        <4>3. f[n] = Copies(b[n], c[b[n]]) \o f[n - 1] BY <1>6, <4>1, <4>2
        <4> QED BY <1>10, <3>2, <4>1, <4>3
      <3> QED BY <3>1, <3>2
    <2>2. f = [n \in 0..K |-> f[n]] BY <1>9 DEF Follows
    <2> QED BY <2>1, <2>2
  <1>12. PICK rows :
           /\ rows = [n \in 0..K |-> IF n = 0 THEN <<>>
                        ELSE Copies(b[n], IF type = Unset THEN 1 ELSE RowsOf(b[n], type)) \o rows[n - 1]]
           /\ MatchingRows(type) = rows[K]
    BY <1>1, <1>2, <1>11 DEF MatchingRows
  <1>13. rows[0] = <<>> /\ \A n \in 1..K : rows[n] = Copies(b[n], c[b[n]]) \o rows[n - 1]
    <2>1. 0 \in 0..K /\ \A n \in 1..K : n \in 0..K /\ n # 0 BY <1>1
    <2>2. rows[0] = <<>> BY <1>12, <2>1
    <2>3. ASSUME NEW n \in 1..K PROVE rows[n] = Copies(b[n], c[b[n]]) \o rows[n - 1]
      BY <1>10, <1>12, <2>1
    <2> QED BY <2>2, <2>3
  <1>14. PICK T : T = {n \in Nat : rows[n] \in S} OBVIOUS
  <1>15. ASSUME NEW n \in 1..K, n - 1 \in T PROVE n \in T
    <2>1. rows[n - 1] \in S BY <1>14, <1>15
    <2>2. rows[n] \in S BY <1>5, <1>13, <2>1
    <2> QED BY <1>14, <2>2
  <1>16. \A n \in 0..K : n \in T
    <2>1. 0 \in T BY <1>8, <1>13, <1>14
    <2> QED BY <1>15, <2>1, BoundedInduction
  <1>17. rows \in [0..K -> S]
    <2>1. rows = [n \in 0..K |-> rows[n]] BY <1>12
    <2> QED BY <1>14, <1>16, <2>1
  <1>18. /\ rows[0] = <<>>
         /\ \A n \in 1..Len(born) : rows[n] = Copies(born[n], RowCounts(type)[born[n]]) \o rows[n - 1]
         /\ MatchingRows(type) = rows[Len(born)]
    BY <1>1, <1>2, <1>3, <1>12, <1>13, Zenon
  <1> QED BY <1>1, <1>4, <1>17, <1>18

\* The rows q of the n oldest parties: as many as the tally t says, each of a party
\* that has a row, and the first row of each party where the tally puts it.
Listed(q, b, c, t, n) ==
  /\ Len(q) = t[n]
  /\ \A i \in 1..t[n] : \E j \in 1..n : q[i] = b[j] /\ c[b[j]] >= 1
  /\ \A j \in 1..n : c[b[j]] >= 1 =>
       (t[n] - t[j]) + 1 \in 1..t[n] /\ q[(t[n] - t[j]) + 1] = b[j]

\* s is q with x rows of p in front.
InFront(s, p, x, q) ==
  /\ Len(s) = x + Len(q)
  /\ \A i \in 1..x : s[i] = p
  /\ \A i \in 1..Len(q) : s[x + i] = q[i]

LEMMA RowsInFront ==
  ASSUME NEW p \in Creations, NEW x \in Nat, NEW q \in Seq(Creations)
  PROVE  InFront(Copies(p, x) \o q, p, x, q)
  <1> DEFINE s == Copies(p, x) \o q
  <1>1. PICK C \in Seq(Creations) : C = Copies(p, x) /\ Len(C) = x /\ \A i \in 1..x : C[i] = p BY CopiesTyped
  <1>2. PICK y \in Nat : y = Len(q) OBVIOUS
  <1>3. Len(C \o q) = Len(C) + Len(q) BY <1>1
  <1>4. \A i \in 1..(Len(C) + Len(q)) : (C \o q)[i] = IF i <= Len(C) THEN C[i] ELSE q[i - Len(C)] BY <1>1
  <1>5. s = C \o q BY <1>1
  <1>6. ASSUME NEW i \in 1..x PROVE s[i] = p
    <2>1. i \in 1..(x + y) /\ i <= x OBVIOUS
    <2>2. s[i] = C[i] BY <1>1, <1>2, <1>4, <1>5, <2>1, Zenon
    <2> QED BY <1>1, <2>2
  <1>7. ASSUME NEW i \in 1..y PROVE s[x + i] = q[i]
    <2>1. x + i \in 1..(x + y) /\ ~ (x + i <= x) /\ (x + i) - x = i OBVIOUS
    <2> QED BY <1>1, <1>2, <1>4, <1>5, <2>1, Zenon
  <1> QED BY <1>1, <1>2, <1>3, <1>5, <1>6, <1>7 DEF InFront

\* One more party, with its rows in front.
LEMMA ListedGrows ==
  ASSUME NEW b \in Seq(Creations), NEW c \in [Creations -> Nat], NEW t \in [0..Len(b) -> Nat],
         NEW n \in 1..Len(b), t[n] = t[n - 1] + c[b[n]],
         NEW q \in Seq(Creations), Listed(q, b, c, t, n - 1),
         NEW s, s = Copies(b[n], c[b[n]]) \o q
  PROVE  Listed(s, b, c, t, n)
  <1>1. PICK p \in Creations : p = b[n] OBVIOUS
  <1>2. PICK x \in Nat : x = c[p] BY <1>1
  <1>3. PICK C \in Seq(Creations) : C = Copies(p, x) BY <1>2, CopiesTyped
  <1>4. Len(C) = x /\ \A i \in 1..x : C[i] = p BY <1>2, <1>3, CopiesTyped
  <1>5. PICK y \in Nat : y = t[n - 1]
    <2>1. n - 1 \in 0..Len(b) OBVIOUS
    <2> QED BY <2>1
  <1>6. t[n] = y + x BY <1>1, <1>2, <1>5
  <1>7. Len(q) = y BY <1>5 DEF Listed
  <1>8. s = C \o q BY <1>1, <1>2, <1>3
  <1>9. /\ Len(s) = x + y /\ \A i \in 1..x : s[i] = p
        /\ \A i \in 1..y : s[x + i] = q[i]
    <2>1. s = Copies(p, x) \o q BY <1>3, <1>8
    <2>2. InFront(s, p, x, q) BY <2>1, RowsInFront
    <2> QED BY <1>7, <2>2, Zenon DEF InFront
  <1>10. ASSUME NEW i \in 1..t[n] PROVE \E j \in 1..n : s[i] = b[j] /\ c[b[j]] >= 1
    <2>1. CASE i <= x
      <3>1. i \in 1..x /\ x >= 1
        <4>1. i \in 1..(y + x) BY <1>6
        <4> QED BY <1>2, <1>5, <2>1, <4>1
      <3>2. s[i] = b[n] /\ c[b[n]] >= 1 BY <1>1, <1>2, <1>9, <3>1
      <3>3. n \in 1..n OBVIOUS
      <3> QED BY <3>2, <3>3
    <2>2. CASE ~ (i <= x)
      <3>1. i - x \in 1..y /\ x + (i - x) = i
        <4>1. PICK k \in 1..(y + x) : k = i /\ ~ (k <= x) BY <1>6, <2>2
        <4>2. k - x \in 1..y /\ x + (k - x) = k BY <4>1
        <4> QED BY <4>1, <4>2
      <3>2. PICK j \in 1..(n - 1) : q[i - x] = b[j] /\ c[b[j]] >= 1 BY <1>5, <3>1 DEF Listed
      <3>3. j \in 1..n BY <3>2
      <3>4. s[x + (i - x)] = q[i - x] BY <1>9, <3>1
      <3>5. s[i] = b[j] BY <3>1, <3>2, <3>4
      <3> QED BY <3>2, <3>3, <3>5
    <2> QED BY <2>1, <2>2
  <1>11. ASSUME NEW j \in 1..n, c[b[j]] >= 1
         PROVE  (t[n] - t[j]) + 1 \in 1..t[n] /\ s[(t[n] - t[j]) + 1] = b[j]
    <2>1. CASE j = n
      <3>1. t[n] - t[j] = 0 BY <1>2, <1>5, <1>6, <2>1
      <3>2. x >= 1 BY <1>1, <1>2, <1>11, <2>1
      <3>3. (t[n] - t[j]) + 1 = 1 /\ 1 \in 1..x /\ 1 \in 1..(y + x) BY <1>2, <1>5, <3>1, <3>2
      <3> QED BY <1>1, <1>6, <1>9, <2>1, <3>3
    <2>2. CASE j # n
      <3>1. j \in 1..(n - 1) BY <2>2
      <3>2. PICK k \in 1..y : k = (y - t[j]) + 1 /\ q[k] = b[j] BY <1>5, <1>11, <3>1 DEF Listed
      <3>3. PICK z \in Nat : z = t[j]
        <4>1. j \in 0..Len(b) OBVIOUS
        <4> QED BY <4>1
      <3>4. (t[n] - t[j]) + 1 = x + k /\ x + k \in 1..(y + x)
        <4>1. k = (y - z) + 1 BY <3>2, <3>3
        <4>2. ((y + x) - z) + 1 = x + k /\ x + k \in 1..(y + x) BY <4>1
        <4> QED BY <1>6, <3>3, <4>2
      <3> QED BY <1>6, <1>9, <3>2, <3>4
    <2> QED BY <2>1, <2>2
  <1>12. Len(s) = t[n] BY <1>6, <1>9
  <1> QED BY <1>10, <1>11, <1>12 DEF Listed

\* The list that a page is cut from.
LEMMA ListIs ==
  ASSUME born \in Seq(Creations), IsFiniteSet(role), NEW type
  PROVE  /\ MatchingRows(type) \in Seq(Creations)
         /\ Listed(MatchingRows(type), born, RowCounts(type), Tally(born, RowCounts(type)), Len(born))
  <1>1. PICK K \in Nat : K = Len(born) OBVIOUS
  <1>2. PICK b \in Seq(Creations) : b = born OBVIOUS
  <1>3. PICK c \in [Creations -> Nat] : c = RowCounts(type) BY CountsTyped
  <1>4. PICK t : t = Tally(b, c) OBVIOUS
  <1>5. /\ t \in [0..Len(b) -> Nat] /\ t[0] = 0
        /\ \A n \in 1..Len(b) : t[n] = t[n - 1] + c[b[n]]
    BY <1>4, TallyIs
  <1>6. PICK rows \in [0..Len(born) -> Seq(Creations)] :
           /\ rows[0] = <<>>
           /\ \A n \in 1..Len(born) : rows[n] = Copies(born[n], RowCounts(type)[born[n]]) \o rows[n - 1]
           /\ MatchingRows(type) = rows[Len(born)]
    BY RowsAre
  <1>7. PICK T : T = {n \in Nat : Listed(rows[n], b, c, t, n)} OBVIOUS
  <1>8. 0 \in T
    <2>1. Len(rows[0]) = 0 /\ \A i : i \notin 1..0 BY <1>6
    <2>2. Listed(rows[0], b, c, t, 0) BY <1>5, <2>1 DEF Listed
    <2> QED BY <1>7, <2>2
  <1>9. ASSUME NEW n \in 1..K, n - 1 \in T PROVE n \in T
    <2>1. n \in 1..Len(b) /\ n - 1 \in 0..Len(born) BY <1>1, <1>2
    <2>2. PICK q \in Seq(Creations) : q = rows[n - 1] BY <1>6, <2>1
    <2>3. Listed(q, b, c, t, n - 1) BY <1>7, <1>9, <2>2
    <2>4. PICK s : s = rows[n] OBVIOUS
    <2>5. s = Copies(b[n], c[b[n]]) \o q BY <1>2, <1>3, <1>6, <2>1, <2>2, <2>4
    <2>6. t[n] = t[n - 1] + c[b[n]] BY <1>5, <2>1
    <2>7. Listed(s, b, c, t, n) BY <1>5, <2>1, <2>3, <2>5, <2>6, ListedGrows
    <2> QED BY <1>7, <2>4, <2>7
  <1>10. \A n \in 0..K : n \in T BY <1>8, <1>9, BoundedInduction
  <1>11. K \in 0..K /\ K \in T BY <1>1, <1>10
  <1>12. rows[K] \in Seq(Creations) BY <1>1, <1>6, <1>11
  <1>13. Listed(rows[K], b, c, t, K) BY <1>7, <1>11
  <1> QED BY <1>1, <1>2, <1>3, <1>4, <1>6, <1>12, <1>13

\* No role of the type was ever removed.
Kept(type) == \A r \in removed : r[2] # type

\* A party with a row that o rows or more are before.
Ahead(p, type, o) ==
  \E n \in 1..Len(born) : p = born[n] /\ RowCounts(type)[p] >= 1 /\ Before(born, RowCounts(type), n) >= o

\* What a client has read: every party of the start that it has not seen is not
\* before the page it reads next.
WalkFields(r) == DOMAIN r = {"label", "role", "size", "page", "total", "first", "seen", "astray"}
WalkOk(r) ==
  /\ WalkFields(r)
  /\ r.label # "idle" => r.page \in Nat \ {0} /\ r.size \in Nat \ {0}
  /\ r.label \in {"count", "rows"} /\ Kept(r.role) =>
       \A p \in r.first \ r.seen : Ahead(p, r.role, (r.page - 1) * r.size)
  /\ r.label = "done" /\ ~r.astray /\ Kept(r.role) => r.first \subseteq r.seen

WalkInv ==
  /\ born \in Seq(Creations) /\ IsFiniteSet(role) /\ DOMAIN walk = Walkers
  /\ \A w \in Walkers : WalkOk(walk[w])

LEMMA RowsFinite ==
  ASSUME NEW S, IsFiniteSet(S), NEW R \in SUBSET S
  PROVE  Cardinality(R) \in Nat /\ Cardinality(R) <= Cardinality(S) /\ IsFiniteSet(R)
  BY FS_Subset, FS_CardinalityType

\* The statements that write: rows are added before a party, none is taken away.
LEMMA AheadStays ==
  ASSUME WalkInv, (born \in Seq(Creations))', IsFiniteSet(role'), Len(born) <= Len(born'),
         \A n \in 1..Len(born) : born'[n] = born[n],
         NEW type, \A r \in role : r[2] = type => r \in role',
         NEW p, NEW o \in Nat, Ahead(p, type, o)
  PROVE  Ahead(p, type, o)'
  <1>1. PICK b \in Seq(Creations), d \in Seq(Creations) : b = born /\ d = born' BY DEF WalkInv
  <1>2. PICK c \in [Creations -> Nat] : c = RowCounts(type) BY CountsTyped DEF WalkInv
  <1>3. ASSUME NEW q \in Creations
        PROVE  RowsOf(q, type)' \in Nat /\ RowsOf(q, type) <= RowsOf(q, type)'
    <2>1. PICK R, Q : /\ R = {r \in role : r[1] = q /\ r[2] = type}
                      /\ Q = {r \in role' : r[1] = q /\ r[2] = type}
      OBVIOUS
    <2>2. IsFiniteSet(Q) /\ Cardinality(Q) \in Nat BY <2>1, RowsFinite
    <2>3. R \in SUBSET Q BY <2>1
    <2>4. Cardinality(R) <= Cardinality(Q) BY <2>2, <2>3, RowsFinite
    <2>5. RowsOf(q, type) = Cardinality(R) BY <2>1 DEF RowsOf
    <2>6. RowsOf(q, type)' = Cardinality(Q) BY <2>1 DEF RowsOf
    <2> QED BY <2>2, <2>4, <2>5, <2>6
  <1>4. PICK e : e = RowCounts(type)' OBVIOUS
  <1>5. e = [q \in Creations |-> IF type = Unset THEN 1 ELSE RowsOf(q, type)'] BY <1>4 DEF RowCounts
  <1>6. c = [q \in Creations |-> IF type = Unset THEN 1 ELSE RowsOf(q, type)] BY <1>2 DEF RowCounts
  <1>7. e \in [Creations -> Nat] BY <1>3, <1>5
  <1>8. \A q \in Creations : c[q] <= e[q]
    <2> TAKE q \in Creations
    <2>1. CASE type = Unset BY <1>5, <1>6, <2>1
    <2>2. CASE type # Unset
      <3>1. c[q] = RowsOf(q, type) BY <1>6, <2>2
      <3>2. e[q] = RowsOf(q, type)' BY <1>5, <2>2
      <3> QED BY <1>3, <3>1, <3>2
    <2> QED BY <2>1, <2>2
  <1>9. PICK n \in 1..Len(b) : p = b[n] /\ c[p] >= 1 /\ Before(b, c, n) >= o BY <1>1, <1>2 DEF Ahead
  <1>10. n \in 0..Len(b) /\ n \in 1..Len(d) /\ p = d[n] /\ p \in Creations BY <1>1, <1>9
  <1>11. PICK x \in Nat : x = Before(b, c, n) /\ x <= Before(d, e, n) BY <1>1, <1>7, <1>8, <1>10, TallyGrows
  <1>12. Before(d, e, n) \in Nat
    <2>1. Len(d) <= Len(d) /\ \A q \in Creations : e[q] <= e[q] BY <1>7
    <2>2. n \in 0..Len(d) BY <1>10
    <2> QED BY <1>7, <2>1, <2>2, TallyGrows
  <1>13. Before(d, e, n) >= o BY <1>9, <1>11, <1>12
  <1>14. e[p] >= 1
    <2>1. c[p] \in Nat /\ e[p] \in Nat /\ c[p] <= e[p] BY <1>7, <1>8, <1>10
    <2> QED BY <1>9, <2>1
  <1>15. d = born' /\ e = RowCounts(type)' BY <1>1, <1>4
  <1> QED BY <1>10, <1>13, <1>14, <1>15 DEF Ahead

LEMMA WritesKeepWalks ==
  ASSUME WalkInv, (born \in Seq(Creations))', IsFiniteSet(role'), Len(born) <= Len(born'),
         \A n \in 1..Len(born) : born'[n] = born[n],
         walk' = walk, removed \subseteq removed',
         \A r \in role : r \in role' \/ \E x \in removed' : x[2] = r[2]
  PROVE  WalkInv'
  <1>1. ASSUME NEW w \in Walkers PROVE WalkOk(walk[w])'
    <2>1. PICK r : r = walk[w] /\ r = walk'[w] OBVIOUS
    <2>2. WalkOk(r) BY <2>1 DEF WalkInv
    <2>3. WalkFields(r)' BY <2>2 DEF WalkOk, WalkFields
    <2>4. Kept(r.role)' => Kept(r.role) BY DEF Kept
    <2>5. ASSUME r.label \in {"count", "rows"}, Kept(r.role)', NEW p \in r.first \ r.seen
          PROVE  Ahead(p, r.role, (r.page - 1) * r.size)'
      <3>1. PICK type, o : type = r.role /\ o = (r.page - 1) * r.size OBVIOUS
      <3>2. Ahead(p, type, o) BY <2>2, <2>4, <2>5, <3>1 DEF WalkOk
      <3>3. o \in Nat
        <4>1. r.page \in Nat \ {0} /\ r.size \in Nat \ {0} BY <2>2, <2>5 DEF WalkOk
        <4>2. r.page - 1 \in Nat BY <4>1
        <4> QED BY <3>1, <4>1, <4>2
      <3>4. \A x \in role : x[2] = type => x \in role' BY <2>5, <3>1 DEF Kept
      <3>5. Ahead(p, type, o)' BY <3>2, <3>3, <3>4, AheadStays
      <3> QED BY <3>1, <3>5
    <2>6. r.label = "done" /\ ~r.astray /\ Kept(r.role)' => r.first \subseteq r.seen BY <2>2, <2>4 DEF WalkOk
    <2>7. r.label # "idle" => r.page \in Nat \ {0} /\ r.size \in Nat \ {0} BY <2>2 DEF WalkOk
    <2>8. r' = r BY <2>1
    <2>9. WalkOk(r)' BY <2>3, <2>5, <2>6, <2>7 DEF WalkOk
    <2> QED BY <2>1, <2>9
  <1> QED BY <1>1 DEF WalkInv

\* A client's own step leaves the tables and the other clients alone.
LEMMA ClientSteps ==
  ASSUME WalkInv, NEW w \in Walkers, UNCHANGED <<partyTables, partyHistory>>, DOMAIN walk' = Walkers,
         \A v \in Walkers : v # w => walk'[v] = walk[v],
         NEW r, walk'[w] = r, WalkOk(r)
  PROVE  WalkInv'
  <1>1. UNCHANGED <<born, role, removed>> BY DEF partyTables, partyHistory
  <1>2. ASSUME NEW s, WalkOk(s) PROVE WalkOk(s)'
    <2>1. \A p, type, o : Ahead(p, type, o)' = Ahead(p, type, o) BY <1>1 DEF Ahead, RowCounts, RowsOf
    <2>2. \A type : Kept(type)' = Kept(type) BY <1>1 DEF Kept
    <2> QED BY <1>2, <2>1, <2>2 DEF WalkOk, WalkFields
  <1>3. ASSUME NEW v \in Walkers PROVE WalkOk(walk[v])'
    <2>1. PICK s : s = walk'[v] OBVIOUS
    <2>2. WalkOk(s) BY <2>1 DEF WalkInv
    <2>3. WalkOk(s)' BY <1>2, <2>2
    <2> QED BY <2>1, <2>3
  <1> QED BY <1>1, <1>3 DEF WalkInv

LEMMA PageSizes ==
  ASSUME NEW n \in 0..(MaxPage + 1)
  PROVE  PageSizeOf(n) \in Nat \ {0}
  BY PageBounds DEF PageSizeOf

LEMMA LimitIsEnough ==
  ASSUME NEW n \in Nat \ {0}
  PROVE  LimitOf(n) \in Nat /\ n <= LimitOf(n)
  BY PageBounds DEF LimitOf

LEMMA StartWalkKeeps ==
  ASSUME WalkInv, NEW w \in Walkers, StartWalk(w) PROVE WalkInv'
  <1>1. PICK n \in 0..MaxPage + 1, type \in RoleTypes \cup {Unset} :
           walk' = [walk EXCEPT ![w] = [WalkStart EXCEPT
                      !.label = "count", !.role = type, !.size = PageSizeOf(n), !.page = 1,
                      !.first = Range(MatchingRows(type))]]
    BY DEF StartWalk
  <1>2. UNCHANGED <<partyTables, partyHistory>> BY DEF StartWalk
  <1>3. PICK z, f : z = PageSizeOf(n) /\ f = Range(MatchingRows(type)) OBVIOUS
  <1>4. PICK r : r = [WalkStart EXCEPT !.label = "count", !.role = type, !.size = z, !.page = 1, !.first = f]
    OBVIOUS
  <1>4a. /\ DOMAIN walk' = Walkers /\ walk'[w] = r
         /\ \A v \in Walkers : v # w => walk'[v] = walk[v]
    <2>1. walk' = [walk EXCEPT ![w] = r] BY <1>1, <1>3, <1>4, Zenon
    <2> QED BY <2>1 DEF WalkInv
  <1>5. PageSizeOf(n) \in Nat \ {0} BY PageSizes
  <1>6. /\ r.label = "count" /\ r.role = type /\ r.size = PageSizeOf(n) /\ r.page = 1
        /\ r.first = Range(MatchingRows(type)) /\ WalkFields(r)
    <2>1. r.label = "count" /\ r.role = type /\ r.size = z /\ r.page = 1 /\ r.first = f
      BY <1>4 DEF WalkStart
    <2>2. WalkFields(r) BY <1>4 DEF WalkStart, WalkFields
    <2> QED BY <1>3, <2>1, <2>2
  <1>7. ASSUME NEW p \in r.first PROVE Ahead(p, type, 0)
    <2>1. PICK q \in Seq(Creations) : q = MatchingRows(type) BY ListIs DEF WalkInv
    <2>2. PICK c \in [Creations -> Nat] : c = RowCounts(type) BY CountsTyped DEF WalkInv
    <2>3. Listed(q, born, c, Tally(born, c), Len(born)) BY <2>1, <2>2, ListIs DEF WalkInv
    <2>4. PICK i \in 1..Len(q) : p = q[i] BY <1>6, <2>1 DEF Range
    <2>5. PICK k \in 1..Len(born) : p = born[k] /\ c[born[k]] >= 1 BY <2>3, <2>4 DEF Listed
    <2>6. PICK b \in Seq(Creations) : b = born BY DEF WalkInv
    <2>7. Before(b, c, k) \in Nat
      <3>1. Len(b) <= Len(b) /\ \A a \in Creations : c[a] <= c[a] BY <2>6
      <3>2. k \in 0..Len(b) BY <2>6
      <3> QED BY <3>1, <3>2, TallyGrows
    <2> QED BY <2>2, <2>5, <2>6, <2>7 DEF Ahead
  <1>8. (r.page - 1) * r.size = 0 BY <1>5, <1>6
  <1>9. WalkOk(r) BY <1>5, <1>6, <1>7, <1>8 DEF WalkOk
  <1> QED BY <1>2, <1>4a, <1>9, ClientSteps

LEMMA CountStepKeeps ==
  ASSUME WalkInv, NEW w \in Walkers, CountStep(w) PROVE WalkInv'
  <1>1. PICK s : s = walk[w] /\ WalkOk(s) /\ s.label = "count" BY DEF WalkInv, CountStep
  <1>2. UNCHANGED <<partyTables, partyHistory>> BY DEF CountStep
  <1>3. PICK x : x = CountParties(s.role) OBVIOUS
  <1>4. PICK t : t = [s EXCEPT !.label = "rows"] OBVIOUS
  <1>5. PICK r : r = [t EXCEPT !.total = x] OBVIOUS
  <1>6. /\ DOMAIN walk' = Walkers /\ walk'[w] = r
        /\ \A v \in Walkers : v # w => walk'[v] = walk[v]
    <2>1. walk' = [walk EXCEPT ![w].label = "rows", ![w].total = x] BY <1>1, <1>3 DEF CountStep
    <2>2. DOMAIN walk = Walkers BY DEF WalkInv
    <2>3. walk'[w] = [[walk[w] EXCEPT !.label = "rows"] EXCEPT !.total = x] BY <2>1, <2>2
    <2>4. walk'[w] = r BY <1>1, <1>4, <1>5, <2>3
    <2> QED BY <2>1, <2>2, <2>4
  <1>7. /\ r.label = "rows" /\ r.role = s.role /\ r.size = s.size /\ r.page = s.page
        /\ r.first = s.first /\ r.seen = s.seen /\ r.astray = s.astray /\ WalkFields(r)
    BY <1>1, <1>4, <1>5 DEF WalkOk, WalkFields
  <1>8. WalkOk(r) BY <1>1, <1>7 DEF WalkOk
  <1> QED BY <1>2, <1>6, <1>8, ClientSteps

LEMMA OffsetsAre ==
  ASSUME NEW page \in Nat \ {0}, NEW size \in Nat \ {0}
  PROVE  /\ (page - 1) * size \in Nat /\ page * size \in Nat
         /\ (page - 1) * size + size = page * size
         /\ ((page + 1) - 1) * size = page * size
  <1>1. PICK m \in Nat : page = m + 1
    <2>1. page - 1 \in Nat /\ page = (page - 1) + 1 OBVIOUS
    <2> QED BY <2>1
  <1>2. page - 1 = m /\ (page + 1) - 1 = page BY <1>1
  <1>3. (m + 1) * size = m * size + size OBVIOUS
  <1>4. m * size \in Nat OBVIOUS
  <1> QED BY <1>1, <1>2, <1>3, <1>4

\* The page at an offset has every party ahead of it whose first row is within the limit.
LEMMA PageShows ==
  ASSUME WalkInv, NEW type, NEW o \in Nat, NEW limit \in Nat, NEW got,
         got = {MatchingRows(type)[i] : i \in {n \in DOMAIN MatchingRows(type) : o < n /\ n <= o + limit}},
         NEW p, Ahead(p, type, o), p \notin got
  PROVE  Ahead(p, type, o + limit) /\ Len(MatchingRows(type)) > o + limit
  <1>1. PICK q \in Seq(Creations) : q = MatchingRows(type) BY ListIs DEF WalkInv
  <1>2. PICK c \in [Creations -> Nat] : c = RowCounts(type) BY CountsTyped DEF WalkInv
  <1>3. PICK b \in Seq(Creations) : b = born BY DEF WalkInv
  <1>4. PICK t \in [0..Len(b) -> Nat] : t = Tally(b, c) BY TallyIs
  <1>5. Listed(q, b, c, t, Len(b)) BY <1>1, <1>2, <1>3, <1>4, ListIs DEF WalkInv
  <1>6. PICK n \in 1..Len(b) : p = b[n] /\ c[p] >= 1 /\ Before(b, c, n) >= o BY <1>2, <1>3 DEF Ahead
  <1>7. PICK x : x = t[Len(b)] - t[n] /\ x = Before(b, c, n) BY <1>4 DEF Before
  <1>8. x \in Int /\ x >= o
    <2>1. Len(b) \in 0..Len(b) /\ n \in 0..Len(b) OBVIOUS
    <2>2. t[Len(b)] \in Nat /\ t[n] \in Nat BY <1>4, <2>1
    <2> QED BY <1>6, <1>7, <2>2
  <1>9. x + 1 \in 1..Len(q) /\ q[x + 1] = p BY <1>5, <1>6, <1>7 DEF Listed
  <1>10. ~ (x + 1 <= o + limit)
    <2> SUFFICES ASSUME x + 1 <= o + limit PROVE FALSE OBVIOUS
    <2>1. x + 1 \in DOMAIN q /\ o < x + 1 BY <1>8, <1>9
    <2>2. q[x + 1] \in got BY <1>1, <2>1
    <2> QED BY <1>9, <2>2
  <1>11. x >= o + limit BY <1>8, <1>10
  <1>12. Len(q) > o + limit
    <2>1. PICK l \in Nat, m \in Nat : l = Len(q) /\ m = o + limit OBVIOUS
    <2>2. x + 1 \in 1..l /\ x >= m BY <1>9, <1>11, <2>1
    <2>3. l > m BY <1>8, <2>2
    <2> QED BY <2>1, <2>3
  <1>13. Ahead(p, type, o + limit) BY <1>2, <1>3, <1>6, <1>7, <1>11 DEF Ahead
  <1> QED BY <1>1, <1>12, <1>13

\* Whoever is not on the page is not before the next one.
LEMMA PageKeepsAhead ==
  ASSUME WalkInv, NEW type, NEW page \in Nat \ {0}, NEW size \in Nat \ {0}, NEW o, o = (page - 1) * size, NEW got,
         got = {MatchingRows(type)[i] : i \in {n \in DOMAIN MatchingRows(type) : o < n /\ n <= o + LimitOf(size)}},
         NEW p, Ahead(p, type, o), p \notin got
  PROVE  Ahead(p, type, page * size) /\ Len(MatchingRows(type)) > page * size
  <1>1. PICK m \in Nat : m = page * size /\ o + size = m /\ o \in Nat BY OffsetsAre
  <1>2. PICK l \in Nat : l = LimitOf(size) /\ size <= l BY LimitIsEnough
  <1>3. Ahead(p, type, o + l) /\ Len(MatchingRows(type)) > o + l
    BY <1>1, <1>2, PageShows
  <1>4. o + l \in Nat /\ o + l >= m BY <1>1, <1>2
  <1>5. Ahead(p, type, m)
    <2>1. PICK k \in 1..Len(born) :
             p = born[k] /\ RowCounts(type)[p] >= 1 /\ Before(born, RowCounts(type), k) >= o + l
      BY <1>3 DEF Ahead
    <2>2. Before(born, RowCounts(type), k) \in Nat
      <3>1. PICK b \in Seq(Creations), c \in [Creations -> Nat] : b = born /\ c = RowCounts(type)
        BY CountsTyped DEF WalkInv
      <3>2. Len(b) <= Len(b) /\ (\A a \in Creations : c[a] <= c[a]) /\ k \in 0..Len(b) BY <3>1
      <3> QED BY <3>1, <3>2, TallyGrows
    <2>3. PICK x \in Nat : x = Before(born, RowCounts(type), k) BY <2>2
    <2>4. x >= m BY <1>4, <2>1, <2>3
    <2> QED BY <2>1, <2>3, <2>4 DEF Ahead
  <1>6. Len(MatchingRows(type)) > m
    <2>1. PICK x \in Nat : x = Len(MatchingRows(type))
      <3>1. MatchingRows(type) \in Seq(Creations) BY ListIs DEF WalkInv
      <3> QED BY <3>1
    <2>2. x > o + l BY <1>3, <2>1
    <2>3. x > m BY <1>4, <2>2
    <2> QED BY <2>1, <2>3
  <1> QED BY <1>1, <1>5, <1>6

LEMMA RowsStepKeeps ==
  ASSUME WalkInv, NEW w \in Walkers, RowsStep(w) PROVE WalkInv'
  <1>1. PICK s : s = walk[w] /\ WalkOk(s) /\ s.label = "rows" BY ZenonT(30) DEF WalkInv, RowsStep
  <1>2. UNCHANGED <<partyTables, partyHistory>> BY Zenon DEF RowsStep
  <1>3. PICK type, o, q : type = s.role /\ o = (s.page - 1) * s.size /\ q = MatchingRows(type) OBVIOUS
  <1>4. PICK got : got = {q[i] : i \in {n \in DOMAIN q : o < n /\ n <= o + LimitOf(s.size)}} OBVIOUS
  <1>5. PICK label, gone : /\ label = IF s.page * s.size >= s.total THEN "done" ELSE "count"
                           /\ gone = (Len(q) # s.total)
    OBVIOUS
  <1>6. PICK t1 : t1 = [s EXCEPT !.seen = s.seen \cup got] OBVIOUS
  <1>7. PICK t2 : t2 = [t1 EXCEPT !.page = t1.page + 1] OBVIOUS
  <1>8. PICK t3 : t3 = [t2 EXCEPT !.astray = gone] OBVIOUS
  <1>9. PICK r : r = [t3 EXCEPT !.label = label] OBVIOUS
  <1>10. t1.page = s.page BY <1>1, <1>6 DEF WalkOk, WalkFields
  <1>11. /\ DOMAIN walk' = Walkers /\ walk'[w] = r
         /\ \A v \in Walkers : v # w => walk'[v] = walk[v]
    <2>1. walk' = [walk EXCEPT ![w].seen = @ \cup got, ![w].page = @ + 1,
                      ![w].astray = Len(q) # s.total, ![w].label = label]
      <3>1. PICK Q, O, g :
              /\ Q = MatchingRows(walk[w].role) /\ O = (walk[w].page - 1) * walk[w].size
              /\ g = {Q[i] : i \in {n \in DOMAIN Q : O < n /\ n <= O + LimitOf(walk[w].size)}}
              /\ walk' = [walk EXCEPT ![w].seen = @ \cup g, ![w].page = @ + 1,
                            ![w].astray = Len(Q) # walk[w].total,
                            ![w].label = IF walk[w].page * walk[w].size >= walk[w].total THEN "done" ELSE "count"]
        BY ZenonT(60) DEF RowsStep
      <3>2. Q = q /\ O = o BY <1>1, <1>3, <3>1
      <3>3. g = got BY <1>1, <1>4, <3>1, <3>2
      <3>4. label = IF walk[w].page * walk[w].size >= walk[w].total THEN "done" ELSE "count" BY <1>1, <1>5
      <3> QED BY <1>1, <3>1, <3>2, <3>3, <3>4, ZenonT(60)
    <2>2. DOMAIN walk = Walkers BY DEF WalkInv
    <2>3. walk'[w] = r BY <1>1, <1>5, <1>6, <1>7, <1>8, <1>9, <1>10, <2>1, <2>2
    <2> QED BY <2>1, <2>2, <2>3
  <1>12. /\ r.label = label /\ r.role = type /\ r.size = s.size /\ r.page = s.page + 1
         /\ r.first = s.first /\ r.seen = s.seen \cup got /\ r.astray = gone /\ WalkFields(r)
    BY <1>1, <1>3, <1>6, <1>7, <1>8, <1>9 DEF WalkOk, WalkFields
  <1>13. s.page \in Nat \ {0} /\ s.size \in Nat \ {0} BY <1>1 DEF WalkOk
  <1>14. ASSUME Kept(type), NEW p \in s.first, p \notin s.seen \cup got
         PROVE  Ahead(p, type, s.page * s.size) /\ Len(q) > s.page * s.size
    <2>1. Ahead(p, type, o) BY <1>1, <1>3, <1>14 DEF WalkOk
    <2>2. got = {MatchingRows(type)[i] : i \in {n \in DOMAIN MatchingRows(type) : o < n /\ n <= o + LimitOf(s.size)}}
      BY <1>3, <1>4, Zenon
    <2>3. PICK page \in Nat \ {0}, size \in Nat \ {0} : page = s.page /\ size = s.size BY <1>13
    <2>4. o = (page - 1) * size BY <1>3, <2>3
    <2>5. got = {MatchingRows(type)[i] : i \in {n \in DOMAIN MatchingRows(type) : o < n /\ n <= o + LimitOf(size)}}
      BY <2>2, <2>3, Zenon
    <2>6. p \notin got BY <1>14
    <2>7. Ahead(p, type, page * size) /\ Len(MatchingRows(type)) > page * size
      BY <2>1, <2>4, <2>5, <2>6, PageKeepsAhead
    <2> QED BY <1>3, <2>3, <2>7
  <1>15. r.page \in Nat \ {0} /\ (r.page - 1) * r.size = s.page * s.size
    BY <1>12, <1>13, OffsetsAre
  <1>16. ASSUME r.label \in {"count", "rows"}, Kept(r.role), NEW p \in r.first \ r.seen
         PROVE  Ahead(p, r.role, (r.page - 1) * r.size)
    <2>1. Ahead(p, type, s.page * s.size) BY <1>12, <1>14, <1>16
    <2> QED BY <1>12, <1>15, <2>1
  <1>17. ASSUME r.label = "done", ~ r.astray, Kept(r.role), NEW p \in r.first PROVE p \in r.seen
    <2> SUFFICES ASSUME p \notin r.seen PROVE FALSE OBVIOUS
    <2>1. Len(q) > s.page * s.size BY <1>12, <1>14, <1>17
    <2>2. Len(q) = s.total /\ s.page * s.size >= s.total BY <1>5, <1>12, <1>17
    <2>3. PICK x \in Nat, m \in Nat : x = Len(q) /\ m = s.page * s.size
      <3>1. q \in Seq(Creations) BY <1>3, ListIs DEF WalkInv
      <3>2. s.page * s.size \in Nat BY <1>13, OffsetsAre
      <3> QED BY <3>1, <3>2
    <2>4. x > m /\ m >= x BY <2>1, <2>2, <2>3
    <2> QED BY <2>4
  <1>18. WalkOk(r) BY <1>12, <1>13, <1>15, <1>16, <1>17 DEF WalkOk
  <1> QED BY <1>2, <1>11, <1>18, ClientSteps

LEMMA TablesKeepWalks ==
  ASSUME WalkInv, UNCHANGED <<born, role, removed, walk>> PROVE WalkInv'
  <1>1. /\ (born \in Seq(Creations))' /\ IsFiniteSet(role') /\ Len(born) <= Len(born')
        /\ \A n \in 1..Len(born) : born'[n] = born[n]
    BY DEF WalkInv
  <1> QED BY <1>1, WritesKeepWalks

LEMMA RoleKeepsWalks ==
  ASSUME WalkInv, UNCHANGED <<born, removed, walk>>, NEW r, role' = role \cup {r} PROVE WalkInv'
  <1>1. /\ (born \in Seq(Creations))' /\ Len(born) <= Len(born')
        /\ \A n \in 1..Len(born) : born'[n] = born[n]
    BY DEF WalkInv
  <1>2. IsFiniteSet(role') BY FS_AddElement DEF WalkInv
  <1> QED BY <1>1, <1>2, WritesKeepWalks

LEMMA CreatePartyKeepsWalks ==
  ASSUME WalkInv, NEW p \in Creations, CreateParty(p) PROVE WalkInv'
  <1>1. UNCHANGED <<role, walk, removed>> BY DEF CreateParty
  <1>2. CASE born' = born BY <1>1, <1>2, TablesKeepWalks
  <1>3. CASE born' = Append(born, p)
    <2>1. born \in Seq(Creations) /\ IsFiniteSet(role) BY DEF WalkInv
    <2>2. /\ Append(born, p) \in Seq(Creations) /\ Len(Append(born, p)) = Len(born) + 1
          /\ \A n \in 1..Len(born) : Append(born, p)[n] = born[n]
      BY <2>1, AppendProperties
    <2>3. /\ (born \in Seq(Creations))' /\ Len(born) <= Len(born')
          /\ \A n \in 1..Len(born) : born'[n] = born[n]
      BY <1>3, <2>1, <2>2
    <2> QED BY <1>1, <2>1, <2>3, WritesKeepWalks
  <1> QED BY <1>2, <1>3 DEF CreateParty, InsertParty

LEMMA RemoveRoleKeepsWalks ==
  ASSUME WalkInv, NEW c, RemoveRole(c) PROVE WalkInv'
  <1>1. UNCHANGED <<born, walk>> BY DEF RemoveRole
  <1>2. PICK r \in role : role' = role \ {r} /\ removed' = removed \cup {<<r[1], r[2]>>} BY DEF RemoveRole
  <1>3. /\ (born \in Seq(Creations))' /\ Len(born) <= Len(born')
        /\ \A n \in 1..Len(born) : born'[n] = born[n]
    BY <1>1 DEF WalkInv
  <1>4. IsFiniteSet(role') BY <1>2, FS_RemoveElement DEF WalkInv
  <1>5. PICK x \in removed' : x = <<r[1], r[2]>> BY <1>2
  <1>6. x[2] = r[2] BY <1>5
  <1>7. \A s \in role : s \in role' \/ \E y \in removed' : y[2] = s[2] BY <1>2, <1>6
  <1> QED BY <1>1, <1>2, <1>3, <1>4, <1>7, WritesKeepWalks

LEMMA WalkInitOk == PartyInit => WalkInv
  <1> SUFFICES ASSUME PartyInit PROVE WalkInv OBVIOUS
  <1>1. born \in Seq(Creations) /\ IsFiniteSet(role) /\ DOMAIN walk = Walkers
    BY FS_EmptySet DEF PartyInit
  <1>2. WalkStart.label = "idle" /\ WalkFields(WalkStart) BY DEF WalkStart, WalkFields
  <1>3. WalkOk(WalkStart) BY <1>2 DEF WalkOk
  <1>4. \A w \in Walkers : walk[w] = WalkStart BY DEF PartyInit
  <1> QED BY <1>1, <1>3, <1>4 DEF WalkInv

LEMMA WalkStepOk == WalkInv /\ [PartyNext]_partyVars => WalkInv'
  <1> SUFFICES ASSUME WalkInv, [PartyNext]_partyVars PROVE WalkInv' OBVIOUS
  <1>1. CASE UNCHANGED partyVars BY <1>1, TablesKeepWalks DEF partyVars, partyTables, partyHistory
  <1>2. ASSUME NEW p \in Creations, RequestParty(p) PROVE WalkInv'
    BY <1>2, TablesKeepWalks DEF RequestParty, partyTables, partyHistory
  <1>3. ASSUME NEW p \in Creations, CreateParty(p) PROVE WalkInv' BY <1>3, CreatePartyKeepsWalks
  <1>4. ASSUME NEW p \in Creations, AddInitialRole(p) PROVE WalkInv'
    <2>1. UNCHANGED <<born, walk, removed>> BY <1>4 DEF AddInitialRole
    <2>2. UNCHANGED role \/ \E r : role' = role \cup {r} BY <1>4 DEF AddInitialRole, InsertRole
    <2> QED BY <2>1, <2>2, TablesKeepWalks, RoleKeepsWalks
  <1>5. ASSUME NEW c \in PartyCalls, ReadParty(c) PROVE WalkInv'
    BY <1>5, TablesKeepWalks DEF ReadParty, partyTables
  <1>6. ASSUME NEW c \in PartyCalls, UpdateParty(c) PROVE WalkInv' BY <1>6, TablesKeepWalks DEF UpdateParty
  <1>7. ASSUME NEW c \in PartyCalls, VerifyParty(c) PROVE WalkInv'
    BY <1>7, TablesKeepWalks DEF VerifyParty, partyTables, partyHistory
  <1>8. ASSUME NEW c \in PartyCalls, AddRole(c) PROVE WalkInv'
    <2>1. UNCHANGED <<born, walk, removed>> /\ role' = role \cup {parg[c].role}
      BY <1>8 DEF AddRole, InsertRole, partyHistory
    <2> QED BY <2>1, RoleKeepsWalks
  <1>9. ASSUME NEW c \in PartyCalls, RemoveRole(c) PROVE WalkInv' BY <1>9, RemoveRoleKeepsWalks
  <1>10. ASSUME NEW a \in Additions, VerifyOwner(a) PROVE WalkInv'
    BY <1>10, TablesKeepWalks DEF VerifyOwner, partyTables, partyHistory
  <1>11. ASSUME NEW a \in Additions, CreateAddress(a) PROVE WalkInv'
    BY <1>11, TablesKeepWalks DEF CreateAddress, partyHistory
  <1>12. ASSUME NEW a \in Additions, LinkPartyAddress(a) PROVE WalkInv'
    BY <1>12, TablesKeepWalks DEF LinkPartyAddress
  <1>13. ASSUME NEW a \in Additions, CreateContact(a) PROVE WalkInv'
    BY <1>13, TablesKeepWalks DEF CreateContact, partyHistory
  <1>14. ASSUME NEW w \in Walkers, StartWalk(w) \/ CountStep(w) \/ RowsStep(w) PROVE WalkInv'
    BY <1>14, StartWalkKeeps, CountStepKeeps, RowsStepKeeps
  <1> QED BY <1>1, <1>2, <1>3, <1>4, <1>5, <1>6, <1>7, <1>8, <1>9, <1>10, <1>11, <1>12, <1>13, <1>14 DEF PartyNext

\* A client that reads the list of parties page by page until the total is
\* reached meets every party that was there when it began, however many parties
\* and roles are added between its pages (new rows come first and only push the
\* others back), if its last page was cut from as many rows as its total counted
\* and no role of the type was removed.
THEOREM WalksAlwaysMeetAll == MasterSpec => []WalkMeetsAll
  <1>1. PartyInit /\ CatalogInit /\ FieldInit /\ OrgInit => WalkInv BY WalkInitOk
  <1>2. WalkInv /\ [MasterNext]_<<partyVars, catalogVars, fieldVars, orgVars>> => WalkInv'
    <2> SUFFICES ASSUME WalkInv, [MasterNext]_<<partyVars, catalogVars, fieldVars, orgVars>> PROVE WalkInv'
      OBVIOUS
    <2>1. [PartyNext]_partyVars BY DEF MasterNext
    <2> QED BY <2>1, WalkStepOk
  <1>3. WalkInv => WalkMeetsAll BY DEF WalkInv, WalkOk, WalkMeetsAll, Kept
  <1> QED BY <1>1, <1>2, <1>3, PTL DEF MasterSpec

=============================================================================
