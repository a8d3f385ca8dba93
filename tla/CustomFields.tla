---------------------------- MODULE CustomFields ----------------------------
(***************************************************************************)
(* Definitions of custom fields and the values an entity has for them.  No *)
(* usecase opens a transaction: SetEntityValues reads the definitions,      *)
(* validates, and replaces the entity's whole map of values later.  One     *)
(* tenant, one entity type.                                                 *)
(***************************************************************************)
EXTENDS Integers, FiniteSets

CONSTANTS
  Fields,         \* calls of CreateDefinition, and the definitions they create
  FieldCalls,     \* calls of UpdateDefinition and DeleteDefinition
  Setters,        \* calls of SetEntityValues
  Targets,        \* entities that have values
  FieldCodes,     \* codes, in lower case
  Values,         \* values of a field
  FieldRequests,  \* what CreateDefinition may be asked for
  FieldChanges,   \* what UpdateDefinition may be asked for
  Nil

ASSUME FieldCallersDisjoint == Fields \cap (FieldCalls \cup Setters) = {} /\ FieldCalls \cap Setters = {}

VARIABLES
  dpc, darg,
  definition,   \* table custom_field_definitions
  stored,       \* table entity_custom_fields: the values of each entity
  version,      \* history: how often each definition was written
  basis,        \* history: version of the definitions each entity's values were checked with
  dropped,      \* history: definitions deleted
  wished,       \* history: options last asked for
  crossed       \* history: definitions on which two updates overlapped

fieldHistory == <<version, basis, dropped, wished, crossed>>
fieldVars == <<dpc, darg, definition, stored, fieldHistory>>

FieldCallers == Fields \cup FieldCalls \cup Setters
FieldLabels == {"idle", "insert", "write", "upsert", "ok", "refused"}
DataTypes == {"text", "select", "json"}   \* text stands for number, boolean and date too
\* rules: the values that the type and the validation rules let through.  The
\* empty text is a value like any other, and nothing ties rules to required.
Definition == [code : FieldCodes, type : DataTypes, options : SUBSET Values, rules : SUBSET Values,
               required : BOOLEAN, default : Values \cup {Nil}, active : BOOLEAN]
\* What UpdateDefinition may set.
Change == [options : SUBSET Values, rules : SUBSET Values, required : BOOLEAN,
           default : Values \cup {Nil}, active : BOOLEAN]
ValueMap == UNION {[S -> Values] : S \in SUBSET FieldCodes}

ASSUME NilIsNothing ==
  Nil \notin Fields /\ Nil \notin Values /\ Nil \notin Definition /\ Nil \notin ValueMap
ASSUME FieldRequestsTyped == FieldRequests \subseteq Definition /\ FieldChanges \subseteq Change

FieldInit ==
  /\ dpc = [c \in FieldCallers |-> "idle"] /\ darg = [c \in FieldCallers |-> Nil]
  /\ definition = [d \in Fields |-> Nil] /\ stored = [e \in Targets |-> Nil]
  /\ version = [d \in Fields |-> 0] /\ basis = [e \in Targets |-> Nil]
  /\ dropped = {} /\ wished = [d \in Fields |-> {}] /\ crossed = {}

FieldTo(c, label, r) ==
  /\ dpc' = [dpc EXCEPT ![c] = label]
  /\ darg' = [darg EXCEPT ![c] = r]

Defined == {d \in Fields : definition[d] # Nil}
GetDefinitionByCode(code) == {d \in Defined : definition[d].code = code}

-----------------------------------------------------------------------------
(* Definitions.                                                            *)

\* CreateDefinition: a select has options, and the code is free ...
CheckDefinition(d) ==
  /\ dpc[d] = "idle"
  /\ \E r \in FieldRequests :
       IF (r.type = "select" /\ r.options = {}) \/ GetDefinitionByCode(r.code) # {}
         THEN FieldTo(d, "refused", Nil) ELSE FieldTo(d, "insert", r)
  /\ UNCHANGED <<definition, stored, fieldHistory>>

\* INSERT INTO custom_field_definitions.
InsertDefinition(d, r) == definition' = [definition EXCEPT ![d] = r]

\* ... and the INSERT, with its unique index.
CreateDefinition(d) ==
  /\ dpc[d] = "insert"
  /\ IF GetDefinitionByCode(darg[d].code) # {}
       THEN FieldTo(d, "refused", Nil) /\ UNCHANGED <<definition, version, wished>>
       ELSE /\ InsertDefinition(d, darg[d])
            /\ version' = [version EXCEPT ![d] = 1]
            /\ wished' = [wished EXCEPT ![d] = darg[d].options]
            /\ FieldTo(d, "ok", Nil)
  /\ UNCHANGED <<stored, basis, dropped, crossed>>

Rewriting(d) == {c \in FieldCalls : dpc[c] = "write" /\ darg[c].field = d}

\* A command without options keeps the ones read.
OptionsToWrite(d, options) == IF options = {} THEN definition[d].options ELSE options

\* UpdateDefinition: the definition is read; code and type stay, everything
\* else comes from the command ...
GetDefinitionByID(c) ==
  /\ dpc[c] = "idle"
  /\ \E d \in Defined, r \in FieldChanges :
       /\ FieldTo(c, "write", [field |-> d, asked |-> r.options,
            row |-> [r EXCEPT !.options = OptionsToWrite(d, @)]])
       /\ crossed' = IF Rewriting(d) # {} THEN crossed \cup {d} ELSE crossed
  /\ UNCHANGED <<definition, stored, version, basis, dropped, wished>>

\* The columns that the UPDATE sets.
SetColumns(old, r) ==
  [old EXCEPT !.options = r.options, !.rules = r.rules, !.required = r.required,
              !.default = r.default, !.active = r.active]

\* ... and the UPDATE, which finds no row when the definition was deleted.
UpdateDefinition(c) ==
  LET d == darg[c].field IN
  /\ dpc[c] = "write"
  /\ IF d \in Defined
       THEN /\ definition' = [definition EXCEPT ![d] = SetColumns(@, darg[c].row)]
            /\ version' = [version EXCEPT ![d] = @ + 1]
            /\ wished' = IF darg[c].asked = {} THEN wished ELSE [wished EXCEPT ![d] = darg[c].asked]
            /\ FieldTo(c, "ok", Nil)
       ELSE FieldTo(c, "refused", Nil) /\ UNCHANGED <<definition, version, wished>>
  /\ UNCHANGED <<stored, basis, dropped, crossed>>

\* DeleteDefinition: the values stored under its code stay.
DeleteDefinition(c) ==
  /\ dpc[c] = "idle"
  /\ \E d \in Defined : /\ definition' = [definition EXCEPT ![d] = Nil]
                        /\ dropped' = dropped \cup {d}
  /\ FieldTo(c, "ok", Nil)
  /\ UNCHANGED <<stored, version, basis, wished, crossed>>

-----------------------------------------------------------------------------
(* The values of an entity.                                                *)

ListActiveDefinitions == {d \in Defined : definition[d].active}

\* validateField: a select takes its options, a text what type and rules let
\* through (the empty text too, unless a pattern excludes it), and a JSON field
\* everything, not only objects and arrays.
validateField(def, val) ==
  CASE def.type = "select" -> val \in def.options
    [] def.type = "text" -> val \in def.rules
    [] OTHER -> TRUE

\* What a definition makes of the value for its code: the value itself, the
\* default if it is missing, or Nil for none.  The default is not validated.
Sanitized(def, raw) == IF def.code \in DOMAIN raw THEN raw[def.code] ELSE def.default

\* Mutant: a required field that is missing is passed over.
AcceptedNoRequired(def, raw) == def.code \in DOMAIN raw => validateField(def, raw[def.code])

Accepted(def, raw) ==
  IF def.code \in DOMAIN raw THEN validateField(def, raw[def.code])
                             ELSE ~def.required \/ def.default # Nil

\* ValidateValues over the active definitions: what is named by none of them is
\* left out.
ValidateValues(raw) ==
  LET defs == {definition[d] : d \in ListActiveDefinitions}
      kept == {def \in defs : Sanitized(def, raw) # Nil}
  IN IF \E def \in defs : ~Accepted(def, raw) THEN Nil
     ELSE [k \in {def.code : def \in kept} |-> Sanitized(CHOOSE def \in kept : def.code = k, raw)]

\* SetEntityValues: the definitions are read and the values checked ...
CheckValues(s) ==
  /\ dpc[s] = "idle"
  /\ \E e \in Targets, raw \in ValueMap :
       LET values == ValidateValues(raw) IN
       IF values = Nil THEN FieldTo(s, "refused", Nil)
       ELSE FieldTo(s, "upsert",
              [target |-> e, values |-> values,
               basis |-> [d \in Fields |-> IF d \in ListActiveDefinitions THEN version[d] ELSE 0]])
  /\ UNCHANGED <<definition, stored, fieldHistory>>

\* INSERT INTO entity_custom_fields ... ON CONFLICT DO UPDATE.
PutValues(e, values) == stored' = [stored EXCEPT ![e] = values]

\* ... and the whole map is replaced.
UpsertEntityValues(s) ==
  /\ dpc[s] = "upsert"
  /\ PutValues(darg[s].target, darg[s].values)
  /\ basis' = [basis EXCEPT ![darg[s].target] = darg[s].basis]
  /\ FieldTo(s, "ok", Nil)
  /\ UNCHANGED <<definition, version, dropped, wished, crossed>>

FieldNext ==
  \/ \E d \in Fields : CheckDefinition(d) \/ CreateDefinition(d)
  \/ \E c \in FieldCalls : GetDefinitionByID(c) \/ UpdateDefinition(c) \/ DeleteDefinition(c)
  \/ \E s \in Setters : CheckValues(s) \/ UpsertEntityValues(s)

-----------------------------------------------------------------------------
(* Properties.                                                             *)

\* Type invariant, with the unique index on the code.
FieldTypeOK ==
  /\ dpc \in [FieldCallers -> FieldLabels]
  /\ definition \in [Fields -> Definition \cup {Nil}]
  /\ stored \in [Targets -> ValueMap \cup {Nil}]
  /\ \A d, f \in Defined : definition[d].code = definition[f].code => d = f

\* A select field always has options to choose from.
SelectHasOptions ==
  \A d \in Defined : definition[d].type = "select" => definition[d].options # {}

\* A deleted definition does not come back, by an update that read it before
\* neither.
DeletedStaysDeleted == \A d \in dropped : definition[d] = Nil

\* A definition has the options last asked for, unless two updates of it
\* overlapped.
OptionsAsAsked == \A d \in Defined \ crossed : definition[d].options = wished[d]

\* The values an entity has fit every active definition that has not changed
\* since SetEntityValues read it: a value is allowed by it or is its default, and
\* a required field has one.  Where a definition was rewritten between the check
\* and the upsert, or later, nothing is promised, and this is the only exception.
\* This is what validator.go enforces.  docs/custom-fields.md promises more: a
\* required text that is "non-empty" (:58), while the code takes an empty one, and
\* JSON that is an "object or array" (:64), while the code takes any value.
ValuesObeyRules ==
  \A e \in Targets, d \in Fields :
    (stored[e] # Nil /\ d \in ListActiveDefinitions /\ basis[e][d] = version[d]) =>
      LET def == definition[d]  has == def.code \in DOMAIN stored[e] IN
      /\ has => stored[e][def.code] = def.default
             \/ stored[e][def.code] \in (CASE def.type = "select" -> def.options
                                           [] def.type = "text" -> def.rules
                                           [] OTHER -> Values)
      /\ def.required => has
=============================================================================
