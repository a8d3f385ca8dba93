------------------------------- MODULE Catalog -------------------------------
(***************************************************************************)
(* Units, the conversions between them, products and their variants.  No   *)
(* usecase opens a transaction.  A conversion factor is modelled by its     *)
(* logarithm: factors multiply, exponents add, and the inverse is the       *)
(* negative.  One tenant; names and the other columns of a product stand    *)
(* behind its status and its barcode.                                       *)
(***************************************************************************)
EXTENDS Integers, Sequences, FiniteSets, SequencesExt

CONSTANTS
  Units,         \* calls of CreateUnit, and the units they create
  UnitLetters,   \* unit codes, apart from their case
  Conversions,   \* calls of CreateConversion, and the rows they create
  Exponents,     \* logarithms of the factors requested
  Tiny,          \* a positive factor that eight decimals cannot hold
  Zero,          \* the factor zero
  Products,      \* calls of CreateProduct, and the products they create
  Variants,      \* calls of CreateVariant, and the variants they create
  ProductCalls,  \* calls of UpdateProduct and DeleteVariant
  Skus, Barcodes,
  Missing

ASSUME ExponentsAreIntegers == Exponents \subseteq Int /\ {Tiny, Zero} \cap Exponents = {}
ASSUME UnitsFinite == IsFiniteSet(Units)
ASSUME CatalogCallersDisjoint ==
  /\ Units \cap (Conversions \cup Products \cup Variants \cup ProductCalls) = {}
  /\ Conversions \cap (Products \cup Variants \cup ProductCalls) = {}
  /\ Products \cap (Variants \cup ProductCalls) = {} /\ Variants \cap ProductCalls = {}

VARIABLES
  kpc, karg,
  unit,       \* table units: the code of each
  conv,       \* table unit_conversions, by created_at
  product,    \* table products
  variant,    \* table product_variants
  ordered,    \* history: status and barcode last asked for, for each product
  clashed     \* history: products on which two updates overlapped

catalogTables == <<unit, conv, product, variant>>
catalogVars == <<kpc, karg, catalogTables, ordered, clashed>>

ProductStatuses == {"active", "inactive"}   \* inactive stands for archived too
CatalogCallers == Units \cup Conversions \cup Products \cup Variants \cup ProductCalls
CatalogLabels == {"idle", "unit", "insert", "write", "ok", "refused"}
UnitCode == [letters : UnitLetters, upper : BOOLEAN]
ConversionRow == [from : Units, to : Units, factor : Exponents \cup {Zero}]
ProductRow == [sku : Skus \cup {Missing}, unit : Units, status : ProductStatuses,
               barcode : Barcodes \cup {Missing}]
VariantRow == [product : Products, sku : Skus]

ASSUME MissingIsNothing ==
  /\ Missing \notin Units \cup Products /\ Missing \notin Skus \cup Barcodes
  /\ Missing \notin UnitCode /\ Missing \notin ProductRow /\ Missing \notin VariantRow

CatalogInit ==
  /\ kpc = [c \in CatalogCallers |-> "idle"]
  /\ karg = [c \in CatalogCallers |-> Missing]
  /\ unit = [u \in Units |-> Missing] /\ conv = <<>>
  /\ product = [p \in Products |-> Missing]
  /\ variant = [v \in Variants |-> Missing]
  /\ ordered = [p \in Products |-> Missing] /\ clashed = {}

CatalogTo(c, label, r) ==
  /\ kpc' = [kpc EXCEPT ![c] = label]
  /\ karg' = [karg EXCEPT ![c] = r]

-----------------------------------------------------------------------------
(* Units and conversions.                                                  *)

\* The code in upper case.
NormalizeCode(code) == [code EXCEPT !.upper = TRUE]

GetUnitByID(u) == unit[u] # Missing

\* INSERT INTO units.
InsertUnit(u, code) == unit' = [unit EXCEPT ![u] = code]

\* CreateUnit: one INSERT; the unique index refuses a code that is taken.
CreateUnit(u) ==
  /\ kpc[u] = "idle"
  /\ \E spelled \in UnitCode : LET code == NormalizeCode(spelled) IN
       IF \E v \in Units : unit[v] = code
         THEN CatalogTo(u, "refused", Missing) /\ UNCHANGED unit
         ELSE CatalogTo(u, "ok", Missing) /\ InsertUnit(u, code)
  /\ UNCHANGED <<conv, product, variant, ordered, clashed>>

\* CreateConversion: the two units differ, the factor is positive, both exist.
CheckConversion(c) ==
  /\ kpc[c] = "idle"
  /\ \E from, to \in Units, factor \in Exponents \cup {Tiny, Zero} :
       IF from # to /\ factor # Zero /\ GetUnitByID(from) /\ GetUnitByID(to)
         THEN CatalogTo(c, "insert", [from |-> from, to |-> to, factor |-> factor])
         ELSE CatalogTo(c, "refused", Missing)
  /\ UNCHANGED <<catalogTables, ordered, clashed>>

\* The column has eight decimals: a tiny factor is rounded to nothing.
floatToNumeric(factor) == IF factor = Tiny THEN Zero ELSE factor

\* INSERT INTO unit_conversions.
InsertConversion(c) == conv' = Append(conv, [c EXCEPT !.factor = floatToNumeric(@)])

\* The INSERT: one conversion for each ordered pair of units.
CreateConversion(c) ==
  /\ kpc[c] = "insert"
  /\ IF \E i \in DOMAIN conv : conv[i].from = karg[c].from /\ conv[i].to = karg[c].to
       THEN CatalogTo(c, "refused", Missing) /\ UNCHANGED conv
       ELSE /\ CatalogTo(c, "ok", Missing)
            /\ InsertConversion(karg[c])
  /\ UNCHANGED <<unit, product, variant, ordered, clashed>>

\* A row gives both of its units an edge, unless its factor is nearly zero.
Touches(c, u) == c.factor # Zero /\ u \in {c.from, c.to}

\* Mutant: the inverse edge has the factor of the direct one.
EdgeAtUninverted(c, u) ==
  IF c.from = u THEN [to |-> c.to, factor |-> c.factor] ELSE [to |-> c.from, factor |-> c.factor]

\* The edge of a row at one of its units: the direct one, or the inverse.
EdgeAt(c, u) ==
  IF c.from = u THEN [to |-> c.to, factor |-> c.factor] ELSE [to |-> c.from, factor |-> 0 - c.factor]

\* The inner loop of Convert: one row, at the unit that was taken off the queue.
Visit(item, s, c) ==
  LET e == EdgeAt(c, item.node) IN
  IF ~Touches(c, item.node) \/ e.to \in s.visited THEN s
  ELSE [queue |-> Append(s.queue, [node |-> e.to, factor |-> item.factor + e.factor]),
        visited |-> s.visited \cup {e.to}]

\* The outer loop: the head of the queue, and its edges in the order of the rows.
Expand(s) ==
  LET over[n \in 0..Len(conv)] ==
        IF n = 0 THEN [queue |-> Tail(s.queue), visited |-> s.visited]
        ELSE Visit(Head(s.queue), over[n - 1], conv[n])
  IN over[Len(conv)]

\* Breadth first from one unit until the other is at the head of the queue or
\* the queue is empty.
Search(from, to) ==
  LET search[n \in 0..Cardinality(Units)] ==
        IF n = 0 THEN [queue |-> <<[node |-> from, factor |-> 0]>>, visited |-> {from}]
        ELSE LET s == search[n - 1] IN
             IF s.queue = <<>> \/ Head(s.queue).node = to THEN s ELSE Expand(s)
  IN search

\* Convert: the factor found, or Missing for ErrUnitMismatch.
Convert(from, to) ==
  LET found == Search(from, to)[Cardinality(Units)].queue IN
  IF found = <<>> THEN Missing ELSE Head(found).factor

-----------------------------------------------------------------------------
(* Products and variants.                                                  *)

GetProductBySKU(sku) == {p \in Products : product[p] # Missing /\ product[p].sku = sku}

\* CreateProduct: the SKU, if there is one, must be free ...
CheckSku(p) ==
  /\ kpc[p] = "idle"
  /\ \E sku \in Skus \cup {Missing}, u \in Units, b \in Barcodes \cup {Missing} :
       CatalogTo(p, IF sku # Missing /\ GetProductBySKU(sku) # {} THEN "refused" ELSE "unit",
                 [sku |-> sku, unit |-> u, status |-> "active", barcode |-> b])
  /\ UNCHANGED <<catalogTables, ordered, clashed>>

\* ... then the unit must exist ...
CheckUnit(p) ==
  /\ kpc[p] = "unit"
  /\ CatalogTo(p, IF GetUnitByID(karg[p].unit) THEN "insert" ELSE "refused", karg[p])
  /\ UNCHANGED <<catalogTables, ordered, clashed>>

\* INSERT INTO products, INSERT INTO product_variants.
InsertProduct(p, r) == product' = [product EXCEPT ![p] = r]
InsertVariant(v, r) == variant' = [variant EXCEPT ![v] = r]

\* Mutant: no unique index behind the check.
CreateProductNoIndex(p) ==
  /\ kpc[p] = "insert"
  /\ InsertProduct(p, karg[p])
  /\ ordered' = [ordered EXCEPT ![p] = [status |-> "active", barcode |-> karg[p].barcode]]
  /\ CatalogTo(p, "ok", Missing)
  /\ UNCHANGED <<unit, conv, variant, clashed>>

\* ... and the INSERT: the partial unique index refuses a SKU that is taken.
CreateProduct(p) ==
  /\ kpc[p] = "insert"
  /\ IF karg[p].sku # Missing /\ GetProductBySKU(karg[p].sku) # {}
       THEN CatalogTo(p, "refused", Missing) /\ UNCHANGED <<product, ordered>>
       ELSE /\ InsertProduct(p, karg[p])
            /\ ordered' = [ordered EXCEPT ![p] = [status |-> "active", barcode |-> karg[p].barcode]]
            /\ CatalogTo(p, "ok", Missing)
  /\ UNCHANGED <<unit, conv, variant, clashed>>

Given(new, old) == IF new = Missing THEN old ELSE new
Overwriting(p) == {c \in ProductCalls : kpc[c] = "write" /\ karg[c].product = p}

\* UpdateProduct: the product is read and changed as the command says ...
GetProductByID(c) ==
  /\ kpc[c] = "idle"
  /\ \E p \in Products, s \in ProductStatuses \cup {Missing}, b \in Barcodes \cup {Missing} :
       /\ product[p] # Missing
       /\ CatalogTo(c, "write",
                    [product |-> p, asked |-> [status |-> s, barcode |-> b],
                     status |-> Given(s, product[p].status),
                     barcode |-> Given(b, product[p].barcode)])
       /\ clashed' = IF Overwriting(p) # {} THEN clashed \cup {p} ELSE clashed
  /\ UNCHANGED <<catalogTables, ordered>>

\* UPDATE products: an empty barcode is passed as NULL, and COALESCE keeps the
\* one of the row.
SetProduct(p, s, b) ==
  product' = [product EXCEPT ![p].status = s, ![p].barcode = Given(b, @)]

\* ... and written back.
UpdateProduct(c) ==
  LET p == karg[c].product  want == karg[c].asked IN
  /\ kpc[c] = "write"
  /\ SetProduct(p, karg[c].status, karg[c].barcode)
  /\ ordered' = [ordered EXCEPT ![p] = [status |-> Given(want.status, @.status),
                                        barcode |-> Given(want.barcode, @.barcode)]]
  /\ CatalogTo(c, "ok", Missing)
  /\ UNCHANGED <<unit, conv, variant, clashed>>

\* CreateVariant: the product must exist ...
CheckProduct(v) ==
  /\ kpc[v] = "idle"
  /\ \E p \in Products, sku \in Skus :
       IF product[p] # Missing THEN CatalogTo(v, "insert", [product |-> p, sku |-> sku])
                               ELSE CatalogTo(v, "refused", Missing)
  /\ UNCHANGED <<catalogTables, ordered, clashed>>

\* ... and the INSERT, with its unique index on the SKU.
CreateVariant(v) ==
  /\ kpc[v] = "insert"
  /\ IF \E w \in Variants : variant[w] # Missing /\ variant[w].sku = karg[v].sku
       THEN CatalogTo(v, "refused", Missing) /\ UNCHANGED variant
       ELSE InsertVariant(v, karg[v]) /\ CatalogTo(v, "ok", Missing)
  /\ UNCHANGED <<unit, conv, product, ordered, clashed>>

DeleteVariant(c) ==
  /\ kpc[c] = "idle"
  /\ \E v \in Variants : variant[v] # Missing /\ variant' = [variant EXCEPT ![v] = Missing]
  /\ CatalogTo(c, "ok", Missing)
  /\ UNCHANGED <<unit, conv, product, ordered, clashed>>

CatalogNext ==
  \/ \E u \in Units : CreateUnit(u)
  \/ \E c \in Conversions : CheckConversion(c) \/ CreateConversion(c)
  \/ \E p \in Products : CheckSku(p) \/ CheckUnit(p) \/ CreateProduct(p)
  \/ \E c \in ProductCalls : GetProductByID(c) \/ UpdateProduct(c) \/ DeleteVariant(c)
  \/ \E v \in Variants : CheckProduct(v) \/ CreateVariant(v)

-----------------------------------------------------------------------------
(* Properties.                                                             *)

\* Type invariant.
CatalogTypeOK ==
  /\ kpc \in [CatalogCallers -> CatalogLabels]
  /\ unit \in [Units -> UnitCode \cup {Missing}]
  /\ conv \in Seq(ConversionRow)
  /\ product \in [Products -> ProductRow \cup {Missing}]
  /\ variant \in [Variants -> VariantRow \cup {Missing}]
  /\ \A i, j \in DOMAIN conv : conv[i].from = conv[j].from /\ conv[i].to = conv[j].to => i = j

\* No two units have codes that differ in their case only.
UnitCodesDiffer ==
  \A u, v \in Units : GetUnitByID(u) /\ GetUnitByID(v) /\ unit[u].letters = unit[v].letters => u = v

\* No two products, and no two variants, have the same SKU, whoever checked it
\* first.
SkusUnique ==
  /\ \A p, q \in Products :
       product[p] # Missing /\ product[q] # Missing /\ product[p].sku = product[q].sku
         => p = q \/ product[p].sku = Missing
  /\ \A v, w \in Variants :
       variant[v] # Missing /\ variant[w] # Missing /\ variant[v].sku = variant[w].sku => v = w

\* The units that are n conversions away from a, over any path of usable rows,
\* each with the product of the factors along the path.
Onward(S) ==
  LET usable == {conv[i] : i \in {j \in DOMAIN conv : conv[j].factor # Zero}}
  IN   {<<e[1].to, e[2][2] + e[1].factor>> : e \in {f \in usable \X S : f[1].from = f[2][1]}}
  \cup {<<e[1].from, e[2][2] - e[1].factor>> : e \in {f \in usable \X S : f[1].to = f[2][1]}}
Paths(a) ==
  LET after[n \in 0..Cardinality(Units)] == IF n = 0 THEN {<<a, 0>>} ELSE Onward(after[n - 1])
  IN after
Hops(a, b) == {n \in 0..Cardinality(Units) : \E x \in Paths(a)[n] : x[1] = b}

\* ConvertQuantity answers exactly when the two units are connected, and with
\* the product of the factors along a path of the fewest conversions.
ConvertTakesShortestPath ==
  \A a, b \in Units :
    IF Hops(a, b) = {} THEN Convert(a, b) = Missing
    ELSE \E n \in Hops(a, b) : (\A m \in Hops(a, b) : n <= m) /\ <<b, Convert(a, b)>> \in Paths(a)[n]

\* A product has the status and the barcode last asked for, unless two updates
\* of it overlapped.
ProductAsAsked ==
  \A p \in Products : product[p] # Missing /\ p \notin clashed =>
    ordered[p] = [status |-> product[p].status, barcode |-> product[p].barcode]
=============================================================================
