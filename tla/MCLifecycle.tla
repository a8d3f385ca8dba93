----------------------------- MODULE MCLifecycle -----------------------------
(* One run over two components that share no state: a behaviour is a life  *)
(* of the application or a series of seedings and tenant updates.          *)
EXTENDS AppLifecycle, Bootstrap

VARIABLE scene

MCOffers == {<<>>, <<1>>, <<2, 1>>, <<3, 1, 2>>, <<1, 2, 1>>}

\* Seedings and tenant updates do not read each other's columns: two seedings
\* take part, or one and a CreateTenant, or the calls of the tenant usecase.
Begun(S) == {c \in S : at[c].label # "idle"}
BootCast == \/ Begun(Creators \cup Updaters) = {}
            \/ Begun(Updaters) = {} /\ Cardinality(Begun(Runs)) <= 1
            \/ Begun(Runs) = {}

MCInit == /\ LifeInit /\ BootInit
          /\ \/ scene = "life"
             \/ scene = "boot" /\ offered = <<>>
MCNext ==
  /\ UNCHANGED scene
  /\ \/ scene = "life" /\ LifeNext /\ UNCHANGED bootVars
     \/ scene = "boot" /\ BootNext /\ BootCast' /\ UNCHANGED lifeVars
MCSpec == MCInit /\ [][MCNext]_<<lifeVars, bootVars, scene>> /\ LifeFairness

\* Types, the mutex of the registry, and one row for each key the seeder and
\* CreateTenant look up before they insert.
LifeSchema == LifeTypeOK /\ BootTypeOK /\ OneOfEach
=============================================================================
