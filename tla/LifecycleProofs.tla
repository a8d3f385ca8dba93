--------------------------- MODULE LifecycleProofs ---------------------------
(***************************************************************************)
(* TLAPS proofs about AppLifecycle and Bootstrap, for any set of modules   *)
(* with any dependencies, and any number of seedings, creations and        *)
(* updates of a tenant.                                                    *)
(***************************************************************************)
EXTENDS MCLifecycle, FiniteSetTheorems, SequenceTheorems, WellFoundedInduction, TLAPS

-----------------------------------------------------------------------------
(* Sequences without repetitions.                                          *)

Before(s, i) == {s[j] : j \in 1..(i - 1)}
Distinct(s) == \A i, j \in 1..Len(s) : s[i] = s[j] => i = j

\* A set of natural numbers that is not empty has a least element, and it is Min.
LEMMA MinIsLeast ==
  ASSUME NEW S \in SUBSET Nat, S # {}
  PROVE  Min(S) \in S /\ \A y \in S : Min(S) <= y
<1> DEFINE R == {p \in Nat \X Nat : p[1] < p[2]}
<1>1. IsWellFoundedOn(R, Nat)
  <2>1. R = OpToRel(<, Nat) BY DEF OpToRel
  <2> QED BY <2>1, NatLessThanWellFounded, Zenon
<1>2. \A x, y \in Nat : y < x => <<y, x>> \in R OBVIOUS
<1> HIDE DEF R
<1>3. PICK x \in S : \A y \in S : ~ (<<y, x>> \in R) BY <1>1, WFMin
<1>4. \A y \in S : ~ y < x BY <1>2, <1>3
<1>5. \A y \in S : x <= y BY <1>4
<1> QED BY <1>5 DEF Min

\* A prefix of a sequence without repetitions has as many elements as places.
LEMMA PrefixSize ==
  ASSUME NEW S, NEW s \in Seq(S), Distinct(s), NEW k \in 0..Len(s)
  PROVE  IsFiniteSet(Before(s, k + 1)) /\ Cardinality(Before(s, k + 1)) = k
<1> DEFINE f == [j \in 1..k |-> s[j]]
<1>1. Before(s, k + 1) = {s[j] : j \in 1..k} BY DEF Before
<1>2. k \in Nat /\ Len(s) \in Nat /\ \A j \in 1..k : j \in 1..Len(s) BY LenProperties
<1>3. f \in [1..k -> Before(s, k + 1)] BY <1>1
<1>4. \A i, j \in 1..k : f[i] = f[j] => i = j BY <1>2 DEF Distinct
<1>5. \A x \in Before(s, k + 1) : \E j \in 1..k : f[j] = x BY <1>1
<1> HIDE DEF f
<1>6. f \in Bijection(1..k, Before(s, k + 1))
  BY <1>3, <1>4, <1>5 DEF Bijection, Injection, Surjection, IsInjective
<1>7. IsFiniteSet(1..k) /\ Cardinality(1..k) = k BY <1>2, FS_Interval
<1> QED BY <1>6, <1>7, FS_Bijection DEF ExistsBijection

LEMMA ElementsAre ==
  ASSUME NEW S, NEW s \in Seq(S)
  PROVE  Elements(s) = Before(s, Len(s) + 1) /\ Elements(s) \subseteq S
BY LenProperties, ElementOfSeq DEF Elements, Before

\* What Append does to the places.
LEMMA AppendPlaces ==
  ASSUME NEW S, NEW s \in Seq(S), NEW x \in S
  PROVE  /\ Append(s, x) \in Seq(S) /\ Len(Append(s, x)) = Len(s) + 1
         /\ Elements(Append(s, x)) = Elements(s) \cup {x}
         /\ \A i \in 1..Len(s) : Append(s, x)[i] = s[i]
         /\ Append(s, x)[Len(s) + 1] = x
         /\ \A i \in 1..(Len(s) + 1) : Before(Append(s, x), i) = Before(s, i)
         /\ Distinct(s) /\ x \notin Elements(s) => Distinct(Append(s, x))
<1>1. /\ Append(s, x) \in Seq(S) /\ Len(Append(s, x)) = Len(s) + 1
      /\ \A i \in 1..Len(s) : Append(s, x)[i] = s[i]
      /\ Append(s, x)[Len(s) + 1] = x
  BY AppendProperties
<1> DEFINE t == Append(s, x)
<1> HIDE DEF t
<1>2. Len(t) = Len(s) + 1 /\ (\A i \in 1..Len(s) : t[i] = s[i]) /\ t[Len(s) + 1] = x
  BY <1>1 DEF t
<1>3. Len(s) \in Nat BY LenProperties
<1>4. Elements(t) = Elements(s) \cup {x} BY <1>2, <1>3 DEF Elements
<1>5. \A i \in 1..(Len(s) + 1) : Before(t, i) = Before(s, i) BY <1>2, <1>3 DEF Before
<1>6. ASSUME Distinct(s), x \notin Elements(s) PROVE Distinct(t)
  BY <1>2, <1>3, <1>6 DEF Distinct, Elements
<1> QED BY <1>1, <1>4, <1>5, <1>6 DEF t

-----------------------------------------------------------------------------
(* The application's life.                                                 *)

Early == {"register", "resolve", "duplicate", "missing", "cycle"}
Late == {"init", "initFailed", "bind", "ready"}

\* Each element of s is the least module whose dependencies come before it.
RightOrder(s, mods, ds) ==
  /\ s \in Seq(mods) /\ Distinct(s)
  /\ \A i \in 1..Len(s) :
       /\ ds[s[i]] \subseteq Before(s, i)
       /\ s[i] = Min({m \in mods \ Before(s, i) : ds[m] \subseteq Before(s, i)})

NewTyped ==
  /\ phase \in Early \cup Late /\ offered \in Seq(Names)
  /\ deps \in [Names -> SUBSET Names]
  /\ registered \subseteq Names /\ IsFiniteSet(registered)
  /\ permitted \subseteq registered /\ bound \subseteq registered
  /\ pool = "closed" => phase \in Failures

\* Kahn's algorithm: the queue holds what is ready and not resolved, the in-degrees
\* count what each module still waits for.
KahnInv ==
  phase = "resolve" =>
    /\ RightOrder(kahn.resolved, registered, deps)
    /\ kahn.queue = {m \in registered \ Elements(kahn.resolved) :
                       deps[m] \subseteq Elements(kahn.resolved)}
    /\ kahn.inDegree =
         [m \in registered |-> Cardinality(deps[m] \ Elements(kahn.resolved))]

OrderInv ==
  /\ phase \in Early => order = <<>>
  /\ phase \in Late => RightOrder(order, registered, deps) /\ Elements(order) = registered
  /\ phase \in Late \cup {"resolve", "cycle"} => \A m \in registered : deps[m] \subseteq registered
  /\ phase = "ready" => bound = registered
  /\ CyclesAreReal

\* The modules that run are the first ones of order.
UpTo(k) == Running = Before(order, k + 1)
ModuleInv ==
  /\ module \in [Names -> {"new", "running", "stopped"}]
  /\ phase \in Early => \A m \in Names : module[m] = "new"
  /\ \E k \in 0..Len(order) : UpTo(k)

\* The shutdown paths: RPCs have ended before ShutdownAll, and what it has passed
\* no longer runs.
DownInv ==
  /\ main \in {"idle", "grpc", "listen", "serving", "waiting", "returned", "error"}
  /\ phase # "ready" => main = "idle" /\ \A p \in Paths : path[p] = 0
  /\ main = "idle" => worker # "on" /\ ~ cancelled
  /\ path \in [Paths -> Nat] /\ \A p \in Paths : path[p] <= Len(PathSteps[p])
  /\ holder = {} \/ \E p \in Paths : holder = {p} /\ Step(p) = "modules"
  /\ holder # {} =>
       /\ left \in Seq(Names) /\ Len(left) <= Len(order)
       /\ \A i \in 1..Len(left) : left[i] = order[i]
       /\ \A i \in 1..Len(order) : i > Len(left) => order[i] \notin Running

DrainInv ==
  /\ \A p \in Paths : (path[p] >= 3 => rpc = "closed") /\ (path[p] >= 4 => rpcs = 0)
  /\ (\E m \in registered : module[m] = "stopped") => rpc = "closed" /\ rpcs = 0
  /\ requests \subseteq registered /\ rpcs \in 0..MaxRpcs

\* The inductive invariant of AppLifecycle.
LifeInv == NewTyped /\ KahnInv /\ OrderInv /\ ModuleInv /\ DownInv /\ DrainInv

LEMMA LifeInitInv ==
  ASSUME LifeInit
  PROVE  LifeInv
<1> USE DEF LifeInit
<1>1. NewTyped BY OffersOfNames, FS_EmptySet DEF NewTyped, Early
<1>2. KahnInv BY DEF KahnInv
<1>3. OrderInv BY DEF OrderInv, Early, Late, CyclesAreReal
<1>4. Running = {} /\ Before(order, 0 + 1) = {} BY DEF Running, Before
<1>5. Len(order) = 0 OBVIOUS
<1>6. ModuleInv BY <1>4, <1>5 DEF ModuleInv, UpTo
<1>7. \A p \in Paths : path[p] = 0 /\ Len(PathSteps[p]) \in {6, 8} BY DEF Paths, PathSteps
<1>8. cancelled = FALSE BY Zenon
<1>9. DownInv BY <1>7, <1>8 DEF DownInv
<1>10. DrainInv BY <1>7, RpcsNatural DEF DrainInv
<1> QED BY <1>1, <1>2, <1>3, <1>6, <1>9, <1>10 DEF LifeInv

\* A step outside New leaves what New has built.
LEMMA NewKeeps ==
  ASSUME LifeInv, UNCHANGED newVars
  PROVE  NewTyped' /\ KahnInv' /\ OrderInv'
<1> USE DEF newVars, LifeInv
<1>1. NewTyped' BY DEF NewTyped
<1>2. KahnInv'
  <2>1. RightOrder(kahn.resolved, registered, deps)' <=> RightOrder(kahn.resolved, registered, deps)
    OBVIOUS
  <2> QED BY <2>1 DEF KahnInv
<1>3. OrderInv' BY DEF OrderInv, CyclesAreReal
<1> QED BY <1>1, <1>2, <1>3

LEMMA ModulesKeep ==
  ASSUME LifeInv, UNCHANGED <<newVars, module>>
  PROVE  ModuleInv'
BY DEF LifeInv, ModuleInv, newVars, UpTo, Running

\* The steps of Start, Cancel and the traffic.
LEMMA StartKeeps ==
  ASSUME LifeInv, StartStep \/ Cancel
  PROVE  LifeInv'
<1>1. UNCHANGED <<newVars, module, path, holder, left, trafficVars>>
  BY DEF StartStep, StartWorker, StartGRPC, Listen, Unblock, StartReturn, Cancel, downVars
<1>2. NewTyped' /\ KahnInv' /\ OrderInv' /\ ModuleInv' BY <1>1, NewKeeps, ModulesKeep
<1>3. main # "idle" => phase = "ready" BY DEF LifeInv, DownInv
<1>4. /\ main' \in {"idle", "grpc", "listen", "serving", "waiting", "returned", "error"}
      /\ phase # "ready" => main' = "idle"
      /\ main' # "idle"
  BY <1>3 DEF LifeInv, DownInv, StartStep, StartWorker, StartGRPC, Listen, Unblock, StartReturn, Cancel
<1>5. DownInv'
  BY <1>1, <1>4 DEF LifeInv, DownInv, newVars, Step, Running
<1>6. rpc = "closed" => rpc' = "closed"
  BY DEF StartStep, StartWorker, StartGRPC, Listen, Unblock, StartReturn, Cancel
<1>7. DrainInv' BY <1>1, <1>6 DEF LifeInv, DrainInv, newVars, trafficVars
<1> QED BY <1>2, <1>5, <1>7 DEF LifeInv

LEMMA TrafficKeeps ==
  ASSUME LifeInv, Traffic
  PROVE  LifeInv'
<1>1. UNCHANGED <<newVars, module, main, path, holder, left, cancelled, worker, rpc>>
  BY DEF Traffic, BeginRequest, EndRequest, BeginRPC, EndRPC, downVars
<1>2. NewTyped' /\ KahnInv' /\ OrderInv' /\ ModuleInv' BY <1>1, NewKeeps, ModulesKeep
<1>3. DownInv' BY <1>1 DEF LifeInv, DownInv, newVars, Step, Running
<1>4. requests' \subseteq registered
  BY DEF LifeInv, DrainInv, Traffic, BeginRequest, EndRequest, BeginRPC, EndRPC
<1>5. rpcs' \in 0..MaxRpcs /\ (rpcs = 0 /\ rpc = "closed" => rpcs' = 0)
  BY RpcsNatural DEF LifeInv, DrainInv, Traffic, BeginRequest, EndRequest, BeginRPC, EndRPC
<1>6. \A p \in Paths : path[p] >= 4 => rpc = "closed" /\ rpcs = 0
  BY DEF LifeInv, DownInv, DrainInv
<1>7. DrainInv' BY <1>1, <1>4, <1>5, <1>6 DEF LifeInv, DrainInv, newVars
<1> QED BY <1>2, <1>3, <1>7 DEF LifeInv

\* Where a path stands, by its number.
LEMMA PathPlaces ==
  ASSUME LifeInv, NEW p \in Paths
  PROVE  /\ path[p] \in Nat /\ path[p] <= Len(PathSteps[p])
         /\ Step(p) = "off" <=> path[p] = 0
         /\ Step(p) = "cancel" <=> path[p] = 1
         /\ Step(p) = "drain" <=> path[p] = 2
         /\ Step(p) = "rpc" <=> path[p] = 3
         /\ Step(p) \in {"modules", "limiter", "http", "wait"}
              => path[p] >= 4 /\ path[p] < Len(PathSteps[p])
         /\ Len(PathSteps[p]) \in {6, 8}
<1>1. path[p] \in Nat /\ path[p] <= Len(PathSteps[p]) BY DEF LifeInv, DownInv
<1>2. CASE p = "signal"
  <2>1. PathSteps[p] = <<"cancel", "drain", "rpc", "modules", "limiter", "http", "wait", "done">>
    BY <1>2 DEF PathSteps
  <2>2. path[p] \in {0, 1, 2, 3, 4, 5, 6, 7, 8} BY <1>1, <2>1
  <2> QED BY <1>1, <2>1, <2>2 DEF Step
<1>3. CASE p = "shutdown"
  <2>1. PathSteps[p] = <<"cancel", "drain", "rpc", "limiter", "modules", "done">>
    BY <1>3 DEF PathSteps
  <2>2. path[p] \in {0, 1, 2, 3, 4, 5, 6} BY <1>1, <2>1
  <2> QED BY <1>1, <2>1, <2>2 DEF Step
<1> QED BY <1>2, <1>3 DEF Paths

\* A step of a path that advances and stops no module.
LEMMA PathAdvances ==
  ASSUME LifeInv, NEW p \in Paths, Advance(p), UNCHANGED <<newVars, module, main, left, cancelled, trafficVars>>,
         path[p] < Len(PathSteps[p]), phase = "ready",
         \/ holder' = {}
         \/ holder' = holder /\ Step(p) # "modules",
         path[p] = 2 => rpc' = "closed",
         path[p] = 3 => rpcs = 0,
         rpc = "closed" => rpc' = "closed",
         worker' = worker \/ worker' = "off"
  PROVE  LifeInv'
<1>1. NewTyped' /\ KahnInv' /\ OrderInv' /\ ModuleInv' BY NewKeeps, ModulesKeep
<1>2. path \in [Paths -> Nat] BY DEF LifeInv, DownInv
<1>3. /\ path' \in [Paths -> Nat] /\ path'[p] = path[p] + 1
      /\ \A q \in Paths : q # p => path'[q] = path[q]
  BY <1>2 DEF Advance
<1>4. Len(PathSteps[p]) \in Nat BY PathPlaces
<1>5. \A q \in Paths : path'[q] <= Len(PathSteps[q])
  BY <1>2, <1>3, <1>4 DEF LifeInv, DownInv
<1>6. \A q \in Paths : q # p => Step(q)' = Step(q) BY <1>3 DEF Step
<1>7. holder' = {} \/ \E q \in Paths : holder' = {q} /\ Step(q)' = "modules"
  BY <1>6 DEF LifeInv, DownInv
<1>8. DownInv'
  BY <1>3, <1>5, <1>7 DEF LifeInv, DownInv, newVars, Running
<1>9. DrainInv'
  <2>1. \A q \in Paths : (path'[q] >= 3 => rpc' = "closed") /\ (path'[q] >= 4 => rpcs' = 0)
    BY <1>2, <1>3 DEF LifeInv, DrainInv, trafficVars
  <2> QED BY <2>1 DEF LifeInv, DrainInv, trafficVars, newVars
<1> QED BY <1>1, <1>8, <1>9 DEF LifeInv

LEMMA LockRegistryKeeps ==
  ASSUME LifeInv, NEW p \in Paths, LockRegistry(p)
  PROVE  LifeInv'
<1>1. UNCHANGED <<newVars, module, main, path, cancelled, worker, rpc, http, trafficVars>>
  BY DEF LockRegistry
<1>2. NewTyped' /\ KahnInv' /\ OrderInv' /\ ModuleInv' BY <1>1, NewKeeps, ModulesKeep
<1>3. Step(p) = "modules" /\ holder' = {p} /\ left' = order BY DEF LockRegistry
<1>4. phase = "ready"
  BY <1>3, PathPlaces DEF LifeInv, DownInv
<1>5. order \in Seq(Names)
  BY <1>4 DEF LifeInv, OrderInv, Late, RightOrder, NewTyped
<1>6. Len(order) \in Nat BY <1>5, LenProperties
<1>7. Step(p)' = Step(p) BY <1>1 DEF Step
<1>8. order' = order BY <1>1 DEF newVars
<1>9. DownInv'
  BY <1>1, <1>3, <1>5, <1>6, <1>7, <1>8 DEF LifeInv, DownInv, newVars
<1>10. DrainInv' BY <1>1 DEF LifeInv, DrainInv, newVars, trafficVars
<1> QED BY <1>2, <1>9, <1>10 DEF LifeInv

\* Stopping the module at the end of left: the modules that run are still the first
\* ones of order.
LEMMA ShutdownModuleKeeps ==
  ASSUME LifeInv, NEW p \in Paths, ShutdownModule(p)
  PROVE  LifeInv'
<1>1. UNCHANGED <<newVars, main, cancelled, worker, rpc, http, trafficVars>> /\ holder = {p}
  BY DEF ShutdownModule
<1>2. Step(p) = "modules" BY <1>1 DEF LifeInv, DownInv
<1>3. phase = "ready" BY <1>2, PathPlaces DEF LifeInv, DownInv
<1>4. path[p] >= 4 /\ path[p] < Len(PathSteps[p]) BY <1>2, PathPlaces
<1>5. CASE left = <<>>
  <2>1. holder' = {} /\ Advance(p) /\ UNCHANGED <<left, module>> BY <1>5 DEF ShutdownModule
  <2>2. path[p] # 2 /\ path[p] # 3 BY <1>2, PathPlaces
  <2> QED BY <1>1, <1>3, <1>4, <2>1, <2>2, PathAdvances
<1>6. CASE left # <<>>
  <2> DEFINE n == Len(left)
             m == LastOf(left)
  <2>1. UNCHANGED <<holder, path>> /\ module' = [module EXCEPT ![m] = "stopped"]
        /\ left' = SubSeq(left, 1, n - 1)
    BY <1>6 DEF ShutdownModule
  <2>2. left \in Seq(Names) /\ n <= Len(order) /\ (\A i \in 1..n : left[i] = order[i])
        /\ \A i \in 1..Len(order) : i > n => order[i] \notin Running
    BY <1>1 DEF LifeInv, DownInv
  <2>3. n \in Nat /\ n > 0 BY <1>6, <2>2, EmptySeq, LenProperties
  <2>4. order \in Seq(registered) /\ Distinct(order) /\ registered \subseteq Names
        /\ Elements(order) = registered
    BY <1>3 DEF LifeInv, OrderInv, Late, RightOrder, NewTyped
  <2>5. Len(order) \in Nat BY <2>4, LenProperties
  <2>6. m = order[n] /\ m \in registered
    BY <2>2, <2>3, <2>4, <2>5, ElementOfSeq DEF LastOf
  <2>7. /\ left' \in Seq(Names) /\ Len(left') = n - 1
        /\ \A i \in 1..(n - 1) : left'[i] = left[i]
    <3>1. \A i \in 1..(n - 1) : left[i] \in Names BY <2>2, <2>3, ElementOfSeq
    <3>2. n - 1 \in Int /\ 1 \in Int /\ n - 1 >= 0 BY <2>3
    <3> HIDE DEF n
    <3>3. /\ SubSeq(left, 1, n - 1) \in Seq(Names)
          /\ Len(SubSeq(left, 1, n - 1)) = IF 1 <= n - 1 THEN (n - 1) - 1 + 1 ELSE 0
          /\ \A i \in 1..((n - 1) - 1 + 1) : SubSeq(left, 1, n - 1)[i] = left[1 + i - 1]
      BY <3>1, <3>2, SubSeqProperties
    <3> QED BY <2>1, <2>3, <3>3
  <2> HIDE DEF n, m
  <2>8. /\ module \in [Names -> {"new", "running", "stopped"}]
        /\ module' \in [Names -> {"new", "running", "stopped"}]
        /\ module'[m] = "stopped" /\ \A x \in Names : x # m => module'[x] = module[x]
    BY <2>1, <2>4, <2>6 DEF LifeInv, ModuleInv
  <2>9. order' = order /\ registered' = registered /\ phase' = phase /\ deps' = deps
    BY <1>1 DEF newVars
  <2>10. Running' = Running \ {m} BY <2>4, <2>6, <2>8, <2>9 DEF Running
  <2>11. PICK k \in 0..Len(order) : Running = Before(order, k + 1)
    BY DEF LifeInv, ModuleInv, UpTo
  <2>12. k <= n
    <3>1. SUFFICES ASSUME k > n PROVE FALSE BY <2>3, <2>5, <2>11
    <3>2. order[k] \in Running BY <2>3, <2>5, <2>11, <3>1 DEF Before
    <3> QED BY <2>2, <2>3, <2>5, <2>11, <3>1, <3>2 DEF n
  <2>13. \E j \in 0..Len(order) : Running' = Before(order, j + 1)
    <3>1. CASE k = n
      <4>1. \A i \in 1..(k - 1) : order[i] # m
        BY <2>3, <2>4, <2>5, <2>6, <2>2, <3>1 DEF Distinct, n
      <4>2. Before(order, k + 1) = {order[i] : i \in 1..k} BY <2>11 DEF Before
      <4>3. Before(order, (k - 1) + 1) = {order[i] : i \in 1..(k - 1)} BY <2>11 DEF Before
      <4>4. {order[i] : i \in 1..k} = {order[i] : i \in 1..(k - 1)} \cup {order[k]}
        BY <2>3, <3>1
      <4>5. Running' = Before(order, (k - 1) + 1)
        BY <2>6, <2>10, <2>11, <3>1, <4>1, <4>2, <4>3, <4>4
      <4>6. k - 1 \in 0..Len(order) BY <2>3, <2>5, <2>11, <3>1
      <4> QED BY <4>5, <4>6
    <3>2. CASE k < n
      <4>1. \A i \in 1..k : order[i] # m
        BY <2>3, <2>4, <2>5, <2>6, <2>2, <3>2 DEF Distinct, n
      <4>2. m \notin Running BY <2>11, <4>1 DEF Before
      <4> QED BY <2>10, <2>11, <4>2
    <3> QED BY <2>3, <2>11, <2>12, <3>1, <3>2
  <2>14. ModuleInv'
    BY <1>3, <2>8, <2>9, <2>13 DEF ModuleInv, UpTo, Early
  <2>15. Step(p)' = Step(p) BY <2>1 DEF Step
  <2>16. \A i \in 1..Len(order) : i > n - 1 => order[i] \notin Running'
    BY <2>2, <2>3, <2>5, <2>6, <2>10 DEF n
  <2>17. DownInv'
    <3>1. /\ left' \in Seq(Names) /\ Len(left') <= Len(order')
          /\ \A i \in 1..Len(left') : left'[i] = order'[i]
          /\ \A i \in 1..Len(order') : i > Len(left') => order'[i] \notin Running'
      BY <2>2, <2>3, <2>5, <2>7, <2>9, <2>16 DEF n
    <3> QED BY <1>1, <1>2, <1>3, <2>1, <2>9, <2>15, <3>1 DEF LifeInv, DownInv
  <2>18. rpc = "closed" /\ rpcs = 0 BY <1>4, PathPlaces DEF LifeInv, DrainInv
  <2>19. DrainInv' BY <1>1, <2>1, <2>9, <2>18 DEF LifeInv, DrainInv, trafficVars
  <2>20. NewTyped' /\ KahnInv' /\ OrderInv' BY <1>1, NewKeeps
  <2> QED BY <2>14, <2>17, <2>19, <2>20 DEF LifeInv
<1> QED BY <1>5, <1>6

LEMMA PathKeeps ==
  ASSUME LifeInv, NEW p \in Paths, PathStep(p)
  PROVE  LifeInv'
<1>1. path[p] # 0 => phase = "ready" BY DEF LifeInv, DownInv
<1>2. main # "idle" => phase = "ready" BY DEF LifeInv, DownInv
<1>3. 3 < Len(PathSteps[p]) BY DEF Paths, PathSteps
<1>4. CASE BeginPath(p)
  <2>1. path[p] = 0 /\ phase = "ready" BY <1>2, <1>4 DEF BeginPath
  <2>2. Step(p) # "modules" BY <2>1 DEF Step
  <2> QED BY <1>3, <1>4, <2>1, <2>2, PathAdvances DEF BeginPath
<1>5. CASE CancelWorker(p)
  <2>1. path[p] = 1 BY <1>5, PathPlaces DEF CancelWorker
  <2>2. Step(p) # "modules" BY <1>5 DEF CancelWorker
  <2>3. phase = "ready" BY <1>1, <2>1
  <2>4. path[p] < Len(PathSteps[p]) BY <1>3, <2>1, PathPlaces
  <2> QED BY <1>5, <2>1, <2>2, <2>3, <2>4, PathAdvances DEF CancelWorker
<1>6. CASE DrainRPC(p)
  <2>1. path[p] = 2 BY <1>6, PathPlaces DEF DrainRPC
  <2>2. Step(p) # "modules" BY <1>6 DEF DrainRPC
  <2>3. phase = "ready" BY <1>1, <2>1
  <2>4. path[p] < Len(PathSteps[p]) BY <1>3, <2>1, PathPlaces
  <2> QED BY <1>6, <2>1, <2>2, <2>3, <2>4, PathAdvances DEF DrainRPC
<1>7. CASE StopRPC(p)
  <2>1. path[p] = 3 BY <1>7, PathPlaces DEF StopRPC
  <2>2. Step(p) # "modules" BY <1>7 DEF StopRPC
  <2>3. phase = "ready" BY <1>1, <2>1
  <2>4. path[p] < Len(PathSteps[p]) BY <1>3, <2>1, PathPlaces
  <2> QED BY <1>7, <2>1, <2>2, <2>3, <2>4, PathAdvances DEF StopRPC
<1>8. CASE CloseLimiter(p) \/ StopHTTP(p) \/ AwaitHTTP(p)
  <2>1. Step(p) \in {"limiter", "http", "wait"} /\ Advance(p) /\ rpc' = rpc
        /\ UNCHANGED <<newVars, module, main, holder, left, cancelled, worker, trafficVars>>
    BY <1>8 DEF CloseLimiter, StopHTTP, AwaitHTTP
  <2>2. path[p] >= 4 /\ path[p] < Len(PathSteps[p]) /\ path[p] \in Nat BY <2>1, PathPlaces
  <2>3. path[p] # 0 /\ path[p] # 2 /\ path[p] # 3 BY <2>2
  <2> QED BY <1>1, <2>1, <2>2, <2>3, PathAdvances
<1> QED BY <1>4, <1>5, <1>6, <1>7, <1>8, LockRegistryKeeps, ShutdownModuleKeeps DEF PathStep

\* While New is under way no path has begun and nothing is stopped.
LEMMA DownWhileNew ==
  ASSUME LifeInv, phase # "ready", UNCHANGED <<main, downVars, worker, rpc, http, trafficVars>>,
         registered \subseteq registered',
         \A m \in registered' : module'[m] = "stopped" => m \in registered /\ module[m] = "stopped"
  PROVE  DownInv' /\ DrainInv'
<1> USE DEF downVars, trafficVars
<1>1. main = "idle" /\ \A p \in Paths : path[p] = 0 BY DEF LifeInv, DownInv
<1>2. \A p \in Paths : Step(p) = "off" BY <1>1 DEF Step
<1>3. holder = {} BY <1>2 DEF LifeInv, DownInv
<1>4. DownInv' BY <1>1, <1>3 DEF LifeInv, DownInv
<1>5. DrainInv' BY <1>1 DEF LifeInv, DrainInv
<1> QED BY <1>4, <1>5

\* While there is no order no module has been touched.
LEMMA ModulesUntouched ==
  ASSUME LifeInv, phase \in Early, module' = module, order' = <<>>, registered' \subseteq Names
  PROVE  ModuleInv'
<1>1. \A m \in Names : module[m] = "new" BY DEF LifeInv, ModuleInv
<1>2. Running' = {} BY <1>1 DEF Running
<1>3. Before(order, 0 + 1)' = {} BY DEF Before
<1>4. 0 \in 0..Len(order') OBVIOUS
<1> QED BY <1>1, <1>2, <1>3, <1>4 DEF LifeInv, ModuleInv, UpTo

LEMMA RegisterKeeps ==
  ASSUME LifeInv, NEW m \in Names, Register(m)
  PROVE  LifeInv'
<1>1. phase = "register" /\ offered # <<>> /\ UNCHANGED <<deps, kahn, order, permitted, bound, runVars>>
  BY DEF Register
<1>2. \/ phase' = "duplicate" /\ pool' = "closed" /\ registered' = registered /\ offered' = offered
      \/ registered' = registered \cup {m} /\ offered' = Tail(offered) /\ UNCHANGED <<phase, pool>>
  BY DEF Register, FailNew
<1>3. offered \in Seq(Names) /\ order = <<>> /\ \A x \in Names : module[x] = "new"
  BY <1>1 DEF LifeInv, NewTyped, OrderInv, ModuleInv, Early
<1>4. Tail(offered) \in Seq(Names) BY <1>1, <1>3, HeadTailProperties
<1>5. registered' \subseteq Names /\ IsFiniteSet(registered')
  BY <1>2, FS_AddElement DEF LifeInv, NewTyped
<1>6. NewTyped'
  BY <1>1, <1>2, <1>3, <1>4, <1>5 DEF LifeInv, NewTyped, Early, Failures
<1>7. KahnInv' BY <1>1, <1>2 DEF KahnInv
<1>8. OrderInv' BY <1>1, <1>2, <1>3 DEF OrderInv, CyclesAreReal, Early, Late
<1>9. ModuleInv' BY <1>1, <1>3, <1>5, ModulesUntouched DEF Early, runVars
<1>10. DownInv' /\ DrainInv' BY <1>1, <1>2, <1>3, <1>5, DownWhileNew DEF runVars
<1> QED BY <1>6, <1>7, <1>8, <1>9, <1>10 DEF LifeInv

LEMMA StartResolveKeeps ==
  ASSUME LifeInv, StartResolve
  PROVE  LifeInv'
<1>1. phase = "register" /\ UNCHANGED <<offered, deps, registered, order, permitted, bound, runVars>>
  BY DEF StartResolve
<1>2. order = <<>> /\ order' = <<>> /\ registered' \subseteq Names /\ \A x \in Names : module[x] = "new"
  BY <1>1 DEF LifeInv, NewTyped, OrderInv, ModuleInv, Early
<1>3. ModuleInv' BY <1>1, <1>2, ModulesUntouched DEF Early, runVars
<1>4. DownInv' /\ DrainInv' BY <1>1, <1>2, DownWhileNew DEF runVars
<1>5. CASE \E m \in registered : ~ deps[m] \subseteq registered
  <2>1. phase' = "missing" /\ pool' = "closed" BY <1>5 DEF StartResolve, FailNew
  <2>2. NewTyped' BY <1>1, <2>1 DEF LifeInv, NewTyped, Early, Failures
  <2>3. KahnInv' BY <2>1 DEF KahnInv
  <2>4. OrderInv' BY <1>2, <2>1 DEF OrderInv, CyclesAreReal, Early, Late
  <2> QED BY <1>3, <1>4, <2>2, <2>3, <2>4 DEF LifeInv
<1>6. CASE \A m \in registered : deps[m] \subseteq registered
  <2>1. /\ phase' = "resolve" /\ pool' = pool
        /\ kahn' = [inDegree |-> [m \in registered |-> Cardinality(deps[m])],
                    queue |-> {m \in registered : deps[m] = {}}, resolved |-> <<>>]
    BY <1>6 DEF StartResolve
  <2>2. NewTyped' BY <1>1, <2>1 DEF LifeInv, NewTyped, Early, Failures
  <2>3. kahn'.resolved = <<>> /\ kahn'.queue = {m \in registered : deps[m] = {}}
        /\ kahn'.inDegree = [m \in registered |-> Cardinality(deps[m])]
    BY <2>1
  <2>4. Elements(<<>>) = {} BY DEF Elements
  <2>5. RightOrder(kahn.resolved, registered, deps)' BY <2>3 DEF RightOrder, Distinct
  <2>6. /\ {m \in registered : deps[m] = {}} = {m \in registered \ {} : deps[m] \subseteq {}}
        /\ [m \in registered |-> Cardinality(deps[m])]
             = [m \in registered |-> Cardinality(deps[m] \ {})]
    <3>1. \A m \in registered : deps[m] \ {} = deps[m] OBVIOUS
    <3> QED BY <3>1
  <2>7. KahnInv' BY <1>1, <2>3, <2>4, <2>5, <2>6 DEF KahnInv
  <2>8. OrderInv' BY <1>1, <1>2, <1>6, <2>1 DEF OrderInv, CyclesAreReal, Early, Late
  <2> QED BY <1>3, <1>4, <2>2, <2>7, <2>8 DEF LifeInv
<1> QED BY <1>5, <1>6

\* The modules that have been resolved have their dependencies resolved.
LEMMA ResolvedClosed ==
  ASSUME NEW s, RightOrder(s, registered, deps)
  PROVE  \A m \in Elements(s) : deps[m] \subseteq Elements(s)
<1>1. Len(s) \in Nat BY LenProperties DEF RightOrder
<1>2. \A i \in 1..Len(s) : Before(s, i) \subseteq Elements(s) BY <1>1 DEF Elements, Before
<1>3. \A i \in 1..Len(s) : deps[s[i]] \subseteq Elements(s) BY <1>2 DEF RightOrder
<1> QED BY <1>3 DEF Elements

LEMMA KahnStepKeeps ==
  ASSUME LifeInv, KahnStep
  PROVE  LifeInv'
<1>1. /\ phase = "resolve" /\ kahn.queue # {}
      /\ UNCHANGED <<phase, offered, deps, registered, order, permitted, bound, pool, runVars>>
  BY DEF KahnStep
<1>2. order = <<>> /\ order' = <<>> /\ registered' \subseteq Names
      /\ (\A x \in Names : module[x] = "new") /\ registered \subseteq Nat /\ IsFiniteSet(registered)
      /\ \A m \in registered : deps[m] \subseteq registered
  BY <1>1, NamesAreNumbers DEF LifeInv, NewTyped, OrderInv, ModuleInv, Early
<1>3. ModuleInv' BY <1>1, <1>2, ModulesUntouched DEF Early, runVars
<1>4. DownInv' /\ DrainInv' BY <1>1, <1>2, DownWhileNew DEF runVars
<1>5. NewTyped' BY <1>1 DEF LifeInv, NewTyped
<1>6. OrderInv' BY <1>1, <1>2 DEF LifeInv, OrderInv, CyclesAreReal, Late
<1> DEFINE curr == Min(kahn.queue)
           s == kahn.resolved
           R == Elements(kahn.resolved)
           t == Append(kahn.resolved, curr)
           inDegree == [m \in registered |->
                          IF curr \in deps[m] THEN kahn.inDegree[m] - 1 ELSE kahn.inDegree[m]]
           freed == {m \in registered : curr \in deps[m] /\ inDegree[m] = 0}
<1>7. /\ RightOrder(s, registered, deps)
      /\ kahn.queue = {m \in registered \ R : deps[m] \subseteq R}
      /\ kahn.inDegree = [m \in registered |-> Cardinality(deps[m] \ R)]
  BY <1>1 DEF LifeInv, KahnInv
<1>8. curr \in kahn.queue BY <1>1, <1>2, <1>7, MinIsLeast
<1>9. curr \in registered /\ curr \notin R /\ deps[curr] \subseteq R BY <1>7, <1>8
<1>10. kahn' = [inDegree |-> inDegree, queue |-> (kahn.queue \ {curr}) \cup freed, resolved |-> t]
  BY DEF KahnStep, Taken
<1>11. kahn'.resolved = t /\ kahn'.inDegree = inDegree
       /\ kahn'.queue = (kahn.queue \ {curr}) \cup freed
  BY <1>10
<1>12. s \in Seq(registered) /\ Distinct(s) BY <1>7 DEF RightOrder
<1>13. R \subseteq registered BY <1>12, ElementsAre
<1> HIDE DEF curr
<1>14. /\ t \in Seq(registered) /\ Len(t) = Len(s) + 1 /\ Elements(t) = R \cup {curr}
       /\ (\A i \in 1..Len(s) : t[i] = s[i]) /\ t[Len(s) + 1] = curr
       /\ (\A i \in 1..(Len(s) + 1) : Before(t, i) = Before(s, i)) /\ Distinct(t)
  BY <1>9, <1>12, AppendPlaces
<1>15. Len(s) \in Nat /\ R = Before(s, Len(s) + 1) BY <1>12, ElementsAre, LenProperties
<1>16. \A m \in R : deps[m] \subseteq R BY <1>7, ResolvedClosed
<1> HIDE DEF s, R, t
<1>17. \A m \in registered : IsFiniteSet(deps[m] \ R) /\ IsFiniteSet(deps[m] \ (R \cup {curr}))
  <2>1. \A m \in registered : deps[m] \ R \in SUBSET registered
                              /\ deps[m] \ (R \cup {curr}) \in SUBSET registered
    BY <1>2
  <2> QED BY <1>2, <2>1, FS_Subset
<1>18. \A m \in registered : inDegree[m] = Cardinality(deps[m] \ (R \cup {curr}))
  <2>1. SUFFICES ASSUME NEW m \in registered
                 PROVE  inDegree[m] = Cardinality(deps[m] \ (R \cup {curr}))
    OBVIOUS
  <2>2. (deps[m] \ R) \ {curr} = deps[m] \ (R \cup {curr}) OBVIOUS
  <2>3. Cardinality(deps[m] \ (R \cup {curr})) =
          IF curr \in deps[m] \ R THEN Cardinality(deps[m] \ R) - 1 ELSE Cardinality(deps[m] \ R)
    BY <1>17, <2>2, FS_RemoveElement
  <2>4. kahn.inDegree[m] = Cardinality(deps[m] \ R) BY <1>7
  <2> QED BY <1>9, <2>3, <2>4
<1>19. inDegree = [m \in registered |-> Cardinality(deps[m] \ (R \cup {curr}))] BY <1>18
<1>20. \A m \in registered : inDegree[m] = 0 <=> deps[m] \subseteq R \cup {curr}
  <2>1. SUFFICES ASSUME NEW m \in registered
                 PROVE  inDegree[m] = 0 <=> deps[m] \ (R \cup {curr}) = {}
    OBVIOUS
  <2> QED BY <1>17, <1>18, FS_EmptySet
<1> HIDE DEF inDegree
<1>21. (kahn.queue \ {curr}) \cup freed
         = {m \in registered \ (R \cup {curr}) : deps[m] \subseteq R \cup {curr}}
  <2>1. ASSUME NEW m \in freed
        PROVE  m \in registered \ (R \cup {curr}) /\ deps[m] \subseteq R \cup {curr}
    BY <1>9, <1>16, <1>20
  <2>2. ASSUME NEW m \in registered \ (R \cup {curr}), deps[m] \subseteq R \cup {curr}
        PROVE  m \in (kahn.queue \ {curr}) \cup freed
    BY <1>7, <1>20, <2>2
  <2>3. ASSUME NEW m \in kahn.queue \ {curr}
        PROVE  m \in registered \ (R \cup {curr}) /\ deps[m] \subseteq R \cup {curr}
    BY <1>7
  <2> HIDE DEF freed
  <2> QED BY <2>1, <2>2, <2>3
<1>22. curr = Min({m \in registered \ R : deps[m] \subseteq R}) BY <1>7 DEF curr
<1>23. \A i \in 1..Len(t) :
         /\ deps[t[i]] \subseteq Before(t, i)
         /\ t[i] = Min({m \in registered \ Before(t, i) : deps[m] \subseteq Before(t, i)})
  <2>1. SUFFICES ASSUME NEW i \in 1..Len(t)
                 PROVE  /\ deps[t[i]] \subseteq Before(t, i)
                        /\ t[i] = Min({m \in registered \ Before(t, i) : deps[m] \subseteq Before(t, i)})
    OBVIOUS
  <2>2. CASE i \in 1..Len(s)
    <3>1. t[i] = s[i] /\ Before(t, i) = Before(s, i) BY <1>14, <1>15, <2>2
    <3> QED BY <1>7, <2>2, <3>1 DEF RightOrder
  <2>3. CASE i = Len(s) + 1
    <3>1. t[i] = curr /\ Before(t, i) = R BY <1>14, <1>15, <2>3
    <3> QED BY <1>9, <1>22, <3>1
  <2> QED BY <1>14, <1>15, <2>2, <2>3
<1>24. RightOrder(t, registered, deps) BY <1>14, <1>23 DEF RightOrder
<1>25. Elements(kahn.resolved)' = R \cup {curr} BY <1>11, <1>14 DEF Elements
<1>26. RightOrder(kahn.resolved, registered, deps)' BY <1>1, <1>11, <1>24
<1>27. KahnInv' BY <1>1, <1>11, <1>19, <1>21, <1>25, <1>26 DEF KahnInv
<1> QED BY <1>3, <1>4, <1>5, <1>6, <1>27 DEF LifeInv

LEMMA EndResolveKeeps ==
  ASSUME LifeInv, EndResolve
  PROVE  LifeInv'
<1>1. /\ phase = "resolve" /\ kahn.queue = {}
      /\ UNCHANGED <<offered, deps, registered, kahn, permitted, bound, runVars>>
  BY DEF EndResolve
<1> DEFINE s == kahn.resolved
           R == Elements(kahn.resolved)
<1>2. order = <<>> /\ registered \subseteq Names /\ IsFiniteSet(registered)
      /\ (\A x \in Names : module[x] = "new") /\ \A m \in registered : deps[m] \subseteq registered
  BY <1>1 DEF LifeInv, NewTyped, OrderInv, ModuleInv, Early
<1>3. RightOrder(s, registered, deps) /\ {m \in registered \ R : deps[m] \subseteq R} = {}
  BY <1>1 DEF LifeInv, KahnInv
<1>4. s \in Seq(registered) /\ Distinct(s) BY <1>3 DEF RightOrder
<1>5. R \in SUBSET registered /\ R = Before(s, Len(s) + 1) /\ Len(s) \in Nat
  BY <1>4, ElementsAre, LenProperties
<1>6. Cardinality(R) = Len(s) BY <1>4, <1>5, PrefixSize
<1>7. DownInv' /\ DrainInv' BY <1>1, <1>2, DownWhileNew DEF runVars
<1>8. Running' = {} BY <1>1, <1>2 DEF Running, runVars
<1>9. CASE Len(s) # Cardinality(registered)
  <2>1. phase' = "cycle" /\ pool' = "closed" /\ order' = order BY <1>9 DEF EndResolve, FailNew
  <2>2. NewTyped' BY <1>1, <2>1 DEF LifeInv, NewTyped, Early, Failures
  <2>3. registered \ R # {}
    <3>1. R # registered BY <1>6, <1>9
    <3> QED BY <1>5, <3>1
  <2>4. \A m \in registered \ R : deps[m] \cap (registered \ R) # {} BY <1>2, <1>3
  <2> HIDE DEF R
  <2>5. CyclesAreReal'
    <3> SUFFICES \E S \in (SUBSET registered) \ {{}} : \A m \in S : deps[m] \cap S # {}
      BY <1>1 DEF CyclesAreReal
    <3> DEFINE S == registered \ R
    <3>1. S \in (SUBSET registered) \ {{}} BY <2>3
    <3>2. \A m \in S : deps[m] \cap S # {} BY <2>4
    <3> QED BY <3>1, <3>2
  <2>6. OrderInv' BY <1>1, <1>2, <2>1, <2>5 DEF OrderInv, Early, Late
  <2>7. KahnInv' BY <2>1 DEF KahnInv
  <2>8. ModuleInv' BY <1>1, <1>2, <2>1, ModulesUntouched DEF Early, runVars
  <2> QED BY <1>7, <2>2, <2>6, <2>7, <2>8 DEF LifeInv
<1>10. CASE Len(s) = Cardinality(registered)
  <2>1. phase' = "init" /\ order' = s /\ pool' = pool BY <1>10 DEF EndResolve
  <2>2. NewTyped' BY <1>1, <2>1 DEF LifeInv, NewTyped, Late, Failures
  <2>3. R = registered BY <1>2, <1>5, <1>6, <1>10, FS_Subset
  <2>4. Elements(order)' = registered' BY <1>1, <2>1, <2>3 DEF Elements
  <2>5. RightOrder(order, registered, deps)' BY <1>1, <1>3, <2>1
  <2>6. OrderInv' BY <1>1, <1>2, <2>1, <2>4, <2>5 DEF OrderInv, CyclesAreReal, Early, Late
  <2>7. KahnInv' BY <2>1 DEF KahnInv
  <2>8. 0 \in 0..Len(order') BY <1>5, <2>1
  <2>9. Before(order, 0 + 1)' = {} BY DEF Before
  <2>10. UpTo(0)' BY <1>8, <2>9 DEF UpTo
  <2>11. ModuleInv' BY <1>1, <2>1, <2>8, <2>10 DEF LifeInv, ModuleInv, Early, runVars
  <2> QED BY <1>7, <2>2, <2>6, <2>7, <2>11 DEF LifeInv
<1> QED BY <1>9, <1>10

\* InitAll: the next module is the one after those that run.
LEMMA InitModuleKeeps ==
  ASSUME LifeInv, InitModule
  PROVE  LifeInv'
<1>1. /\ phase = "init" /\ Cardinality(Running) < Len(order)
      /\ UNCHANGED <<offered, deps, registered, kahn, order, permitted, bound,
                     main, downVars, worker, rpc, http, trafficVars>>
  BY DEF InitModule
<1>2. RightOrder(order, registered, deps) /\ Elements(order) = registered /\ registered \subseteq Names
      /\ \A m \in registered : deps[m] \subseteq registered
  BY <1>1 DEF LifeInv, OrderInv, Late, NewTyped
<1>3. order \in Seq(registered) /\ Distinct(order) BY <1>2 DEF RightOrder
<1>4. PICK k \in 0..Len(order) : Running = Before(order, k + 1)
  BY DEF LifeInv, ModuleInv, UpTo
<1>5. Cardinality(Running) = k /\ Len(order) \in Nat BY <1>3, <1>4, PrefixSize, LenProperties
<1>6. k + 1 \in 1..Len(order) BY <1>1, <1>4, <1>5
<1> DEFINE m == order[k + 1]
<1>7. m \in registered BY <1>3, <1>6, ElementOfSeq
<1>8. \/ module' = [module EXCEPT ![m] = "running"] /\ phase' = phase /\ pool' = pool
      \/ phase' = "initFailed" /\ pool' = "closed" /\ module' = module
  BY <1>5 DEF InitModule, FailNew
<1>9. NewTyped' BY <1>1, <1>8 DEF LifeInv, NewTyped, Late, Failures
<1>10. KahnInv' BY <1>1, <1>8 DEF KahnInv
<1>11. OrderInv' BY <1>1, <1>2, <1>8 DEF LifeInv, OrderInv, CyclesAreReal, Elements, Early, Late
<1>12. module \in [Names -> {"new", "running", "stopped"}] BY DEF LifeInv, ModuleInv
<1>13. ModuleInv'
  <2>1. CASE module' = module
    <3>1. UpTo(k)' BY <1>1, <1>4, <2>1 DEF UpTo, Running
    <3>2. k \in 0..Len(order') BY <1>1, <1>4
    <3> QED BY <1>1, <1>8, <1>12, <2>1, <3>1, <3>2 DEF ModuleInv, Early
  <2>2. CASE module' = [module EXCEPT ![m] = "running"] /\ phase' = phase
    <3>1. Running' = Running \cup {m} BY <1>1, <1>2, <1>7, <1>12, <2>2 DEF Running
    <3>2. Before(order, k + 1) = {order[i] : i \in 1..k} BY <1>4 DEF Before
    <3>3. Before(order, (k + 1) + 1) = {order[i] : i \in 1..(k + 1)} BY <1>4 DEF Before
    <3>4. {order[i] : i \in 1..(k + 1)} = {order[i] : i \in 1..k} \cup {order[k + 1]} BY <1>4
    <3>5. Running' = Before(order, (k + 1) + 1) BY <1>4, <3>1, <3>2, <3>3, <3>4
    <3>6. UpTo(k + 1)' BY <1>1, <3>5 DEF UpTo
    <3>7. k + 1 \in 0..Len(order') BY <1>1, <1>6
    <3>8. module' \in [Names -> {"new", "running", "stopped"}] BY <1>2, <1>7, <1>12, <2>2
    <3> QED BY <1>1, <2>2, <3>6, <3>7, <3>8 DEF ModuleInv, Early
  <2> QED BY <1>8, <2>1, <2>2
<1>14. \A x \in registered' : module'[x] = "stopped" => x \in registered /\ module[x] = "stopped"
  BY <1>1, <1>2, <1>7, <1>8, <1>12
<1>15. DownInv' /\ DrainInv' BY <1>1, <1>14, DownWhileNew
<1> QED BY <1>9, <1>10, <1>11, <1>13, <1>15 DEF LifeInv

LEMMA LastOfNewKeeps ==
  ASSUME LifeInv, RegisterPermissions \/ BindSubscriptions
  PROVE  LifeInv'
<1>1. /\ phase \in {"init", "bind"} /\ phase' \in {"bind", "ready"}
      /\ UNCHANGED <<offered, deps, registered, kahn, order, pool, runVars>>
  BY DEF RegisterPermissions, BindSubscriptions
<1>2. RightOrder(order, registered, deps) /\ Elements(order) = registered
  BY <1>1 DEF LifeInv, OrderInv, Late
<1>3. order \in Seq(registered) /\ Len(order) \in Nat BY <1>2, LenProperties DEF RightOrder
<1>4. /\ permitted' \subseteq registered /\ bound' \subseteq registered
      /\ phase' = "ready" => bound' = registered
  <2>1. CASE RegisterPermissions
    <3>1. PICK k \in 0..Len(order) : permitted' = {order[i] : i \in 1..k} BY <2>1 DEF RegisterPermissions
    <3>2. \A i \in 1..k : order[i] \in registered BY <1>3, <3>1, ElementOfSeq
    <3> QED BY <2>1, <3>1, <3>2 DEF RegisterPermissions, LifeInv, NewTyped
  <2>2. CASE BindSubscriptions BY <1>2, <2>2 DEF BindSubscriptions, LifeInv, NewTyped
  <2> QED BY <2>1, <2>2
<1>5. NewTyped' BY <1>1, <1>4 DEF LifeInv, NewTyped, Late, Failures
<1>6. KahnInv' BY <1>1 DEF KahnInv
<1>7. OrderInv'
  BY <1>1, <1>2, <1>4 DEF LifeInv, OrderInv, CyclesAreReal, Elements, Early, Late
<1>8. ModuleInv' BY <1>1 DEF LifeInv, ModuleInv, UpTo, Running, Early, runVars
<1>9. DownInv' /\ DrainInv' BY <1>1, DownWhileNew DEF runVars
<1> QED BY <1>5, <1>6, <1>7, <1>8, <1>9 DEF LifeInv

LEMMA LifeNextInv ==
  ASSUME LifeInv, [LifeNext]_lifeVars
  PROVE  LifeInv'
<1>1. CASE UNCHANGED lifeVars
  <2>1. NewTyped' /\ KahnInv' /\ OrderInv' /\ ModuleInv' BY <1>1, NewKeeps, ModulesKeep DEF lifeVars
  <2>2. DownInv' BY <1>1 DEF lifeVars, downVars, newVars, LifeInv, DownInv, Step, Running
  <2>3. DrainInv' BY <1>1 DEF lifeVars, downVars, newVars, trafficVars, LifeInv, DrainInv
  <2> QED BY <2>1, <2>2, <2>3 DEF LifeInv
<1>2. CASE NewStep
  BY <1>2, RegisterKeeps, StartResolveKeeps, KahnStepKeeps, EndResolveKeeps, InitModuleKeeps,
     LastOfNewKeeps DEF NewStep
<1> QED BY <1>1, <1>2, StartKeeps, TrafficKeeps, PathKeeps DEF LifeNext

\* The inductive invariant of the application's life holds in every reachable state.
THEOREM LifeInvariance == LifeSpec => []LifeInv
<1>1. LifeInit => LifeInv BY LifeInitInv
<1>2. LifeInv /\ [LifeNext]_lifeVars => LifeInv' BY LifeNextInv
<1> QED BY <1>1, <1>2, PTL DEF LifeSpec

\* resolveOrderLocked answers with the least order that puts every module after its
\* dependencies, and reports a cycle only where there is one, for any modules.
THEOREM OrderAlwaysRight == LifeSpec => []OrderIsRight
<1>1. ASSUME LifeInv PROVE OrderIsLeast
  <2>1. SUFFICES ASSUME order # <<>> PROVE OrderIsLeast BY DEF OrderIsLeast
  <2>2. phase \in Late BY <1>1, <2>1 DEF LifeInv, NewTyped, OrderInv
  <2>3. RightOrder(order, registered, deps) /\ Elements(order) = registered
    BY <1>1, <2>2 DEF LifeInv, OrderInv
  <2>4. order \in Seq(registered) /\ Distinct(order) BY <2>3 DEF RightOrder
  <2>5. Len(order) = Cardinality(registered)
    BY <2>3, <2>4, ElementsAre, PrefixSize, LenProperties
  <2> QED BY <2>3, <2>5 DEF OrderIsLeast, RightOrder, Before
<1>2. LifeInv => OrderIsRight BY <1>1 DEF OrderIsRight, LifeInv, OrderInv
<1> QED BY <1>2, LifeInvariance, PTL

\* No module runs without the modules it depends on, and none is shut down under an
\* RPC, however the two shutdown paths interleave and whatever New was given.
THEOREM AlwaysStopsInOrder == LifeSpec => []StopsInOrder
<1>1. ASSUME LifeInv PROVE DependenciesOutlive
  <2>1. CASE phase \in Early
    <3>1. Running = {} BY <1>1, <2>1 DEF LifeInv, ModuleInv, Running, NewTyped
    <3> QED BY <3>1 DEF DependenciesOutlive
  <2>2. CASE phase \in Late
    <3>1. RightOrder(order, registered, deps) BY <1>1, <2>2 DEF LifeInv, OrderInv
    <3>2. Len(order) \in Nat BY <3>1, LenProperties DEF RightOrder
    <3>3. PICK k \in 0..Len(order) : Running = Before(order, k + 1)
      BY <1>1 DEF LifeInv, ModuleInv, UpTo
    <3>4. ASSUME NEW m \in Running PROVE deps[m] \subseteq Running
      <4>1. PICK i \in 1..k : m = order[i] BY <3>3 DEF Before
      <4>2. i \in 1..Len(order) BY <3>2, <3>3, <4>1
      <4>3. deps[m] \subseteq Before(order, i) BY <3>1, <4>1, <4>2 DEF RightOrder
      <4>4. Before(order, i) \subseteq Before(order, k + 1) BY <3>3, <4>1 DEF Before
      <4> QED BY <3>3, <4>3, <4>4
    <3> QED BY <3>4 DEF DependenciesOutlive
  <2> QED BY <1>1, <2>1, <2>2 DEF LifeInv, NewTyped
<1>2. ASSUME LifeInv PROVE RpcsEndFirst BY <1>2 DEF LifeInv, DrainInv, RpcsEndFirst
<1>3. LifeInv => StopsInOrder BY <1>1, <1>2 DEF StopsInOrder
<1> QED BY <1>3, LifeInvariance, PTL

\* The worker publishes nothing before every module has its handlers on the bus, and
\* a New that fails leaves modules running only when it is an Init that failed.
THEOREM NewAlwaysAllOrNothing == LifeSpec => []NewAllOrNothing
<1>1. ASSUME LifeInv PROVE ModulesHearEverything
  BY <1>1 DEF LifeInv, DownInv, OrderInv, ModulesHearEverything
<1>2. ASSUME LifeInv PROVE OnlyInitLeavesBehind
  <2>1. phase \in Early => Running = {} BY <1>2 DEF LifeInv, ModuleInv, Running, NewTyped
  <2> QED BY <1>2, <2>1 DEF LifeInv, NewTyped, OnlyInitLeavesBehind, Failures, Early
<1>3. LifeInv => NewAllOrNothing BY <1>1, <1>2 DEF NewAllOrNothing
<1> QED BY <1>3, LifeInvariance, PTL

LEMMA LifeTypesHold ==
  ASSUME LifeInv
  PROVE  LifeTypeOK
<1>1. phase \in {"register", "resolve", "init", "bind", "ready"} \cup Failures
  BY DEF LifeInv, NewTyped, Early, Late, Failures
<1>2. Elements(order) \subseteq registered
  <2>1. CASE phase \in Early
    <3>1. order = <<>> BY <2>1 DEF LifeInv, OrderInv
    <3> QED BY <3>1 DEF Elements
  <2>2. CASE phase \in Late BY <2>2 DEF LifeInv, OrderInv
  <2> QED BY <2>1, <2>2 DEF LifeInv, NewTyped
<1>3. path \in [Paths -> 0..8]
  <2>1. \A p \in Paths : path[p] \in 0..8
    <3> TAKE p \in Paths
    <3>1. path[p] \in Nat /\ path[p] <= Len(PathSteps[p]) BY PathPlaces
    <3>2. Len(PathSteps[p]) <= 8 /\ Len(PathSteps[p]) \in Nat
      <4>1. CASE p = "signal"
        <5>1. PathSteps[p] = <<"cancel", "drain", "rpc", "modules", "limiter", "http", "wait", "done">>
          BY <4>1 DEF PathSteps
        <5> QED BY <5>1
      <4>2. CASE p = "shutdown"
        <5>1. PathSteps[p] = <<"cancel", "drain", "rpc", "limiter", "modules", "done">>
          BY <4>2 DEF PathSteps
        <5> QED BY <5>1
      <4> QED BY <4>1, <4>2 DEF Paths
    <3> QED BY <3>1, <3>2
  <2> QED BY <2>1 DEF LifeInv, DownInv
<1>4. Cardinality(holder) <= 1
  <2>1. holder = {} \/ \E p \in Paths : holder = {p} BY DEF LifeInv, DownInv
  <2>2. CASE holder = {} BY <2>2, FS_EmptySet
  <2>3. CASE \E p \in Paths : holder = {p} BY <2>3, FS_Singleton
  <2> QED BY <2>1, <2>2, <2>3
<1> QED BY <1>1, <1>2, <1>3, <1>4 DEF LifeTypeOK, LifeInv, NewTyped, ModuleInv, DownInv, DrainInv

-----------------------------------------------------------------------------
(* Tenants and bootstrap.                                                  *)

PlaceRow == [label : {"idle", "look", "insert", "list", "role", "create", "filled", "clear",
                      "grant", "assign", "done", "dead", "write"},
             n : 1..4, all : SUBSET AllPermissions, todo : SUBSET AllPermissions, lax : BOOLEAN]
CopyRow == [ask : TenantStatuses \cup {Void}, write : TenantStatuses \cup {Void}]

BootTyped ==
  /\ at \in [Keepers -> PlaceRow]
  /\ copy \in [Updaters -> CopyRow \cup {Void}]
  /\ row \in [Tables -> SUBSET Keepers]
  /\ status \in TenantStatuses \cup {Void} /\ settled \in TenantStatuses \cup {Void}
  /\ catalog \subseteq AllPermissions /\ AllPermissions \ {"*"} \subseteq catalog
  /\ \A c \in Keepers : at[c].todo \subseteq at[c].all /\ at[c].all \subseteq catalog
  /\ seeded \subseteq SystemRoles \X AllPermissions
  /\ errors \in Nat /\ broken \subseteq SystemRoles
  /\ \A x \in Tables : row[x] = {} \/ \E c \in Keepers : row[x] = {c}

Full(x) == getPermIDs(x, AllPermissions)

\* Nothing that may still happen without an error spoils role x.
Stable(x) ==
  \/ errors > 0
  \/ x \in broken
  \/ \E c \in Runs : Fills(c, x) /\ at[c].label = "grant" /\ Permissions(x) # {}
  \/ Permissions(x) = Full(x)
Passed(x) == row[x] # {} /\ Stable(x)

RoleLabels == {"role", "create", "filled", "clear", "grant"}

\* What a run has left behind it where it stands.
RunPlace(r) ==
  /\ at[r].label \in {"look", "insert"} => \A i \in 1..4 : i < at[r].n => row[Steps[i]] # {}
  /\ at[r].label \in {"list", "assign", "done"} \cup RoleLabels => \A i \in 1..4 : row[Steps[i]] # {}
  /\ at[r].label \in RoleLabels => /\ at[r].n \in 1..3
                                  /\ \A i \in 1..3 : i < at[r].n => Passed(rolesToSeed[i])
  /\ at[r].label \in {"assign", "done"} => \A x \in SystemRoles : Passed(x)
  /\ at[r].label = "done" => owner
  /\ at[r].label \in {"filled", "clear", "grant"} => row[RoleAt(r)] # {}
  /\ at[r].label = "grant" => at[r].todo \subseteq getPermIDs(RoleAt(r), at[r].all)
  /\ at[r].label \notin {"idle", "dead"} /\ errors = 0 => catalog = AllPermissions
  /\ at[r].label \in RoleLabels /\ errors = 0 => at[r].all = AllPermissions

\* A role that is not broken is filled by one run at a time, and holds what that one
\* has given it; when nobody is at it, it is empty or complete.
FillRole(x) ==
  /\ \A c, d \in Runs : Fills(c, x) /\ Fills(d, x) => c = d
  /\ \A c \in Runs : Fills(c, x) /\ at[c].label = "clear" => Permissions(x) = {}
  /\ \A c \in Runs : Fills(c, x) /\ at[c].label = "grant" => Permissions(x) = Full(x) \ at[c].todo
  /\ (\A c \in Runs : ~ Fills(c, x)) => Permissions(x) \in {{}, Full(x)}
FillInv == errors = 0 => \A x \in SystemRoles \ broken : FillRole(x)
RowsBehind == \A x \in SystemRoles : Permissions(x) # {} => row[x] # {}

\* Updates of the tenant.
TenantInv ==
  /\ \A u \in Updaters : at[u].label = "write" => row["tenant"] # {} /\ copy[u] \in CopyRow
  /\ overlapped \/ \A u, v \in Updaters : at[u].label = "write" /\ at[v].label = "write" => u = v
  /\ overlapped \/ \A u \in Updaters : at[u].label = "write" =>
       copy[u].write = IF copy[u].ask = Void THEN status ELSE copy[u].ask
  /\ TenantStatusAsDecided

\* The inductive invariant of Bootstrap.
BootInv == /\ BootTyped /\ owner \in BOOLEAN /\ FillInv /\ RowsBehind /\ TenantInv
           /\ \A r \in Runs : RunPlace(r)

LEMMA Concrete ==
  /\ SystemRoles = {"owner", "admin", "staff"}
  /\ Tables = {"tenant", "org", "user", "member", "owner", "admin", "staff"}
  /\ \A i \in 1..4 : Steps[i] \in Tables
  /\ \A i \in 1..3 : rolesToSeed[i] \in SystemRoles
  /\ SystemRoles \subseteq Tables
  /\ \A x \in SystemRoles : \E i \in 1..3 : x = rolesToSeed[i]
  /\ \A x \in Tables : x \in SystemRoles \/ \E i \in 1..4 : x = Steps[i]
<1>1. SystemRoles = {"owner", "admin", "staff"} BY DEF SystemRoles, rolesToSeed
<1>2. Tables = {"tenant", "org", "user", "member", "owner", "admin", "staff"}
  BY <1>1 DEF Tables, Steps
<1>3. Steps[1] = "tenant" /\ Steps[2] = "org" /\ Steps[3] = "user" /\ Steps[4] = "member"
  BY DEF Steps
<1>4. rolesToSeed[1] = "owner" /\ rolesToSeed[2] = "admin" /\ rolesToSeed[3] = "staff"
  BY DEF rolesToSeed
<1>5. (1..4 = {1, 2, 3, 4}) /\ (1..3 = {1, 2, 3}) OBVIOUS
<1> QED BY <1>1, <1>2, <1>3, <1>4, <1>5

LEMMA FullFacts ==
  ASSUME NEW x \in SystemRoles
  PROVE  /\ Full(x) # {}
         /\ \A all \in SUBSET AllPermissions : getPermIDs(x, all) \subseteq all
<1>1. x \in {"owner", "admin", "staff"} BY Concrete
<1>2. Full(x) # {}
  BY <1>1 DEF Full, getPermIDs, AllPermissions
<1>3. \A all \in SUBSET AllPermissions : getPermIDs(x, all) \subseteq all
  BY <1>1 DEF getPermIDs, AllPermissions
<1> QED BY <1>2, <1>3

LEMMA PlaceTyped ==
  ASSUME NEW l \in {"idle", "look", "insert", "list", "role", "create", "filled", "clear",
                    "grant", "assign", "done", "dead", "write"},
         NEW n \in 1..4, NEW all \in SUBSET AllPermissions
  PROVE  /\ Place(l, n, all) \in PlaceRow /\ Place(l, n, all).label = l
         /\ Place(l, n, all).n = n /\ Place(l, n, all).all = all /\ Place(l, n, all).todo = {}
BY DEF Place, PlaceRow

LEMMA BootInitInv ==
  ASSUME BootInit
  PROVE  BootInv
<1> USE DEF BootInit
<1>1. \A c \in Keepers : at[c] = Place("idle", 1, {}) OBVIOUS
<1>2. Place("idle", 1, {}) \in PlaceRow /\ Place("idle", 1, {}).label = "idle"
      /\ Place("idle", 1, {}).all = {} /\ Place("idle", 1, {}).todo = {}
  BY PlaceTyped
<1>3. BootTyped BY <1>1, <1>2 DEF BootTyped
<1>4. owner \in BOOLEAN BY Zenon
<1>5. \A x \in SystemRoles : Permissions(x) = {} BY DEF Permissions
<1>6. \A c \in Keepers : at[c].label = "idle" BY <1>1, <1>2
<1>7. FillInv /\ RowsBehind BY <1>5, <1>6 DEF FillInv, FillRole, RowsBehind, Fills, Keepers
<1>8. TenantInv BY <1>6 DEF TenantInv, TenantStatusAsDecided, Keepers
<1>9. \A r \in Runs : RunPlace(r) BY <1>6 DEF RunPlace, Keepers, RoleLabels
<1> QED BY <1>3, <1>4, <1>7, <1>8, <1>9 DEF BootInv

SameFill(c) ==
  \/ at'[c] = at[c]
  \/ at[c].label \notin {"clear", "grant"} /\ at'[c].label \notin {"clear", "grant"}

\* Nobody begins, ends or goes on filling a role.
LEMMA RolesQuiet ==
  ASSUME BootInv, seeded' = seeded, broken' = broken, errors' \in Nat, errors <= errors',
         \A c \in Runs : SameFill(c)
  PROVE  (\A x \in SystemRoles : Stable(x) => Stable(x)') /\ FillInv'
<1>1. errors \in Nat BY DEF BootInv, BootTyped
<1>2. \A x \in SystemRoles : Permissions(x)' = Permissions(x) BY DEF Permissions
<1>3. \A c \in Runs, x \in SystemRoles : Fills(c, x)' => Fills(c, x) /\ at'[c] = at[c]
  BY DEF SameFill, Fills, RoleAt
<1>4. \A c \in Runs, x \in SystemRoles : Fills(c, x) => Fills(c, x)' /\ at'[c] = at[c]
  BY DEF SameFill, Fills, RoleAt
<1>5. \A x \in SystemRoles : Stable(x) => Stable(x)'
  BY <1>1, <1>2, <1>4 DEF Stable
<1>6. FillInv'
  <2>1. SUFFICES ASSUME errors' = 0, NEW x \in SystemRoles \ broken'
                 PROVE  /\ \A c, d \in Runs : Fills(c, x)' /\ Fills(d, x)' => c = d
                        /\ \A c \in Runs : Fills(c, x)' /\ at'[c].label = "clear" => Permissions(x)' = {}
                        /\ \A c \in Runs : Fills(c, x)' /\ at'[c].label = "grant"
                             => Permissions(x)' = Full(x) \ at'[c].todo
                        /\ (\A c \in Runs : ~ Fills(c, x)') => Permissions(x)' \in {{}, Full(x)}
    BY DEF FillInv, FillRole, Full, getPermIDs
  <2>2. errors = 0 BY <1>1, <2>1
  <2>3. /\ \A c, d \in Runs : Fills(c, x) /\ Fills(d, x) => c = d
        /\ \A c \in Runs : Fills(c, x) /\ at[c].label = "clear" => Permissions(x) = {}
        /\ \A c \in Runs : Fills(c, x) /\ at[c].label = "grant"
             => Permissions(x) = Full(x) \ at[c].todo
        /\ (\A c \in Runs : ~ Fills(c, x)) => Permissions(x) \in {{}, Full(x)}
    BY <2>1, <2>2 DEF BootInv, FillInv, FillRole
  <2>4. Permissions(x)' = Permissions(x) BY <1>2
  <2> QED BY <1>3, <1>4, <2>3, <2>4
<1> QED BY <1>5, <1>6

\* After a lost error nothing is promised about the roles.
LEMMA RolesLost ==
  ASSUME errors' \in Nat, errors' > 0
  PROVE  (\A x \in SystemRoles : Stable(x)') /\ FillInv'
BY DEF Stable, FillInv

\* The runs that do not move keep their place.
LEMMA RunsKeep ==
  ASSUME BootInv, NEW r, \A d \in Runs : d # r => at'[d] = at[d],
         \A x \in Tables : row[x] # {} => row'[x] # {},
         owner => owner', catalog \subseteq catalog', catalog' \subseteq AllPermissions,
         errors' \in Nat, errors <= errors',
         \A x \in SystemRoles : Stable(x) => Stable(x)'
  PROVE  \A d \in Runs : d # r => RunPlace(d)'
<1>1. errors \in Nat BY DEF BootInv, BootTyped
<1>2. errors' = 0 => errors = 0 BY <1>1
<1>3. \A x \in SystemRoles : Passed(x) => Passed(x)' BY Concrete DEF Passed
<1>4. SUFFICES ASSUME NEW d \in Runs, d # r PROVE RunPlace(d)' OBVIOUS
<1>5. RunPlace(d) /\ at'[d] = at[d] BY <1>4 DEF BootInv
<1>6. at[d].label \in RoleLabels => RoleAt(d) \in Tables BY <1>5, Concrete DEF RunPlace, RoleAt
<1>7. RoleAt(d)' = RoleAt(d) BY <1>5 DEF RoleAt
<1>8. /\ at'[d].label \in {"look", "insert"} => \A i \in 1..4 : i < at'[d].n => row'[Steps[i]] # {}
      /\ at'[d].label \in {"list", "assign", "done"} \cup RoleLabels => \A i \in 1..4 : row'[Steps[i]] # {}
  BY <1>5, Concrete DEF RunPlace
<1>9. at'[d].label \in RoleLabels => /\ at'[d].n \in 1..3
                                    /\ \A i \in 1..3 : i < at'[d].n => Passed(rolesToSeed[i])'
  BY <1>3, <1>5, Concrete DEF RunPlace
<1>10. /\ at'[d].label \in {"assign", "done"} => \A x \in SystemRoles : Passed(x)'
       /\ at'[d].label = "done" => owner'
  BY <1>3, <1>5 DEF RunPlace
<1>11. /\ at'[d].label \in {"filled", "clear", "grant"} => row'[RoleAt(d)'] # {}
       /\ at'[d].label = "grant" => at'[d].todo \subseteq getPermIDs(RoleAt(d)', at'[d].all)
  BY <1>5, <1>6, <1>7 DEF RunPlace, RoleLabels
<1>12. /\ at'[d].label \notin {"idle", "dead"} /\ errors' = 0 => catalog' = AllPermissions
       /\ at'[d].label \in RoleLabels /\ errors' = 0 => at'[d].all = AllPermissions
  BY <1>2, <1>5 DEF RunPlace
<1> QED BY <1>8, <1>9, <1>10, <1>11, <1>12 DEF RunPlace

LEMMA TenantKeeps ==
  ASSUME BootInv, UNCHANGED tenantVars, \A u \in Updaters : at'[u] = at[u],
         row["tenant"] # {} => row'["tenant"] # {}
  PROVE  TenantInv'
BY DEF BootInv, TenantInv, TenantStatusAsDecided, tenantVars

\* A step of a call: what is left to show is about the call, the roles and the tenant.
LEMMA KeeperMoves ==
  ASSUME BootInv, NEW c \in Keepers, NEW p \in PlaceRow, Put(c, p),
         p.todo \subseteq p.all, p.all \subseteq catalog',
         copy' \in [Updaters -> CopyRow \cup {Void}],
         status' \in TenantStatuses \cup {Void}, settled' \in TenantStatuses \cup {Void},
         row' \in [Tables -> SUBSET Keepers],
         \A x \in Tables : row'[x] = {} \/ \E d \in Keepers : row'[x] = {d},
         \A x \in Tables : row[x] # {} => row'[x] # {},
         catalog \subseteq catalog', catalog' \subseteq AllPermissions,
         seeded' \subseteq SystemRoles \X AllPermissions, broken' \subseteq SystemRoles,
         owner' \in BOOLEAN, owner => owner', errors' \in Nat, errors <= errors',
         \A x \in SystemRoles : Stable(x) => Stable(x)',
         FillInv', RowsBehind', TenantInv', c \in Runs => RunPlace(c)'
  PROVE  BootInv'
<1>1. at \in [Keepers -> PlaceRow] BY DEF BootInv, BootTyped
<1>2. at' \in [Keepers -> PlaceRow] /\ at'[c] = p /\ \A d \in Keepers : d # c => at'[d] = at[d]
  BY <1>1 DEF Put
<1>3. \A d \in Keepers : at'[d].todo \subseteq at'[d].all /\ at'[d].all \subseteq catalog'
  BY <1>2 DEF BootInv, BootTyped
<1>4. BootTyped' BY <1>2, <1>3 DEF BootInv, BootTyped
<1>5. \A d \in Runs : d # c => RunPlace(d)' BY <1>2, RunsKeep DEF Keepers
<1> QED BY <1>4, <1>5 DEF BootInv

\* A step of a run that inserts no row and fills no role.
LEMMA RunAside ==
  ASSUME BootInv, NEW r \in Runs, NEW p \in PlaceRow, Put(r, p),
         p.todo \subseteq p.all, p.all \subseteq catalog', UNCHANGED <<row, tenantVars>>,
         catalog \subseteq catalog', catalog' \subseteq AllPermissions,
         seeded' \subseteq SystemRoles \X AllPermissions, broken' \subseteq SystemRoles,
         \A x \in SystemRoles : Permissions(x)' # {} => row[x] # {},
         owner' \in BOOLEAN, owner => owner', errors' \in Nat, errors <= errors',
         \A x \in SystemRoles : Stable(x) => Stable(x)',
         FillInv', RunPlace(r)'
  PROVE  BootInv'
<1>1. r \in Keepers /\ r \notin Updaters BY RunsDisjoint DEF Keepers
<1>2. \A u \in Updaters : at'[u] = at[u] BY <1>1 DEF Put, BootInv, BootTyped, Keepers
<1>3. TenantInv' BY <1>2, TenantKeeps
<1>4. RowsBehind' BY DEF RowsBehind
<1> QED BY <1>1, <1>3, <1>4, KeeperMoves DEF BootInv, BootTyped, tenantVars

\* A step of a run that leaves rows and roles alone.
LEMMA RunQuiet ==
  ASSUME BootInv, NEW r \in Runs, NEW p \in PlaceRow, Put(r, p),
         p.todo \subseteq p.all, p.all \subseteq catalog',
         UNCHANGED <<row, seeded, broken, tenantVars>>,
         catalog \subseteq catalog', catalog' \subseteq AllPermissions,
         owner' \in BOOLEAN, owner => owner', errors' \in Nat, errors <= errors',
         at[r].label \notin {"clear", "grant"}, p.label \notin {"clear", "grant"}
  PROVE  /\ RunPlace(r)' => BootInv'
         /\ at'[r] = p
         /\ \A x \in SystemRoles : Passed(x) => Passed(x)'
<1>1. r \in Keepers BY DEF Keepers
<1>2. at'[r] = p /\ \A d \in Keepers : d # r => at'[d] = at[d] BY <1>1 DEF Put, BootInv, BootTyped
<1>3. \A c \in Runs : SameFill(c) BY <1>2 DEF SameFill, Keepers
<1>4. (\A x \in SystemRoles : Stable(x) => Stable(x)') /\ FillInv' BY <1>3, RolesQuiet
<1>5. \A x \in SystemRoles : Permissions(x)' # {} => row[x] # {}
  BY DEF BootInv, RowsBehind, Permissions
<1>6. RunPlace(r)' => BootInv'
  BY <1>4, <1>5, RunAside DEF BootInv, BootTyped
<1>7. \A x \in SystemRoles : Passed(x) => Passed(x)' BY <1>4 DEF Passed
<1> QED BY <1>2, <1>6, <1>7

LEMMA EarlyPlace ==
  ASSUME NEW r \in Runs, NEW l \in {"look", "insert"}, NEW n \in 1..4,
         at'[r] = Place(l, n, {}),
         \A i \in 1..4 : i < n => row'[Steps[i]] # {}, errors' = 0 => catalog' = AllPermissions
  PROVE  RunPlace(r)'
<1>1. at'[r].label = l /\ at'[r].n = n BY DEF Place
<1> QED BY <1>1 DEF RunPlace, RoleLabels

LEMMA ListPlace ==
  ASSUME NEW r \in Runs, at'[r] = Place("list", 1, {}),
         \A i \in 1..4 : row'[Steps[i]] # {}, errors' = 0 => catalog' = AllPermissions
  PROVE  RunPlace(r)'
<1>1. at'[r].label = "list" BY DEF Place
<1> QED BY <1>1 DEF RunPlace, RoleLabels

LEMMA AfterStepPlace ==
  ASSUME NEW r \in Runs, NEW n \in 1..4, at'[r] = AfterStep(n),
         \A i \in 1..4 : i <= n => row'[Steps[i]] # {}, errors' = 0 => catalog' = AllPermissions
  PROVE  RunPlace(r)'
<1>1. Len(Steps) = 4 BY DEF Steps
<1>2. CASE n < 4
  <2>1. at'[r] = Place("look", n + 1, {}) BY <1>1, <1>2 DEF AfterStep
  <2>2. \A i \in 1..4 : i < n + 1 => row'[Steps[i]] # {} OBVIOUS
  <2> QED BY <1>2, <2>1, <2>2, EarlyPlace
<1>3. CASE n = 4
  <2>1. at'[r] = Place("list", 1, {}) BY <1>1, <1>3 DEF AfterStep
  <2> QED BY <1>3, <2>1, ListPlace
<1> QED BY <1>2, <1>3

LEMMA AfterStepTyped ==
  ASSUME NEW n \in 1..4
  PROVE  /\ AfterStep(n) \in PlaceRow /\ AfterStep(n).label \in {"look", "list"}
         /\ AfterStep(n).todo = {} /\ AfterStep(n).all = {}
BY PlaceTyped DEF AfterStep, Steps

LEMMA RunTyped ==
  ASSUME BootInv, NEW r \in Runs
  PROVE  /\ r \in Keepers /\ at[r] \in PlaceRow /\ at[r].n \in 1..4
         /\ at[r].all \in SUBSET AllPermissions /\ errors \in Nat
         /\ at[r].todo \subseteq at[r].all /\ at[r].all \subseteq catalog
         /\ catalog \subseteq AllPermissions /\ catalog \in SUBSET AllPermissions
         /\ owner \in BOOLEAN /\ RunPlace(r)
BY DEF BootInv, BootTyped, PlaceRow, Keepers

LEMMA EnsureWildcardKeeps ==
  ASSUME BootInv, NEW r \in Runs, EnsureWildcard(r)
  PROVE  BootInv'
<1> DEFINE p == Place("look", 1, {})
<1>1. p \in PlaceRow /\ p.label = "look" /\ p.todo = {} /\ p.all = {} BY PlaceTyped
<1>2. errors \in Nat /\ catalog \subseteq AllPermissions /\ AllPermissions \ {"*"} \subseteq catalog
  BY DEF BootInv, BootTyped
<1>3. catalog \subseteq catalog' /\ catalog' \subseteq AllPermissions /\ errors' \in Nat
      /\ errors <= errors' /\ (errors' = 0 => catalog' = AllPermissions)
  <2>1. CASE catalog' = catalog \cup {"*"} /\ errors' = errors
    <3>1. "*" \in AllPermissions BY DEF AllPermissions
    <3>2. catalog' = AllPermissions BY <1>2, <2>1, <3>1, Zenon
    <3> QED BY <1>2, <2>1, <3>2
  <2>2. CASE errors' = errors + 1 /\ catalog' = catalog BY <1>2, <2>2
  <2> QED BY <2>1, <2>2 DEF EnsureWildcard
<1>4. Put(r, p) /\ UNCHANGED <<row, seeded, broken, tenantVars>> /\ owner' = owner
      /\ at[r].label \notin {"clear", "grant"}
  BY DEF EnsureWildcard
<1> HIDE DEF p
<1>5. (RunPlace(r)' => BootInv') /\ at'[r] = p
  BY <1>1, <1>3, <1>4, RunTyped, RunQuiet
<1>6. RunPlace(r)'
  <2>1. \A i \in 1..4 : i < 1 => row'[Steps[i]] # {} OBVIOUS
  <2> QED BY <1>3, <1>5, <2>1, EarlyPlace DEF p
<1> QED BY <1>5, <1>6

LEMMA LookUpKeeps ==
  ASSUME BootInv, NEW r \in Runs, LookUp(r)
  PROVE  BootInv'
<1>1. PICK n \in 1..4 : n = at[r].n BY RunTyped
<1>2. PICK p : p = IF row[Steps[n]] = {} THEN Place("insert", n, {}) ELSE AfterStep(n) OBVIOUS
<1>3. p \in PlaceRow /\ p.label \in {"insert", "look", "list"} /\ p.todo = {} /\ p.all = {}
  BY <1>2, PlaceTyped, AfterStepTyped
<1>4. Put(r, p) /\ UNCHANGED <<row, seeded, broken, tenantVars, owner, errors, catalog>>
      /\ at[r].label = "look"
  BY <1>1, <1>2 DEF LookUp
<1>5. (RunPlace(r)' => BootInv') /\ at'[r] = p
  BY <1>3, <1>4, RunTyped, RunQuiet
<1>6. /\ \A i \in 1..4 : i < n => row'[Steps[i]] # {}
      /\ errors' = 0 => catalog' = AllPermissions
  BY <1>1, <1>4, RunTyped DEF RunPlace
<1>7. CASE row[Steps[n]] = {} BY <1>2, <1>5, <1>6, <1>7, EarlyPlace
<1>8. CASE row[Steps[n]] # {}
  <2>1. \A i \in 1..4 : i <= n => row'[Steps[i]] # {} BY <1>4, <1>6, <1>8
  <2> QED BY <1>2, <1>5, <1>6, <1>8, <2>1, AfterStepPlace
<1> QED BY <1>7, <1>8

LEMMA ListPermissionsKeeps ==
  ASSUME BootInv, NEW r \in Runs, ListPermissions(r)
  PROVE  BootInv'
<1>1. PICK p : p = Place("role", 1, catalog) OBVIOUS
<1>2. p \in PlaceRow /\ p.label = "role" /\ p.todo = {} /\ p.all = catalog /\ p.n = 1
  BY <1>1, PlaceTyped, RunTyped
<1>3. Put(r, p) /\ UNCHANGED <<row, seeded, broken, tenantVars, owner, errors, catalog>>
      /\ at[r].label = "list"
  BY <1>1 DEF ListPermissions
<1>4. (RunPlace(r)' => BootInv') /\ at'[r] = p
  BY <1>2, <1>3, RunTyped, RunQuiet
<1>5. /\ \A i \in 1..4 : row'[Steps[i]] # {}
      /\ errors' = 0 => catalog' = AllPermissions
  BY <1>3, RunTyped DEF RunPlace
<1>6. RunPlace(r)' BY <1>2, <1>3, <1>4, <1>5 DEF RunPlace
<1> QED BY <1>4, <1>6

LEMMA AssignOwnerKeeps ==
  ASSUME BootInv, NEW r \in Runs, AssignOwner(r)
  PROVE  BootInv'
<1>1. PICK p : p = Place("done", 1, {}) OBVIOUS
<1>2. p \in PlaceRow /\ p.label = "done" /\ p.todo = {} /\ p.all = {} /\ p.n = 1
  BY <1>1, PlaceTyped, RunTyped
<1>3. Put(r, p) /\ UNCHANGED <<row, seeded, broken, tenantVars, errors, catalog>>
      /\ at[r].label = "assign" /\ owner'
  BY <1>1 DEF AssignOwner
<1>4. owner' \in BOOLEAN BY Zenon DEF AssignOwner
<1>5. (RunPlace(r)' => BootInv') /\ at'[r] = p /\ \A x \in SystemRoles : Passed(x) => Passed(x)'
  BY <1>2, <1>3, <1>4, RunTyped, RunQuiet
<1>6. /\ \A i \in 1..4 : row'[Steps[i]] # {}
      /\ errors' = 0 => catalog' = AllPermissions
      /\ \A x \in SystemRoles : Passed(x)'
  BY <1>3, <1>5, RunTyped DEF RunPlace
<1>7. RunPlace(r)' BY <1>2, <1>3, <1>5, <1>6 DEF RunPlace, RoleLabels
<1> QED BY <1>5, <1>7

LEMMA LookUpRoleKeeps ==
  ASSUME BootInv, NEW r \in Runs, LookUpRole(r)
  PROVE  BootInv'
<1>1. PICK p : p = [at[r] EXCEPT !.label = IF row[RoleAt(r)] = {} THEN "create" ELSE "filled"] OBVIOUS
<1>2. p \in PlaceRow /\ p.label \in {"create", "filled"} /\ p.todo = at[r].todo /\ p.all = at[r].all
      /\ p.n = at[r].n /\ (p.label = "filled" => row[RoleAt(r)] # {})
  BY <1>1, RunTyped DEF PlaceRow
<1>3. Put(r, p) /\ UNCHANGED <<row, seeded, broken, tenantVars, owner, errors, catalog>>
      /\ at[r].label = "role"
  BY <1>1 DEF LookUpRole
<1>4. (RunPlace(r)' => BootInv') /\ at'[r] = p /\ \A x \in SystemRoles : Passed(x) => Passed(x)'
  BY <1>2, <1>3, RunTyped, RunQuiet
<1>5. RoleAt(r)' = RoleAt(r) BY <1>2, <1>4 DEF RoleAt
<1>6. RunPlace(r)'
  BY <1>2, <1>3, <1>4, <1>5, RunTyped, Concrete DEF RunPlace, RoleLabels
<1> QED BY <1>4, <1>6

LEMMA InsertsOne ==
  ASSUME BootInv, NEW c \in Keepers, NEW x \in Tables, InsertRow(c, x)
  PROVE  /\ row' \in [Tables -> SUBSET Keepers]
         /\ \A y \in Tables : row'[y] = {} \/ \E d \in Keepers : row'[y] = {d}
         /\ \A y \in Tables : row[y] # {} => row'[y] # {}
         /\ row[x] = {} /\ row'[x] # {}
BY DEF BootInv, BootTyped, InsertRow

\* The first row of the tenant finds no update under way.
LEMMA TenantBorn ==
  ASSUME BootInv, NEW x \in Tables, row[x] = {}, NewTenant(x), UNCHANGED <<copy, overlapped>>,
         \A u \in Updaters : at'[u] = at[u], \A y \in Tables : row[y] # {} => row'[y] # {}
  PROVE  /\ TenantInv'
         /\ status' \in TenantStatuses \cup {Void} /\ settled' \in TenantStatuses \cup {Void}
<1>1. "tenant" \in Tables BY Concrete
<1>2. CASE x = "tenant"
  <2>1. \A u \in Updaters : at'[u].label # "write" BY <1>2 DEF BootInv, TenantInv
  <2>2. status' = "active" /\ settled' = "active" BY <1>2 DEF NewTenant
  <2> QED BY <2>1, <2>2 DEF TenantInv, TenantStatusAsDecided, TenantStatuses
<1>3. CASE x # "tenant"
  <2>1. status' = status /\ settled' = settled BY <1>3 DEF NewTenant
  <2>2. TenantInv' BY <1>1, <2>1, TenantKeeps DEF tenantVars
  <2> QED BY <2>1, <2>2 DEF BootInv, BootTyped
<1> QED BY <1>2, <1>3

LEMMA InsertKeeps ==
  ASSUME BootInv, NEW r \in Runs, Insert(r)
  PROVE  BootInv'
<1>1. PICK n \in 1..4 : n = at[r].n BY RunTyped
<1>2. PICK x \in Tables : x = Steps[n] BY Concrete
<1>3. PICK p : p = AfterStep(n) OBVIOUS
<1>4. p \in PlaceRow /\ p.label \in {"look", "list"} /\ p.todo = {} /\ p.all = {}
  BY <1>3, AfterStepTyped
<1>5. Put(r, p) /\ UNCHANGED <<catalog, seeded, owner, errors, broken, copy, overlapped>>
      /\ at[r].label = "insert" /\ InsertRow(r, x) /\ NewTenant(x)
  BY <1>1, <1>2, <1>3 DEF Insert
<1>6. /\ row' \in [Tables -> SUBSET Keepers]
      /\ \A y \in Tables : row'[y] = {} \/ \E d \in Keepers : row'[y] = {d}
      /\ \A y \in Tables : row[y] # {} => row'[y] # {}
      /\ row[x] = {} /\ row'[x] # {}
  BY <1>5, RunTyped, InsertsOne
<1>7. r \in Keepers /\ r \notin Updaters BY RunsDisjoint DEF Keepers
<1>8. at'[r] = p /\ \A d \in Keepers : d # r => at'[d] = at[d]
  BY <1>5, <1>7 DEF Put, BootInv, BootTyped
<1>9. TenantInv' /\ status' \in TenantStatuses \cup {Void} /\ settled' \in TenantStatuses \cup {Void}
  BY <1>5, <1>6, <1>7, <1>8, TenantBorn DEF Keepers
<1>10. \A c \in Runs : SameFill(c) BY <1>4, <1>5, <1>8 DEF SameFill, Keepers
<1>11. errors' \in Nat /\ errors <= errors' BY <1>5, RunTyped
<1>12. (\A y \in SystemRoles : Stable(y) => Stable(y)') /\ FillInv'
  BY <1>5, <1>10, <1>11, RolesQuiet
<1>13. RowsBehind' BY <1>5, <1>6, Concrete DEF BootInv, RowsBehind, Permissions
<1>14. RunPlace(r)'
  <2>1. /\ \A i \in 1..4 : i < n => row[Steps[i]] # {}
        /\ errors' = 0 => catalog' = AllPermissions
    BY <1>1, <1>5, RunTyped DEF RunPlace
  <2>2. \A i \in 1..4 : i <= n => row'[Steps[i]] # {} BY <1>2, <1>6, <2>1, Concrete
  <2> QED BY <1>3, <1>8, <2>1, <2>2, AfterStepPlace
<1> QED
  BY <1>4, <1>5, <1>6, <1>7, <1>9, <1>11, <1>12, <1>13, <1>14, KeeperMoves DEF BootInv, BootTyped

-----------------------------------------------------------------------------
(* Filling a role.                                                         *)

\* A run at a role.
LEMMA AtRole ==
  ASSUME BootInv, NEW r \in Runs, at[r].label \in RoleLabels
  PROVE  RoleAt(r) \in SystemRoles /\ RoleAt(r) \in Tables /\ at[r].n \in 1..3
BY RunTyped, Concrete DEF RunPlace, RoleAt

LEMMA AfterRoleTyped ==
  ASSUME BootInv, NEW r \in Runs, at[r].label \in RoleLabels
  PROVE  /\ AfterRole(r) \in PlaceRow /\ AfterRole(r).label \in {"role", "assign"}
         /\ AfterRole(r).todo = {} /\ AfterRole(r).all \subseteq at[r].all
<1>1. at[r].n \in 1..3 /\ at[r].all \in SUBSET AllPermissions BY AtRole, RunTyped
<1>2. Len(rolesToSeed) = 3 BY DEF rolesToSeed
<1>3. CASE at[r].n < 3
  <2>1. AfterRole(r) = Place("role", at[r].n + 1, at[r].all) BY <1>2, <1>3 DEF AfterRole
  <2>2. at[r].n + 1 \in 1..4 BY <1>1
  <2> QED BY <1>1, <2>1, <2>2, PlaceTyped
<1>4. CASE ~ (at[r].n < 3)
  <2>1. AfterRole(r) = Place("assign", 1, {}) BY <1>2, <1>4 DEF AfterRole
  <2> QED BY <2>1, PlaceTyped
<1> QED BY <1>3, <1>4

LEMMA AfterRolePlace ==
  ASSUME BootInv, NEW r \in Runs, at[r].label \in RoleLabels, at'[r] = AfterRole(r),
         UNCHANGED <<row, catalog>>, errors' \in Nat, errors <= errors',
         \A x \in SystemRoles : Passed(x) => Passed(x)', \A x \in SystemRoles : x = RoleAt(r) => Passed(x)'
  PROVE  RunPlace(r)'
<1>1. PICK n \in 1..3 : n = at[r].n BY AtRole
<1>2. Len(rolesToSeed) = 3 BY DEF rolesToSeed
<1>3. /\ \A i \in 1..4 : row'[Steps[i]] # {}
      /\ errors' = 0 => catalog' = AllPermissions /\ at[r].all = AllPermissions
      /\ \A i \in 1..3 : i < n => Passed(rolesToSeed[i])
  BY <1>1, RunTyped DEF RunPlace, RoleLabels
<1>4. \A i \in 1..3 : i <= n => Passed(rolesToSeed[i])'
  BY <1>1, <1>3, Concrete DEF RoleAt
<1>5. CASE n < 3
  <2>1. at'[r] = Place("role", n + 1, at[r].all) BY <1>1, <1>2, <1>5 DEF AfterRole
  <2>2. at'[r].label = "role" /\ at'[r].n = n + 1 /\ at'[r].all = at[r].all BY <2>1 DEF Place
  <2>3. n + 1 \in 1..3 /\ \A i \in 1..3 : i < n + 1 => i <= n BY <1>5
  <2> QED BY <1>3, <1>4, <2>2, <2>3 DEF RunPlace
<1>6. CASE n = 3
  <2>1. at'[r] = Place("assign", 1, {}) BY <1>1, <1>2, <1>6 DEF AfterRole
  <2>2. at'[r].label = "assign" BY <2>1 DEF Place
  <2>3. \A x \in SystemRoles : Passed(x)' BY <1>4, <1>6, Concrete
  <2> QED BY <1>3, <2>2, <2>3 DEF RunPlace, RoleLabels
<1> QED BY <1>5, <1>6

LEMMA FillPlace ==
  ASSUME BootInv, NEW r \in Runs, at[r].label \in RoleLabels, at'[r].label \in {"clear", "grant"},
         at'[r].n = at[r].n, at'[r].all = at[r].all,
         \A x \in Tables : row[x] # {} => row'[x] # {}, row'[RoleAt(r)] # {},
         at'[r].label = "grant" => at'[r].todo \subseteq getPermIDs(RoleAt(r), at[r].all),
         catalog' = catalog, errors' \in Nat, errors <= errors',
         \A x \in SystemRoles : Stable(x) => Stable(x)'
  PROVE  RunPlace(r)'
<1>1. RoleAt(r)' = RoleAt(r) BY DEF RoleAt
<1>2. \A x \in SystemRoles : Passed(x) => Passed(x)' BY Concrete DEF Passed
<1>3. errors' = 0 => errors = 0 BY RunTyped
<1>4. RunPlace(r) BY RunTyped
<1>5. /\ \A i \in 1..4 : row'[Steps[i]] # {}
      /\ at'[r].n \in 1..3 /\ \A i \in 1..3 : i < at'[r].n => Passed(rolesToSeed[i])'
  BY <1>2, <1>4, Concrete DEF RunPlace, RoleLabels
<1>6. errors' = 0 => catalog' = AllPermissions /\ at'[r].all = AllPermissions
  BY <1>3, <1>4 DEF RunPlace, RoleLabels
<1> QED BY <1>1, <1>5, <1>6 DEF RunPlace, RoleLabels

\* Where no error was lost, a step at one role concerns that role only.
LEMMA OneRole ==
  ASSUME BootInv, NEW r \in Runs, at[r].label \in RoleLabels, NEW x, x = RoleAt(r),
         \A d \in Runs : d # r => at'[d] = at[d],
         at'[r].label \in {"clear", "grant"} => at'[r].n = at[r].n,
         \A y \in SystemRoles : y # x => Permissions(y)' = Permissions(y),
         broken \subseteq broken', \A y \in broken' : y = x \/ y \in broken,
         errors = 0, errors' = 0,
         Stable(x) => Stable(x)', x \notin broken' => FillRole(x)'
  PROVE  (\A y \in SystemRoles : Stable(y) => Stable(y)') /\ FillInv'
<1>1. ASSUME NEW y \in SystemRoles, y # x
      PROVE  \A c \in Runs : /\ Fills(c, y)' <=> Fills(c, y)
                             /\ Fills(c, y) => at'[c] = at[c]
  <2>1. ~ Fills(r, y) BY <1>1 DEF Fills
  <2>2. ~ Fills(r, y)' BY <1>1 DEF Fills, RoleAt
  <2>3. \A c \in Runs : c # r => (Fills(c, y)' <=> Fills(c, y)) BY DEF Fills, RoleAt
  <2> QED BY <2>1, <2>2, <2>3
<1>2. ASSUME NEW y \in SystemRoles, y # x, Stable(y)
      PROVE  Stable(y)'
  <2>1. Permissions(y)' = Permissions(y) BY <1>2
  <2>2. \A c \in Runs : (Fills(c, y)' <=> Fills(c, y)) /\ (Fills(c, y) => at'[c] = at[c]) BY <1>1, <1>2
  <2>3. CASE y \in broken BY <2>3 DEF Stable
  <2>4. CASE \E c \in Runs : Fills(c, y) /\ at[c].label = "grant" /\ Permissions(y) # {}
    BY <2>1, <2>2, <2>4 DEF Stable
  <2>5. CASE Permissions(y) = Full(y) BY <2>1, <2>5 DEF Stable, Full, getPermIDs
  <2> QED BY <1>2, <2>3, <2>4, <2>5 DEF Stable
<1>3. ASSUME NEW y \in SystemRoles, y # x, y \notin broken'
      PROVE  FillRole(y)'
  <2>1. Permissions(y)' = Permissions(y) BY <1>3
  <2>2. \A c \in Runs : (Fills(c, y)' <=> Fills(c, y)) /\ (Fills(c, y) => at'[c] = at[c]) BY <1>1, <1>3
  <2>3. FillRole(y) BY <1>3 DEF BootInv, FillInv
  <2>4. /\ \A c, d \in Runs : Fills(c, y)' /\ Fills(d, y)' => c = d
        /\ \A c \in Runs : Fills(c, y)' /\ at'[c].label = "clear" => Permissions(y)' = {}
        /\ \A c \in Runs : Fills(c, y)' /\ at'[c].label = "grant"
             => Permissions(y)' = Full(y) \ at'[c].todo
        /\ (\A c \in Runs : ~ Fills(c, y)') => Permissions(y)' \in {{}, Full(y)}
    BY <2>1, <2>2, <2>3 DEF FillRole
  <2> QED BY <2>4 DEF FillRole, Full, getPermIDs
<1>4. \A y \in SystemRoles : Stable(y) => Stable(y)' BY <1>2
<1>5. FillInv' BY <1>3 DEF FillInv
<1> QED BY <1>4, <1>5

\* Beginning to fill an empty role.
LEMMA BeginFillRoles ==
  ASSUME BootInv, NEW r \in Runs, at[r].label \in {"create", "filled"}, NEW lax \in BOOLEAN,
         BeginFill(r, lax), seeded' = seeded, errors' = errors,
         Permissions(RoleAt(r)) = {}
  PROVE  (\A y \in SystemRoles : Stable(y) => Stable(y)') /\ FillInv'
<1>1. errors \in Nat /\ r \in Keepers BY RunTyped
<1>2. CASE errors > 0 BY <1>1, <1>2, RolesLost
<1>3. CASE errors = 0
  <2>1. PICK x \in SystemRoles : x = RoleAt(r) BY AtRole DEF RoleLabels
  <2>2. \A d \in Runs : d # r => at'[d] = at[d] BY <1>1 DEF BeginFill, Put, BootInv, BootTyped, Keepers
  <2>3. at'[r].label = "clear" /\ at'[r].n = at[r].n
    BY <1>1, RunTyped DEF BeginFill, Put, BootInv, BootTyped, PlaceRow
  <2>4. \A y \in SystemRoles : Permissions(y)' = Permissions(y) BY DEF Permissions
  <2>5. broken \subseteq broken' /\ \A y \in broken' : y = x \/ y \in broken
    BY <2>1 DEF BeginFill
  <2>6. ~ Fills(r, x) /\ Fills(r, x)' BY <2>1, <2>3 DEF Fills, RoleAt
  <2>7. Stable(x) => Stable(x)'
    <3>1. \A c \in Runs : Fills(c, x) => Fills(c, x)' /\ at'[c] = at[c]
      BY <2>2, <2>6 DEF Fills, RoleAt
    <3> QED BY <1>3, <2>1, <2>4, <2>5, <3>1, FullFacts DEF Stable
  <2>8. ASSUME x \notin broken' PROVE FillRole(x)'
    <3>1. \A c \in Runs : c # r => ~ Fills(c, x) BY <2>1, <2>8 DEF BeginFill
    <3>2. \A c \in Runs : c # r => ~ Fills(c, x)' BY <2>2, <3>1 DEF Fills, RoleAt
    <3>3. Permissions(x)' = {} BY <2>1, <2>4
    <3>4. /\ \A c, d \in Runs : Fills(c, x)' /\ Fills(d, x)' => c = d
          /\ \A c \in Runs : Fills(c, x)' /\ at'[c].label = "grant" => FALSE
      BY <2>3, <3>2
    <3> QED BY <2>6, <3>3, <3>4 DEF FillRole
  <2> QED BY <1>3, <2>1, <2>2, <2>3, <2>4, <2>5, <2>7, <2>8, OneRole DEF RoleLabels
<1> QED BY <1>1, <1>2, <1>3

LEMMA BeginFillTyped ==
  ASSUME BootInv, NEW r \in Runs, at[r].label \in {"create", "filled"}, NEW lax \in BOOLEAN,
         BeginFill(r, lax)
  PROVE  \E p \in PlaceRow : /\ Put(r, p) /\ at'[r] = p /\ p.label = "clear" /\ p.n = at[r].n
                             /\ p.all = at[r].all /\ p.todo = at[r].todo
                             /\ broken' \subseteq SystemRoles
<1>1. PICK p : p = [at[r] EXCEPT !.label = "clear", !.lax = lax] OBVIOUS
<1>2. p \in PlaceRow /\ p.label = "clear" /\ p.n = at[r].n /\ p.all = at[r].all /\ p.todo = at[r].todo
  BY <1>1, RunTyped DEF PlaceRow
<1>3. Put(r, p) BY <1>1 DEF BeginFill
<1>4. at'[r] = p BY <1>3, RunTyped DEF Put, BootInv, BootTyped
<1>5. broken' \subseteq SystemRoles BY AtRole DEF BeginFill, RoleLabels, BootInv, BootTyped
<1> QED BY <1>2, <1>3, <1>4, <1>5

LEMMA SeedRoleKeeps ==
  ASSUME BootInv, NEW r \in Runs, SeedRole(r)
  PROVE  BootInv'
<1>1. at[r].label = "create" /\ UNCHANGED <<catalog, seeded, owner, errors, tenantVars>>
      /\ InsertRow(r, RoleAt(r)) /\ BeginFill(r, FALSE)
  BY DEF SeedRole
<1>2. PICK x \in SystemRoles : x = RoleAt(r) BY <1>1, AtRole DEF RoleLabels
<1>3. /\ row' \in [Tables -> SUBSET Keepers]
      /\ \A y \in Tables : row'[y] = {} \/ \E d \in Keepers : row'[y] = {d}
      /\ \A y \in Tables : row[y] # {} => row'[y] # {}
      /\ row[x] = {} /\ row'[x] # {}
  BY <1>1, <1>2, RunTyped, InsertsOne, Concrete
<1>4. Permissions(x) = {} BY <1>3 DEF BootInv, RowsBehind
<1>5. FALSE \in BOOLEAN OBVIOUS
<1>6. PICK p \in PlaceRow : /\ Put(r, p) /\ at'[r] = p /\ p.label = "clear" /\ p.n = at[r].n
                            /\ p.all = at[r].all /\ p.todo = at[r].todo
                            /\ broken' \subseteq SystemRoles
  BY <1>1, <1>5, BeginFillTyped
<1>7. (\A y \in SystemRoles : Stable(y) => Stable(y)') /\ FillInv'
  BY <1>1, <1>2, <1>4, <1>5, BeginFillRoles
<1>8. RowsBehind' BY <1>1, <1>3, Concrete DEF BootInv, RowsBehind, Permissions
<1>9. r \in Keepers /\ r \notin Updaters BY RunsDisjoint DEF Keepers
<1>10. TenantInv'
  <2>1. \A u \in Updaters : at'[u] = at[u] BY <1>6, <1>9 DEF Put, BootInv, BootTyped, Keepers
  <2> QED BY <1>1, <1>3, <2>1, TenantKeeps, Concrete
<1>11. errors' \in Nat /\ errors <= errors' BY <1>1, RunTyped
<1>12. RunPlace(r)'
  BY <1>1, <1>2, <1>3, <1>6, <1>7, <1>11, FillPlace DEF RoleLabels
<1>13. copy' \in [Updaters -> CopyRow \cup {Void}] /\ status' \in TenantStatuses \cup {Void}
       /\ settled' \in TenantStatuses \cup {Void}
  BY <1>1 DEF BootInv, BootTyped, tenantVars
<1>14. seeded' \subseteq SystemRoles \X AllPermissions /\ owner' \in BOOLEAN /\ (owner => owner')
       /\ catalog \subseteq catalog' /\ catalog' \subseteq AllPermissions
       /\ p.todo \subseteq p.all /\ p.all \subseteq catalog'
  BY <1>1, <1>6, RunTyped DEF BootInv, BootTyped
<1> QED
  BY <1>3, <1>6, <1>7, <1>8, <1>9, <1>10, <1>11, <1>12, <1>13, <1>14, KeeperMoves

LEMMA SyncRoleKeeps ==
  ASSUME BootInv, NEW r \in Runs, SyncRole(r)
  PROVE  BootInv'
<1>1. at[r].label = "filled" /\ UNCHANGED <<row, catalog, seeded, owner, tenantVars>>
  BY DEF SyncRole
<1>2. PICK x \in SystemRoles : x = RoleAt(r) BY <1>1, AtRole DEF RoleLabels
<1>3. row[x] # {} /\ errors \in Nat BY <1>1, <1>2, RunTyped DEF RunPlace
<1>4. \A y \in SystemRoles : Permissions(y)' # {} => row[y] # {}
  BY <1>1 DEF BootInv, RowsBehind, Permissions
<1>5. seeded' \subseteq SystemRoles \X AllPermissions /\ owner' \in BOOLEAN /\ (owner => owner')
      /\ catalog \subseteq catalog' /\ catalog' \subseteq AllPermissions
      /\ at[r].todo \subseteq at[r].all /\ at[r].all \subseteq catalog'
  BY <1>1, RunTyped DEF BootInv, BootTyped
<1>6. ASSUME BeginFill(r, TRUE), errors' \in Nat, errors <= errors',
             (\A y \in SystemRoles : Stable(y) => Stable(y)') /\ FillInv'
      PROVE  BootInv'
  <2>1. TRUE \in BOOLEAN OBVIOUS
  <2>2. PICK p \in PlaceRow : /\ Put(r, p) /\ at'[r] = p /\ p.label = "clear" /\ p.n = at[r].n
                              /\ p.all = at[r].all /\ p.todo = at[r].todo
                              /\ broken' \subseteq SystemRoles
    BY <1>1, <1>6, <2>1, BeginFillTyped
  <2>3. RunPlace(r)' BY <1>1, <1>2, <1>3, <1>6, <2>2, FillPlace DEF RoleLabels
  <2> QED BY <1>1, <1>4, <1>5, <1>6, <2>2, <2>3, RunAside
<1>7. CASE Permissions(RoleAt(r)) = {} /\ BeginFill(r, TRUE) /\ UNCHANGED errors
  <2>1. TRUE \in BOOLEAN /\ errors' \in Nat /\ errors <= errors' BY <1>3, <1>7
  <2>2. (\A y \in SystemRoles : Stable(y) => Stable(y)') /\ FillInv'
    BY <1>1, <1>7, <2>1, BeginFillRoles
  <2> QED BY <1>6, <1>7, <2>1, <2>2
<1>8. CASE Permissions(RoleAt(r)) # {} /\ Put(r, AfterRole(r)) /\ UNCHANGED <<errors, broken>>
  <2>1. PICK p \in PlaceRow : p = AfterRole(r) /\ p.label \in {"role", "assign"} /\ p.todo = {}
                              /\ p.all \subseteq at[r].all
    BY <1>1, AfterRoleTyped DEF RoleLabels
  <2>2. (RunPlace(r)' => BootInv') /\ at'[r] = p /\ \A y \in SystemRoles : Passed(y) => Passed(y)'
    BY <1>1, <1>3, <1>5, <1>8, <2>1, RunQuiet
  <2>3. Stable(x)
    <3>1. CASE errors > 0 \/ x \in broken BY <3>1 DEF Stable
    <3>2. CASE errors = 0 /\ x \notin broken
      <4>1. FillRole(x) /\ Permissions(x) # {} BY <1>2, <1>8, <3>2 DEF BootInv, FillInv
      <4>2. CASE \A c \in Runs : ~ Fills(c, x) BY <4>1, <4>2 DEF FillRole, Stable
      <4>3. CASE \E c \in Runs : Fills(c, x)
        <5>1. PICK c \in Runs : Fills(c, x) BY <4>3
        <5>2. at[c].label = "grant" BY <4>1, <5>1 DEF FillRole, Fills
        <5> QED BY <4>1, <5>1, <5>2 DEF Stable
      <4> QED BY <4>2, <4>3
    <3> QED BY <1>3, <3>1, <3>2
  <2>4. Passed(x)' BY <1>3, <2>2, <2>3 DEF Passed
  <2>5. RunPlace(r)'
    BY <1>1, <1>2, <1>3, <1>8, <2>1, <2>2, <2>4, AfterRolePlace DEF RoleLabels
  <2> QED BY <2>2, <2>5
<1>9. CASE errors < MaxErrors /\ errors' = errors + 1 /\ BeginFill(r, TRUE)
  <2>1. errors' \in Nat /\ errors <= errors' /\ errors' > 0 BY <1>3, <1>9
  <2>2. (\A y \in SystemRoles : Stable(y)') /\ FillInv' BY <2>1, RolesLost
  <2> QED BY <1>6, <1>9, <2>1, <2>2
<1> QED BY <1>7, <1>8, <1>9 DEF SyncRole

\* A step of the run that is filling a role: what is left to show is about the roles.
LEMMA FillerMoves ==
  ASSUME BootInv, NEW r \in Runs, at[r].label \in {"clear", "grant"}, NEW p \in PlaceRow, Put(r, p),
         UNCHANGED <<row, catalog, owner, broken, tenantVars>>, errors' \in Nat, errors <= errors',
         seeded' \subseteq SystemRoles \X AllPermissions,
         \A y \in SystemRoles : y # RoleAt(r) => Permissions(y)' \subseteq Permissions(y),
         (\A y \in SystemRoles : Stable(y) => Stable(y)') /\ FillInv',
         \/ /\ p = AfterRole(r) /\ \A y \in SystemRoles : y = RoleAt(r) => Stable(y)'
         \/ /\ p.label = "grant" /\ p.n = at[r].n /\ p.all = at[r].all
            /\ p.todo \subseteq getPermIDs(RoleAt(r), at[r].all)
  PROVE  BootInv'
<1>1. PICK x \in SystemRoles : x = RoleAt(r) BY AtRole DEF RoleLabels
<1>2. at[r].label \in RoleLabels BY DEF RoleLabels
<1>3. row[x] # {} BY <1>1, RunTyped DEF RunPlace
<1>4. \A y \in SystemRoles : Permissions(y)' # {} => row[y] # {}
  <2>1. SUFFICES ASSUME NEW y \in SystemRoles, y # x, Permissions(y)' # {} PROVE row[y] # {}
    BY <1>3
  <2>2. Permissions(y) # {} BY <1>1, <2>1
  <2> QED BY <2>2 DEF BootInv, RowsBehind
<1>5. at'[r] = p BY RunTyped DEF Put, BootInv, BootTyped
<1>6. catalog \subseteq catalog' /\ catalog' \subseteq AllPermissions /\ owner' \in BOOLEAN
      /\ (owner => owner') /\ broken' \subseteq SystemRoles
  BY RunTyped DEF BootInv, BootTyped
<1>7. p.todo \subseteq p.all /\ p.all \subseteq catalog' /\ RunPlace(r)'
  <2>1. CASE p = AfterRole(r) /\ \A y \in SystemRoles : y = RoleAt(r) => Stable(y)'
    <3>1. p.todo = {} /\ p.all \subseteq at[r].all BY <1>2, <2>1, AfterRoleTyped
    <3>2. \A y \in SystemRoles : Passed(y) => Passed(y)' BY DEF Passed
    <3>3. \A y \in SystemRoles : y = RoleAt(r) => Passed(y)' BY <1>1, <1>3, <2>1 DEF Passed
    <3>4. RunPlace(r)' BY <1>2, <1>5, <2>1, <3>2, <3>3, AfterRolePlace
    <3> QED BY <3>1, <3>4, RunTyped
  <2>2. CASE /\ p.label = "grant" /\ p.n = at[r].n /\ p.all = at[r].all
             /\ p.todo \subseteq getPermIDs(RoleAt(r), at[r].all)
    <3>1. getPermIDs(x, at[r].all) \subseteq at[r].all BY RunTyped, FullFacts
    <3>2. RunPlace(r)' BY <1>1, <1>2, <1>3, <1>5, <2>2, FillPlace
    <3> QED BY <1>1, <2>2, <3>1, <3>2, RunTyped
  <2> QED BY <2>1, <2>2
<1> QED BY <1>4, <1>6, <1>7, RunAside

LEMMA ClearRoleKeeps ==
  ASSUME BootInv, NEW r \in Runs, ClearRole(r)
  PROVE  BootInv'
<1>1. at[r].label = "clear" /\ UNCHANGED <<row, catalog, owner, broken, tenantVars>>
  BY DEF ClearRole
<1>2. PICK x \in SystemRoles : x = RoleAt(r) BY <1>1, AtRole DEF RoleLabels
<1>3. errors \in Nat /\ r \in Keepers /\ at[r] \in PlaceRow BY RunTyped
<1>4. PICK all : all = getPermIDs(x, at[r].all) OBVIOUS
<1>5. all \subseteq at[r].all /\ at[r].all \subseteq AllPermissions BY <1>4, RunTyped, FullFacts
<1>6. PICK p : p = IF all = {} THEN AfterRole(r) ELSE [at[r] EXCEPT !.label = "grant", !.todo = all]
  OBVIOUS
<1>7. Put(r, p) BY <1>2, <1>4, <1>6 DEF ClearRole
<1>8. all # {} => p.label = "grant" /\ p.n = at[r].n /\ p.all = at[r].all /\ p.todo = all
                  /\ p \in PlaceRow
  BY <1>3, <1>5, <1>6 DEF PlaceRow
<1>9. p \in PlaceRow BY <1>1, <1>6, <1>8, AfterRoleTyped DEF RoleLabels
<1>10. \/ seeded' = {g \in seeded : g[1] # x} /\ errors' = errors
       \/ errors' = errors + 1 /\ seeded' = seeded
  BY <1>2 DEF ClearRole
<1>11. /\ seeded' \subseteq seeded /\ errors' \in Nat /\ errors <= errors'
       /\ seeded' \subseteq SystemRoles \X AllPermissions
  BY <1>3, <1>10 DEF BootInv, BootTyped
<1>12. \A y \in SystemRoles : Permissions(y)' \subseteq Permissions(y) BY <1>11 DEF Permissions
<1>13. CASE errors' > 0
  <2>1. (\A y \in SystemRoles : Stable(y)') /\ FillInv' BY <1>11, <1>13, RolesLost
  <2> QED BY <1>1, <1>2, <1>4, <1>6, <1>7, <1>8, <1>9, <1>11, <1>12, <2>1, FillerMoves
<1>14. CASE errors' = 0
  <2>1. errors = 0 /\ seeded' = {g \in seeded : g[1] # x} BY <1>3, <1>10, <1>14
  <2>2. at[r].all = AllPermissions BY <1>1, <2>1, RunTyped DEF RunPlace, RoleLabels
  <2>3. all = Full(x) /\ Full(x) # {} BY <1>4, <2>2, FullFacts DEF Full
  <2>4. at'[r] = p /\ \A d \in Runs : d # r => at'[d] = at[d]
    BY <1>3, <1>7 DEF Put, BootInv, BootTyped, Keepers
  <2>5. p.label = "grant" /\ p.n = at[r].n /\ p.todo = Full(x) BY <1>8, <2>3
  <2>6. \A y \in SystemRoles : y # x => Permissions(y)' = Permissions(y) BY <2>1 DEF Permissions
  <2>7. Fills(r, x) /\ Fills(r, x)' BY <1>1, <1>2, <2>4, <2>5 DEF Fills, RoleAt
  <2>8. \A c \in Runs : Fills(c, x)' => Fills(c, x) BY <2>4, <2>7 DEF Fills, RoleAt
  <2>9. Permissions(x)' = {} BY <2>1 DEF Permissions
  <2>10. x \notin broken => FillRole(x) /\ Permissions(x) = {}
    BY <1>1, <2>1, <2>7 DEF BootInv, FillInv, FillRole
  <2>11. Stable(x) => Stable(x)' BY <1>1, <2>1, <2>3, <2>10 DEF Stable
  <2>12. ASSUME x \notin broken' PROVE FillRole(x)'
    <3>1. \A c \in Runs : Fills(c, x)' => c = r BY <1>1, <2>7, <2>8, <2>10, <2>12 DEF FillRole
    <3>2. Permissions(x)' = Full(x) \ at'[r].todo BY <2>4, <2>5, <2>9
    <3>3. /\ \A c, d \in Runs : Fills(c, x)' /\ Fills(d, x)' => c = d
          /\ \A c \in Runs : Fills(c, x)' /\ at'[c].label = "grant"
               => Permissions(x)' = Full(x) \ at'[c].todo
          /\ ~ \A c \in Runs : ~ Fills(c, x)'
      BY <2>7, <3>1, <3>2
    <3> QED BY <2>9, <3>3 DEF FillRole, Full, getPermIDs
  <2>13. (\A y \in SystemRoles : Stable(y) => Stable(y)') /\ FillInv'
    BY <1>1, <1>2, <1>14, <2>1, <2>4, <2>5, <2>6, <2>11, <2>12, OneRole DEF RoleLabels
  <2>14. p.all = at[r].all /\ p.todo \subseteq getPermIDs(RoleAt(r), at[r].all)
    BY <1>2, <1>4, <1>8, <2>3
  <2> QED BY <1>1, <1>7, <1>9, <1>11, <1>12, <2>5, <2>13, <2>14, FillerMoves
<1> QED BY <1>11, <1>13, <1>14

LEMMA GrantRoleKeeps ==
  ASSUME BootInv, NEW r \in Runs, GrantRole(r)
  PROVE  BootInv'
<1>1. at[r].label = "grant" /\ UNCHANGED <<row, catalog, owner, errors, broken, tenantVars>>
  BY DEF GrantRole
<1>2. PICK x \in SystemRoles : x = RoleAt(r) BY <1>1, AtRole DEF RoleLabels
<1>3. errors \in Nat /\ r \in Keepers /\ at[r] \in PlaceRow /\ at[r].todo \subseteq AllPermissions
  BY RunTyped
<1>4. PICK q \in at[r].todo :
        /\ seeded' = seeded \cup {<<x, q>>}
        /\ Put(r, IF at[r].todo = {q} THEN AfterRole(r) ELSE [at[r] EXCEPT !.todo = @ \ {q}])
  BY <1>2 DEF GrantRole
<1>5. PICK p : p = IF at[r].todo = {q} THEN AfterRole(r) ELSE [at[r] EXCEPT !.todo = @ \ {q}]
  OBVIOUS
<1>6. Put(r, p) BY <1>4, <1>5
<1>7. at[r].todo # {q} => p.label = "grant" /\ p.n = at[r].n /\ p.all = at[r].all
                          /\ p.todo = at[r].todo \ {q} /\ p \in PlaceRow
  BY <1>1, <1>3, <1>5 DEF PlaceRow
<1>8. at[r].todo = {q} => p.label \in {"role", "assign"} /\ p \in PlaceRow
  BY <1>1, <1>5, AfterRoleTyped DEF RoleLabels
<1>9. p \in PlaceRow BY <1>7, <1>8
<1>10. at[r].todo \subseteq getPermIDs(x, at[r].all) BY <1>1, <1>2, RunTyped DEF RunPlace
<1>11. seeded' \subseteq SystemRoles \X AllPermissions BY <1>3, <1>4 DEF BootInv, BootTyped
<1>12. \A y \in SystemRoles : y # x => Permissions(y)' = Permissions(y) BY <1>4 DEF Permissions
<1>13. Permissions(x)' = Permissions(x) \cup {q} BY <1>3, <1>4 DEF Permissions
<1>14. (\A y \in SystemRoles : Stable(y) => Stable(y)') /\ FillInv' /\ Stable(x)'
  <2>1. CASE errors > 0 BY <1>1, <1>3, <2>1, RolesLost
  <2>2. CASE errors = 0
    <3>1. at[r].all = AllPermissions BY <1>1, <2>2, RunTyped DEF RunPlace, RoleLabels
    <3>2. at[r].todo \subseteq Full(x) /\ q \in Full(x) BY <1>4, <1>10, <3>1 DEF Full
    <3>3. at'[r] = p /\ \A d \in Runs : d # r => at'[d] = at[d]
      BY <1>3, <1>6 DEF Put, BootInv, BootTyped, Keepers
    <3>4. Fills(r, x) BY <1>1, <1>2 DEF Fills
    <3>5. p.label = "grant" => Fills(r, x)' /\ at'[r].todo = at[r].todo \ {q}
      BY <1>2, <1>7, <1>8, <3>3 DEF Fills, RoleAt
    <3>6. p.label # "grant" => at[r].todo = {q} /\ ~ Fills(r, x)'
      BY <1>7, <1>8, <3>3 DEF Fills
    <3>7. \A c \in Runs : c # r => (Fills(c, x)' <=> Fills(c, x)) BY <3>3 DEF Fills, RoleAt
    <3>8. x \notin broken => /\ Permissions(x) = Full(x) \ at[r].todo
                             /\ \A c \in Runs : Fills(c, x) => c = r
      BY <1>1, <2>2, <3>4 DEF BootInv, FillInv, FillRole
    <3>9. ASSUME x \notin broken
          PROVE  /\ p.label # "grant" => Permissions(x)' = Full(x)
                 /\ p.label = "grant" => Permissions(x)' = Full(x) \ at'[r].todo
      BY <1>13, <3>2, <3>5, <3>6, <3>8, <3>9
    <3>10. \A c \in Runs : Fills(c, x)' /\ x \notin broken => c = r BY <3>7, <3>8
    <3>11. Stable(x)'
      <4>1. CASE x \in broken BY <1>1, <4>1 DEF Stable
      <4>2. CASE x \notin broken /\ p.label = "grant" BY <1>13, <3>3, <3>5, <4>2 DEF Stable
      <4>3. CASE x \notin broken /\ p.label # "grant" BY <3>9, <4>3 DEF Stable, Full, getPermIDs
      <4> QED BY <4>1, <4>2, <4>3
    <3>12. ASSUME x \notin broken' PROVE FillRole(x)'
      <4>1. x \notin broken BY <1>1, <3>12
      <4>2. \A c, d \in Runs : Fills(c, x)' /\ Fills(d, x)' => c = d BY <3>10, <4>1
      <4>3. \A c \in Runs : Fills(c, x)' => at'[c].label = "grant" /\ Permissions(x)' = Full(x) \ at'[c].todo
        <5>1. \A c \in Runs : Fills(c, x)' => c = r BY <3>10, <4>1
        <5>2. Fills(r, x)' => p.label = "grant" BY <3>6
        <5> QED BY <3>3, <3>9, <4>1, <5>1, <5>2
      <4>4. (\A c \in Runs : ~ Fills(c, x)') => Permissions(x)' \in {{}, Full(x)}
        BY <3>5, <3>9, <4>1
      <4>5. \A c \in Runs : Fills(c, x)' /\ at'[c].label = "clear" => FALSE BY <4>3
      <4> QED BY <4>2, <4>3, <4>4, <4>5 DEF FillRole, Full, getPermIDs
    <3>13. at'[r].label \in {"clear", "grant"} => at'[r].n = at[r].n BY <1>7, <1>8, <3>3
    <3> QED
      BY <1>1, <1>2, <1>12, <2>2, <3>3, <3>11, <3>12, <3>13, OneRole DEF RoleLabels
  <2> QED BY <1>3, <2>1, <2>2
<1>15. errors' \in Nat /\ errors <= errors' BY <1>1, <1>3
<1>16. \/ p = AfterRole(r)
       \/ /\ p.label = "grant" /\ p.n = at[r].n /\ p.all = at[r].all
          /\ p.todo \subseteq getPermIDs(RoleAt(r), at[r].all)
  BY <1>2, <1>5, <1>7, <1>10
<1> QED
  BY <1>1, <1>2, <1>6, <1>9, <1>11, <1>12, <1>14, <1>15, <1>16, FillerMoves

LEMMA GrantRefusedKeeps ==
  ASSUME BootInv, NEW r \in Runs, GrantRefused(r)
  PROVE  BootInv'
<1>1. at[r].label = "grant" /\ UNCHANGED <<row, catalog, seeded, owner, broken, tenantVars>>
      /\ Put(r, AfterRole(r)) /\ errors' = errors + 1
  BY DEF GrantRefused
<1>2. errors' \in Nat /\ errors <= errors' /\ errors' > 0 BY <1>1, RunTyped
<1>3. (\A y \in SystemRoles : Stable(y)') /\ FillInv' BY <1>2, RolesLost
<1>4. AfterRole(r) \in PlaceRow BY <1>1, AfterRoleTyped DEF RoleLabels
<1>5. \A y \in SystemRoles : Permissions(y)' = Permissions(y) BY <1>1 DEF Permissions
<1>6. seeded' \subseteq SystemRoles \X AllPermissions BY <1>1 DEF BootInv, BootTyped
<1> QED BY <1>1, <1>2, <1>3, <1>4, <1>5, <1>6, FillerMoves

LEMMA DieKeeps ==
  ASSUME BootInv, NEW r \in Runs, Die(r)
  PROVE  BootInv'
<1>1. UNCHANGED <<row, catalog, seeded, owner, errors, tenantVars>>
      /\ broken' = broken \cup {y \in SystemRoles : Fills(r, y) /\ Permissions(y) # {}}
  BY DEF Die
<1>2. PICK p : p = Place("dead", 1, {}) OBVIOUS
<1>3. p \in PlaceRow /\ p.label = "dead" /\ p.todo = {} /\ p.all = {} BY <1>2, PlaceTyped
<1>4. Put(r, p) BY <1>2 DEF Die
<1>5. errors \in Nat /\ r \in Keepers BY RunTyped
<1>6. at'[r] = p /\ \A d \in Runs : d # r => at'[d] = at[d]
  BY <1>4, <1>5 DEF Put, BootInv, BootTyped, Keepers
<1>7. RunPlace(r)' BY <1>3, <1>6 DEF RunPlace, RoleLabels
<1>8. errors' \in Nat /\ errors <= errors' BY <1>1, <1>5
<1>9. \A y \in SystemRoles : Permissions(y)' = Permissions(y) BY <1>1 DEF Permissions
<1>10. (\A y \in SystemRoles : Stable(y) => Stable(y)') /\ FillInv'
  <2>1. CASE at[r].label \notin {"clear", "grant"}
    <3>1. broken' = broken BY <1>1, <2>1 DEF Fills
    <3>2. \A c \in Runs : SameFill(c) BY <1>3, <1>6, <2>1 DEF SameFill
    <3> QED BY <1>1, <1>8, <3>1, <3>2, RolesQuiet
  <2>2. CASE at[r].label \in {"clear", "grant"} /\ errors > 0 BY <1>1, <1>8, <2>2, RolesLost
  <2>3. CASE at[r].label \in {"clear", "grant"} /\ errors = 0
    <3>1. PICK x \in SystemRoles : x = RoleAt(r) BY <2>3, AtRole DEF RoleLabels
    <3>2. Fills(r, x) /\ ~ Fills(r, x)' BY <1>3, <1>6, <2>3, <3>1 DEF Fills
    <3>3. \A y : Fills(r, y) => y = x BY <3>1 DEF Fills
    <3>4. broken \subseteq broken' /\ \A y \in broken' : y = x \/ y \in broken BY <1>1, <3>3
    <3>5. Permissions(x) # {} => x \in broken' BY <1>1, <3>2
    <3>6. Stable(x) => Stable(x)'
      <4>1. Permissions(x) = {} => ~ (Permissions(x) = Full(x)) BY FullFacts
      <4> QED BY <1>1, <2>3, <3>4, <3>5, <4>1 DEF Stable
    <3>7. ASSUME x \notin broken' PROVE FillRole(x)'
      <4>1. FillRole(x) BY <2>3, <3>4, <3>7 DEF BootInv, FillInv
      <4>2. \A c \in Runs : ~ Fills(c, x)'
        BY <1>6, <3>2, <4>1 DEF FillRole, Fills, RoleAt
      <4>3. Permissions(x)' = {} BY <1>9, <3>5, <3>7
      <4> QED BY <4>2, <4>3 DEF FillRole
    <3>8. at'[r].label \in {"clear", "grant"} => at'[r].n = at[r].n BY <1>3, <1>6
    <3> QED
      BY <1>1, <1>6, <1>9, <2>3, <3>1, <3>4, <3>6, <3>7, <3>8, OneRole DEF RoleLabels
  <2> QED BY <1>5, <2>1, <2>2, <2>3
<1>11. \A y \in SystemRoles : Permissions(y)' # {} => row[y] # {}
  BY <1>9 DEF BootInv, RowsBehind
<1>12. broken' \subseteq SystemRoles /\ seeded' \subseteq SystemRoles \X AllPermissions
       /\ owner' \in BOOLEAN /\ (owner => owner') /\ catalog \subseteq catalog'
       /\ catalog' \subseteq AllPermissions
  BY <1>1, RunTyped DEF BootInv, BootTyped
<1> QED BY <1>1, <1>3, <1>4, <1>7, <1>8, <1>10, <1>11, <1>12, RunAside

-----------------------------------------------------------------------------
(* The tenant usecase.                                                     *)

\* A step of a call that is no run leaves the roles alone.
LEMMA CallMoves ==
  ASSUME BootInv, NEW c \in Creators \cup Updaters, NEW l \in {"insert", "write", "done", "dead"},
         Put(c, Place(l, 1, {})), UNCHANGED <<catalog, seeded, owner, errors, broken>>,
         copy' \in [Updaters -> CopyRow \cup {Void}],
         status' \in TenantStatuses \cup {Void}, settled' \in TenantStatuses \cup {Void},
         row' \in [Tables -> SUBSET Keepers],
         \A x \in Tables : row'[x] = {} \/ \E d \in Keepers : row'[x] = {d},
         \A x \in Tables : row[x] # {} => row'[x] # {}, TenantInv'
  PROVE  BootInv'
<1>1. c \in Keepers /\ c \notin Runs BY RunsDisjoint DEF Keepers
<1>2. PICK p \in PlaceRow : p = Place(l, 1, {}) /\ p.todo = {} /\ p.all = {} BY PlaceTyped
<1>3. \A d \in Runs : SameFill(d) BY <1>1 DEF Put, SameFill, BootInv, BootTyped, Keepers
<1>4. errors' \in Nat /\ errors <= errors' BY DEF BootInv, BootTyped
<1>5. (\A x \in SystemRoles : Stable(x) => Stable(x)') /\ FillInv' BY <1>3, <1>4, RolesQuiet
<1>6. RowsBehind' BY Concrete DEF BootInv, RowsBehind, Permissions
<1> QED BY <1>1, <1>2, <1>4, <1>5, <1>6, KeeperMoves DEF BootInv, BootTyped

LEMMA CallPlaces ==
  ASSUME BootInv, NEW c \in Creators \cup Updaters, NEW p, Put(c, p)
  PROVE  at'[c] = p /\ \A d \in Keepers : d # c => at'[d] = at[d]
BY DEF Put, BootInv, BootTyped, Keepers

LEMMA CreatorKeeps ==
  ASSUME BootInv, NEW c \in Creators, CheckCode(c) \/ CreateTenant(c)
  PROVE  BootInv'
<1>1. c \in Keepers /\ c \notin Updaters BY RunsDisjoint DEF Keepers
<1>2. /\ copy \in [Updaters -> CopyRow \cup {Void}]
      /\ status \in TenantStatuses \cup {Void} /\ settled \in TenantStatuses \cup {Void}
      /\ row \in [Tables -> SUBSET Keepers]
      /\ \A x \in Tables : row[x] = {} \/ \E d \in Keepers : row[x] = {d}
      /\ "tenant" \in Tables
  BY Concrete DEF BootInv, BootTyped
<1>3. ASSUME NEW l \in {"insert", "dead"}, Put(c, Place(l, 1, {})),
             UNCHANGED <<row, catalog, seeded, owner, errors, broken, tenantVars>>
      PROVE  BootInv'
  <2>1. \A u \in Updaters : at'[u] = at[u] BY <1>1, <1>3, CallPlaces DEF Keepers
  <2>2. TenantInv' BY <1>3, <2>1, TenantKeeps
  <2> QED BY <1>2, <1>3, <2>2, CallMoves DEF tenantVars
<1>4. CASE CheckCode(c) BY <1>3, <1>4 DEF CheckCode
<1>5. CASE CreateTenant(c) /\ row["tenant"] # {} BY <1>3, <1>5 DEF CreateTenant, tenantVars
<1>6. CASE CreateTenant(c) /\ row["tenant"] = {}
  <2>1. /\ InsertRow(c, "tenant") /\ NewTenant("tenant") /\ Put(c, Place("done", 1, {}))
        /\ UNCHANGED <<catalog, seeded, owner, errors, broken, copy, overlapped>>
    BY <1>6 DEF CreateTenant
  <2>2. /\ row' \in [Tables -> SUBSET Keepers]
        /\ \A y \in Tables : row'[y] = {} \/ \E d \in Keepers : row'[y] = {d}
        /\ \A y \in Tables : row[y] # {} => row'[y] # {}
    BY <1>1, <1>2, <2>1, InsertsOne
  <2>3. \A u \in Updaters : at'[u] = at[u] BY <1>1, <2>1, CallPlaces DEF Keepers
  <2>4. TenantInv' /\ status' \in TenantStatuses \cup {Void} /\ settled' \in TenantStatuses \cup {Void}
    BY <1>2, <1>6, <2>1, <2>2, <2>3, TenantBorn
  <2> QED BY <1>2, <2>1, <2>2, <2>4, CallMoves
<1> QED BY <1>4, <1>5, <1>6

LEMMA UpdaterKeeps ==
  ASSUME BootInv, NEW u \in Updaters, ReadTenant(u) \/ UpdateTenant(u)
  PROVE  BootInv'
<1>1. u \in Keepers BY DEF Keepers
<1>2. /\ copy \in [Updaters -> CopyRow \cup {Void}]
      /\ status \in TenantStatuses \cup {Void} /\ settled \in TenantStatuses \cup {Void}
      /\ row \in [Tables -> SUBSET Keepers]
      /\ \A x \in Tables : row[x] = {} \/ \E d \in Keepers : row[x] = {d}
  BY DEF BootInv, BootTyped
<1>3. CASE ReadTenant(u)
  <2>1. /\ row["tenant"] # {} /\ Put(u, Place("write", 1, {}))
        /\ UNCHANGED <<row, status, catalog, seeded, owner, errors, settled, broken>>
        /\ overlapped' = (overlapped \/ \E v \in Updaters : at[v].label = "write")
    BY <1>3 DEF ReadTenant
  <2>2. PICK ask \in TenantStatuses \cup {Void} :
          copy' = [copy EXCEPT ![u] = [ask |-> ask, write |-> IF ask = Void THEN status ELSE ask]]
    BY <1>3 DEF ReadTenant
  <2>3. PICK e : e = [ask |-> ask, write |-> IF ask = Void THEN status ELSE ask] OBVIOUS
  <2>4. e \in CopyRow /\ e.ask = ask /\ e.write = (IF ask = Void THEN status ELSE ask)
         /\ copy' = [copy EXCEPT ![u] = e]
    BY <1>2, <2>2, <2>3 DEF CopyRow
  <2>5. copy' \in [Updaters -> CopyRow \cup {Void}] /\ copy'[u] = e
        /\ \A v \in Updaters : v # u => copy'[v] = copy[v]
    BY <1>2, <2>4
  <2>6. Place("write", 1, {}).label = "write" BY DEF Place
  <2>7. at'[u].label = "write" /\ \A v \in Updaters : v # u => at'[v] = at[v]
    BY <2>1, <2>6, CallPlaces DEF Keepers
  <2>8. \A v \in Updaters : at'[v].label = "write" => row'["tenant"] # {} /\ copy'[v] \in CopyRow
    BY <2>1, <2>5, <2>7, <2>4 DEF BootInv, TenantInv
  <2>9. ASSUME ~ overlapped' PROVE \A v \in Updaters : at'[v].label = "write" => v = u
    BY <2>1, <2>7, <2>9
  <2>10. ASSUME ~ overlapped' PROVE \A v \in Updaters : at'[v].label = "write" =>
                                copy'[v].write = IF copy'[v].ask = Void THEN status' ELSE copy'[v].ask
    <3>1. copy'[u].write = IF copy'[u].ask = Void THEN status' ELSE copy'[u].ask
      BY <2>1, <2>5, <2>4
    <3> QED BY <2>9, <2>10, <3>1
  <2>11. TenantStatusAsDecided' BY <2>1 DEF BootInv, TenantInv, TenantStatusAsDecided
  <2>12. TenantInv' BY <2>8, <2>9, <2>10, <2>11 DEF TenantInv
  <2> QED BY <1>2, <2>1, <2>5, <2>12, CallMoves
<1>4. CASE UpdateTenant(u)
  <2>1. /\ at[u].label = "write" /\ Put(u, Place("done", 1, {})) /\ status' = copy[u].write
        /\ settled' = IF copy[u].ask = Void THEN settled ELSE copy[u].ask
        /\ UNCHANGED <<copy, row, catalog, seeded, owner, errors, overlapped, broken>>
    BY <1>4 DEF UpdateTenant
  <2>2. copy[u] \in CopyRow BY <2>1 DEF BootInv, TenantInv
  <2>3. status' \in TenantStatuses \cup {Void} /\ settled' \in TenantStatuses \cup {Void}
    BY <1>2, <2>1, <2>2 DEF CopyRow
  <2>4. Place("done", 1, {}).label = "done" BY DEF Place
  <2>5. at'[u].label = "done" /\ \A v \in Updaters : v # u => at'[v] = at[v]
    BY <2>1, <2>4, CallPlaces DEF Keepers
  <2>6. \A v \in Updaters : at'[v].label = "write" => row'["tenant"] # {} /\ copy'[v] \in CopyRow
    BY <2>1, <2>5 DEF BootInv, TenantInv
  <2>7. ASSUME ~ overlapped' PROVE (\A v \in Updaters : at'[v].label # "write") /\ status' = settled'
    <3>1. /\ \A v \in Updaters : at[v].label = "write" => v = u
          /\ copy[u].write = IF copy[u].ask = Void THEN status ELSE copy[u].ask
          /\ status = settled
      BY <2>1, <2>7 DEF BootInv, TenantInv, TenantStatusAsDecided
    <3> QED BY <2>1, <2>5, <3>1
  <2>8. TenantInv' BY <2>6, <2>7 DEF TenantInv, TenantStatusAsDecided
  <2> QED BY <1>2, <2>1, <2>3, <2>8, CallMoves
<1> QED BY <1>3, <1>4

LEMMA BootNextInv ==
  ASSUME BootInv, [BootNext]_bootVars
  PROVE  BootInv'
<1>1. CASE UNCHANGED bootVars
  <2> USE <1>1 DEF bootVars
  <2>1. BootTyped' /\ owner' \in BOOLEAN BY DEF BootInv, BootTyped
  <2>2. (\A x \in SystemRoles : Permissions(x)' = Permissions(x))
        /\ (\A c \in Runs : RoleAt(c)' = RoleAt(c))
    BY DEF Permissions, RoleAt
  <2>3. \A c \in Runs : SameFill(c) BY DEF SameFill
  <2>4. errors' \in Nat /\ errors <= errors' BY DEF BootInv, BootTyped
  <2>5. (\A x \in SystemRoles : Stable(x) => Stable(x)') /\ FillInv' BY <2>3, <2>4, RolesQuiet
  <2>6. RowsBehind' /\ TenantInv'
    BY <2>2, TenantKeeps DEF BootInv, RowsBehind, tenantVars
  <2>7. \A r \in Runs : RunPlace(r)'
    <3>2. PICK z : z \notin Runs BY NoSetContainsEverything
    <3>3. catalog \subseteq catalog' /\ catalog' \subseteq AllPermissions BY DEF BootInv, BootTyped
    <3> QED BY <2>4, <2>5, <3>2, <3>3, RunsKeep
  <2> QED BY <2>1, <2>5, <2>6, <2>7 DEF BootInv
<1>2. ASSUME NEW r \in Runs, SeedStep(r) \/ Die(r) PROVE BootInv'
  BY <1>2, EnsureWildcardKeeps, LookUpKeeps, InsertKeeps, ListPermissionsKeeps, LookUpRoleKeeps,
     SeedRoleKeeps, SyncRoleKeeps, ClearRoleKeeps, GrantRoleKeeps, GrantRefusedKeeps,
     AssignOwnerKeeps, DieKeeps DEF SeedStep
<1> QED BY <1>1, <1>2, CreatorKeeps, UpdaterKeeps DEF BootNext

\* BootInv is an invariant of tenants and bootstrap: it ties what a role holds to the run
\* that is between its DELETE and its last INSERT, and every place of a run to what lies behind.
THEOREM BootInvariance == BootSpec => []BootInv
<1>1. BootInit => BootInv BY BootInitInv
<1>2. BootInv /\ [BootNext]_bootVars => BootInv' BY BootNextInv
<1> QED BY <1>1, <1>2, PTL DEF BootSpec

LEMMA SeedersLeaveAll ==
  ASSUME BootInv
  PROVE  TenantAsLeft
<1>1. ASSUME NEW r \in Runs, at[r].label = "done"
      PROVE  /\ \A x \in Tables : row[x] # {}
             /\ owner
             /\ \/ errors > 0
                \/ \A x \in SystemRoles :
                     \/ x \in broken \/ \E c \in Runs : Fills(c, x)
                     \/ Permissions(x) = getPermIDs(x, AllPermissions)
  <2>1. /\ \A i \in 1..4 : row[Steps[i]] # {} /\ owner
        /\ \A x \in SystemRoles : Passed(x)
    BY <1>1 DEF BootInv, RunPlace
  <2>2. \A x \in Tables : row[x] # {} BY <2>1, Concrete DEF Passed
  <2>3. \A x \in SystemRoles : Stable(x) BY <2>1 DEF Passed
  <2>4. \/ errors > 0
        \/ \A x \in SystemRoles : \/ x \in broken \/ \E c \in Runs : Fills(c, x)
                                  \/ Permissions(x) = Full(x)
    BY <2>3 DEF Stable
  <2>5. owner BY <1>1 DEF BootInv, RunPlace
  <2> QED BY <2>2, <2>4, <2>5 DEF Full
<1>2. SeedComplete BY <1>1 DEF SeedComplete
<1>3. TenantStatusAsDecided BY DEF BootInv, TenantInv
<1> QED BY <1>2, <1>3 DEF TenantAsLeft

\* A run of bootstrap.Run that reports success has left every row, the owner's role and the
\* permissions of every role in place, whatever runs died before it or went on beside it, with
\* the exceptions SeedComplete names; and the tenant has the status last asked for unless two
\* UpdateTenant calls overlapped.  For any number of runs, creations and updates.
THEOREM TenantAlwaysAsLeft == BootSpec => []TenantAsLeft
<1>1. BootInv => TenantAsLeft BY SeedersLeaveAll
<1> QED BY <1>1, BootInvariance, PTL

LEMMA BootSchemaHolds ==
  ASSUME BootInv
  PROVE  BootTypeOK /\ OneOfEach
<1>1. \A c \in Keepers : at[c].n \in 1..4 BY DEF BootInv, BootTyped, PlaceRow
<1>2. BootTypeOK BY <1>1 DEF BootTypeOK, BootInv, BootTyped
<1>3. ASSUME NEW x \in Tables PROVE Cardinality(row[x]) <= 1
  <2>1. CASE row[x] = {} BY <2>1, FS_EmptySet
  <2>2. CASE \E c \in Keepers : row[x] = {c}
    <3>1. PICK c \in Keepers : row[x] = {c} BY <2>2
    <3>2. Cardinality({c}) = 1 BY FS_Singleton
    <3> QED BY <3>1, <3>2
  <2> QED BY <2>1, <2>2 DEF BootInv, BootTyped
<1> QED BY <1>2, <1>3 DEF OneOfEach

\* The types of both components, the mutex of the registry, and one row for each key that the
\* seeder and CreateTenant look up before they insert.
THEOREM LifeSchemaAlways == LifeSpec /\ BootSpec => []LifeSchema
<1>1. LifeInv => LifeTypeOK BY LifeTypesHold
<1>2. BootInv => BootTypeOK /\ OneOfEach BY BootSchemaHolds
<1> QED BY <1>1, <1>2, LifeInvariance, BootInvariance, PTL DEF LifeSchema

=============================================================================
