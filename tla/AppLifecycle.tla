----------------------------- MODULE AppLifecycle -----------------------------
(***************************************************************************)
(* The life of the application: New registers, orders and initialises the  *)
(* modules, Start brings up the worker and the servers, and two shutdown   *)
(* paths, the goroutine of Start and App.Shutdown, take them down again.   *)
(* Names of modules are numbers, in the order in which strings sort.  A    *)
(* dependency that is listed twice counts twice on both sides of Kahn's    *)
(* algorithm and is modelled once.                                         *)
(***************************************************************************)
EXTENDS Naturals, Sequences, FiniteSets, FiniteSetsExt

CONSTANTS
  Names,         \* names modules can have
  Offers,        \* the sequences Options.Modules can be
  MaxRpcs        \* bound on the RPCs in flight

ASSUME NamesAreNumbers == Names \subseteq Nat
ASSUME OffersOfNames == Offers \subseteq Seq(Names)
ASSUME RpcsNatural == MaxRpcs \in Nat

VARIABLES
  phase,      \* where New stands, or why it failed
  offered,    \* modules still to be registered
  deps,       \* what each manifest says
  registered, \* Registry.modules
  kahn,       \* local state of resolveOrderLocked
  order,      \* Registry.order
  module,     \* what has been called on each module
  permitted,  \* modules whose permissions are in the catalog
  bound,      \* modules whose subscriptions are on the bus
  pool,       \* is the database pool open
  main,       \* where Start stands
  path,       \* where each shutdown path stands
  holder,     \* the path that holds Registry.mu
  left,       \* modules that ShutdownAll has yet to call
  cancelled,  \* the context of Start
  worker, rpc, http,
  requests,   \* HTTP requests in flight, by the module that serves them
  rpcs        \* number of RPCs in flight

newVars == <<phase, offered, deps, registered, kahn, order, permitted, bound, pool>>
downVars == <<path, holder, left, cancelled>>
trafficVars == <<requests, rpcs>>
lifeVars == <<newVars, module, main, downVars, worker, rpc, http, trafficVars>>

Paths == {"signal", "shutdown"}

\* What the two shutdown paths do, in their order.
PathSteps == [signal |-> <<"cancel", "drain", "rpc", "modules", "limiter", "http", "wait", "done">>,
              shutdown |-> <<"cancel", "drain", "rpc", "limiter", "modules", "done">>]
Failures == {"duplicate", "missing", "cycle", "initFailed"}
Elements(s) == {s[i] : i \in 1..Len(s)}

LifeInit ==
  /\ phase = "register"
  /\ offered \in Offers
  /\ deps \in {d \in [Names -> SUBSET Names] : \A m \in Names \ Elements(offered) : d[m] = {}}
  /\ registered = {} /\ order = <<>>
  /\ kahn = [inDegree |-> <<>>, queue |-> {}, resolved |-> <<>>]
  /\ module = [m \in Names |-> "new"]
  /\ permitted = {} /\ bound = {} /\ pool = "open"
  /\ main = "idle"
  /\ path = [p \in Paths |-> 0]
  /\ holder = {} /\ left = <<>> /\ cancelled = FALSE
  /\ worker = "off" /\ rpc = "off" /\ http = "off"
  /\ requests = {} /\ rpcs = 0

-----------------------------------------------------------------------------
(* New.                                                                    *)

runVars == <<module, main, downVars, worker, rpc, http, trafficVars>>

\* New returns an error: it closes the pool and leaves the modules alone.
FailNew(why) == phase' = why /\ pool' = "closed"

\* Register: a name may be taken.
Register(m) ==
  /\ phase = "register" /\ offered # <<>> /\ m = Head(offered)
  /\ IF m \in registered
       THEN FailNew("duplicate") /\ UNCHANGED <<registered, offered>>
       ELSE /\ registered' = registered \cup {m}
            /\ offered' = Tail(offered)
            /\ UNCHANGED <<phase, pool>>
  /\ UNCHANGED <<deps, kahn, order, permitted, bound, runVars>>

\* resolveOrderLocked up to its loop: in-degrees and the first queue.  The
\* queue is sorted whenever it grows, so it is a set one takes the least of.
StartResolve ==
  /\ phase = "register" /\ offered = <<>>
  /\ IF \E m \in registered : ~ deps[m] \subseteq registered
       THEN FailNew("missing") /\ UNCHANGED kahn
       ELSE /\ phase' = "resolve"
            /\ kahn' = [inDegree |-> [m \in registered |-> Cardinality(deps[m])],
                        queue |-> {m \in registered : deps[m] = {}},
                        resolved |-> <<>>]
            /\ UNCHANGED pool
  /\ UNCHANGED <<offered, deps, registered, order, permitted, bound, runVars>>

\* Mutant: the queue is not sorted.
TakenAny(queue) == queue

\* queue[0] after sort.Strings.
Taken(queue) == {Min(queue)}

\* One turn of the loop: the dependents of curr lose one prerequisite.
KahnStep ==
  /\ phase = "resolve" /\ kahn.queue # {}
  /\ \E curr \in Taken(kahn.queue) :
       LET inDegree == [m \in registered |->
                          IF curr \in deps[m] THEN kahn.inDegree[m] - 1 ELSE kahn.inDegree[m]]
           freed == {m \in registered : curr \in deps[m] /\ inDegree[m] = 0} IN
       kahn' = [inDegree |-> inDegree,
                queue |-> (kahn.queue \ {curr}) \cup freed,
                resolved |-> Append(kahn.resolved, curr)]
  /\ UNCHANGED <<phase, offered, deps, registered, order, permitted, bound, pool, runVars>>

\* The end of resolveOrderLocked: modules that were never freed are on a cycle.
EndResolve ==
  /\ phase = "resolve" /\ kahn.queue = {}
  /\ IF Len(kahn.resolved) # Cardinality(registered)
       THEN FailNew("cycle") /\ UNCHANGED order
       ELSE phase' = "init" /\ order' = kahn.resolved /\ UNCHANGED pool
  /\ UNCHANGED <<offered, deps, registered, kahn, permitted, bound, runVars>>

\* The modules of order on which Init has been called and has returned nil.
Running == {m \in registered : module[m] = "running"}

\* InitAll, one module: an error ends New, the modules before it stay up.
InitModule ==
  /\ phase = "init" /\ Cardinality(Running) < Len(order)
  /\ LET m == order[Cardinality(Running) + 1] IN
       \/ module' = [module EXCEPT ![m] = "running"] /\ UNCHANGED <<phase, pool>>
       \/ FailNew("initFailed") /\ UNCHANGED module
  /\ UNCHANGED <<offered, deps, registered, kahn, order, permitted, bound,
                 main, downVars, worker, rpc, http, trafficVars>>

\* RegisterPermissions stops at the first error, which New only logs.
RegisterPermissions ==
  /\ phase = "init" /\ Cardinality(Running) = Len(order)
  /\ \E k \in 0..Len(order) : permitted' = {order[i] : i \in 1..k}
  /\ phase' = "bind"
  /\ UNCHANGED <<offered, deps, registered, kahn, order, bound, pool, runVars>>

\* Mutant: New ends without BindSubscriptions.
BindSubscriptionsForgotten ==
  /\ phase = "bind"
  /\ phase' = "ready"
  /\ UNCHANGED <<offered, deps, registered, kahn, order, permitted, bound, pool, runVars>>

\* BindSubscriptions and the rest of New: routes and servers are assembled.
BindSubscriptions ==
  /\ phase = "bind"
  /\ bound' = Elements(order)
  /\ phase' = "ready"
  /\ UNCHANGED <<offered, deps, registered, kahn, order, permitted, pool, runVars>>

-----------------------------------------------------------------------------
(* Start.                                                                  *)

\* The worker is started first, then the dispatcher subscribes.
StartWorker ==
  /\ phase = "ready" /\ main = "idle"
  /\ worker' = "on"
  /\ main' = "grpc"
  /\ UNCHANGED <<newVars, module, downVars, rpc, http, trafficVars>>

\* The gRPC server, unless it is disabled: without its port Start returns, and
\* leaves the worker on.
StartGRPC ==
  /\ main = "grpc"
  /\ \/ main' \in {"error", "listen"} /\ UNCHANGED rpc
     \/ main' = "listen" /\ rpc' = IF rpc = "off" THEN "up" ELSE rpc
  /\ UNCHANGED <<newVars, module, downVars, worker, http, trafficVars>>

\* ListenAndServe: it fails, serves, or finds that Shutdown came first.
Listen ==
  /\ main = "listen"
  /\ \/ http = "off" /\ main' = "error" /\ UNCHANGED http
     \/ http = "off" /\ main' = "serving" /\ http' = "up"
     \/ http = "closed" /\ main' = "waiting" /\ UNCHANGED http
  /\ UNCHANGED <<newVars, module, downVars, worker, rpc, trafficVars>>

\* ListenAndServe returns as soon as Shutdown is called, and Start waits for
\* what the goroutine reports.
Unblock ==
  /\ main = "serving" /\ http = "closed"
  /\ main' = "waiting"
  /\ UNCHANGED <<newVars, module, downVars, worker, rpc, http, trafficVars>>

Step(p) == IF path[p] = 0 THEN "off" ELSE PathSteps[p][path[p]]

StartReturn ==
  /\ main = "waiting" /\ Step("signal") = "done"
  /\ main' = "returned"
  /\ UNCHANGED <<newVars, module, downVars, worker, rpc, http, trafficVars>>

\* The signal that ends the context of Start, and the worker's with it.
Cancel ==
  /\ main \in {"grpc", "listen", "serving"} /\ ~ cancelled
  /\ cancelled' = TRUE
  /\ worker' = "off"
  /\ UNCHANGED <<newVars, module, main, path, holder, left, rpc, http, trafficVars>>

-----------------------------------------------------------------------------
(* The two shutdown paths.                                                 *)

Advance(p) == path' = [path EXCEPT ![p] = @ + 1]

\* The goroutine of Start wakes up, or somebody calls App.Shutdown.
BeginPath(p) ==
  /\ path[p] = 0
  /\ \/ p = "signal" /\ cancelled /\ main \in {"listen", "serving"}
     \/ p = "shutdown" /\ phase = "ready"
  /\ Advance(p)
  /\ UNCHANGED <<newVars, module, main, holder, left, cancelled, worker, rpc, http, trafficVars>>

CancelWorker(p) ==
  /\ Step(p) = "cancel"
  /\ worker' = IF worker = "on" THEN "off" ELSE worker
  /\ Advance(p)
  /\ UNCHANGED <<newVars, module, main, holder, left, cancelled, rpc, http, trafficVars>>

\* GracefulStop: no more RPCs are taken, and it waits for those in flight.
DrainRPC(p) ==
  /\ Step(p) = "drain"
  /\ rpc' = "closed"
  /\ Advance(p)
  /\ UNCHANGED <<newVars, module, main, holder, left, cancelled, worker, http, trafficVars>>

StopRPC(p) ==
  /\ Step(p) = "rpc" /\ rpcs = 0
  /\ Advance(p)
  /\ UNCHANGED <<newVars, module, main, holder, left, cancelled, worker, rpc, http, trafficVars>>

\* ShutdownAll: the mutex is held for the whole loop.
LockRegistry(p) ==
  /\ Step(p) = "modules" /\ holder = {}
  /\ holder' = {p}
  /\ left' = order
  /\ UNCHANGED <<newVars, module, main, path, cancelled, worker, rpc, http, trafficVars>>

\* Mutant: the loop runs forwards.
LastFirst(s) == s[1]

\* The module the loop is at: order backwards.
LastOf(s) == s[Len(s)]

ShutdownModule(p) ==
  /\ holder = {p}
  /\ IF left = <<>>
       THEN holder' = {} /\ Advance(p) /\ UNCHANGED <<left, module>>
       ELSE /\ module' = [module EXCEPT ![LastOf(left)] = "stopped"]
            /\ left' = SubSeq(left, 1, Len(left) - 1)
            /\ UNCHANGED <<holder, path>>
  /\ UNCHANGED <<newVars, main, cancelled, worker, rpc, http, trafficVars>>

\* rateLimiter.Close is modelled in RateLimiter.
CloseLimiter(p) ==
  /\ Step(p) = "limiter"
  /\ Advance(p)
  /\ UNCHANGED <<newVars, module, main, holder, left, cancelled, worker, rpc, http, trafficVars>>

\* server.Shutdown: the listener is closed, then it waits.
StopHTTP(p) ==
  /\ Step(p) = "http"
  /\ http' = "closed"
  /\ Advance(p)
  /\ UNCHANGED <<newVars, module, main, holder, left, cancelled, worker, rpc, trafficVars>>

\* Mutant: without the ten seconds of shutdownCtx.
AwaitHTTPForever(p) ==
  /\ Step(p) = "wait" /\ requests = {}
  /\ Advance(p)
  /\ UNCHANGED <<newVars, module, main, holder, left, cancelled, worker, rpc, http, trafficVars>>

\* It returns when the requests have ended, or when shutdownCtx does.
AwaitHTTP(p) ==
  /\ Step(p) = "wait"
  /\ Advance(p)
  /\ UNCHANGED <<newVars, module, main, holder, left, cancelled, worker, rpc, http, trafficVars>>

-----------------------------------------------------------------------------
(* Traffic.                                                                *)

\* The HTTP server takes a request for a route of a module.
BeginRequest(m) ==
  /\ http = "up" /\ m \in registered \ requests
  /\ requests' = requests \cup {m}
  /\ UNCHANGED <<newVars, module, main, downVars, worker, rpc, http, rpcs>>

EndRequest(m) ==
  /\ m \in requests
  /\ requests' = requests \ {m}
  /\ UNCHANGED <<newVars, module, main, downVars, worker, rpc, http, rpcs>>

BeginRPC ==
  /\ rpc = "up" /\ rpcs < MaxRpcs
  /\ rpcs' = rpcs + 1
  /\ UNCHANGED <<newVars, module, main, downVars, worker, rpc, http, requests>>

EndRPC ==
  /\ rpcs > 0
  /\ rpcs' = rpcs - 1
  /\ UNCHANGED <<newVars, module, main, downVars, worker, rpc, http, requests>>

NewStep == \/ \E m \in Names : Register(m)
           \/ StartResolve \/ KahnStep \/ EndResolve
           \/ InitModule \/ RegisterPermissions \/ BindSubscriptions
StartStep == StartWorker \/ StartGRPC \/ Listen \/ Unblock \/ StartReturn
PathStep(p) == \/ BeginPath(p) \/ CancelWorker(p) \/ DrainRPC(p) \/ StopRPC(p)
               \/ LockRegistry(p) \/ ShutdownModule(p) \/ CloseLimiter(p)
               \/ StopHTTP(p) \/ AwaitHTTP(p)
Traffic == \/ \E m \in Names : BeginRequest(m) \/ EndRequest(m)
           \/ BeginRPC \/ EndRPC

LifeNext == NewStep \/ StartStep \/ Cancel \/ Traffic \/ \E p \in Paths : PathStep(p)

\* Goroutines run, RPC handlers return, and module code returns from Init and
\* Shutdown; HTTP requests may last for ever.
LifeFairness ==
  /\ WF_lifeVars(StartStep) /\ WF_lifeVars(EndRPC)
  /\ \A p \in Paths : WF_lifeVars(PathStep(p))

LifeSpec == LifeInit /\ [][LifeNext]_lifeVars /\ LifeFairness

-----------------------------------------------------------------------------
\* Every variable has its type, and the registry's mutex keeps the two shutdown
\* paths out of ShutdownAll at the same time.
LifeTypeOK ==
  /\ phase \in {"register", "resolve", "init", "bind", "ready"} \cup Failures
  /\ registered \subseteq Names /\ Elements(order) \subseteq registered
  /\ module \in [Names -> {"new", "running", "stopped"}]
  /\ permitted \subseteq registered /\ bound \subseteq registered
  /\ main \in {"idle", "grpc", "listen", "serving", "waiting", "returned", "error"}
  /\ path \in [Paths -> 0..8] /\ Cardinality(holder) <= 1
  /\ requests \subseteq registered /\ rpcs \in 0..MaxRpcs

\* The order of initialisation does not depend on the iteration order of Go's
\* maps: every position holds the least name whose dependencies come before it
\* (resolveOrderLocked), and no module is left out.
OrderIsLeast ==
  order # <<>> =>
    /\ Len(order) = Cardinality(registered)
    /\ \A i \in 1..Len(order) :
         LET before == {order[j] : j \in 1..(i - 1)} IN
         order[i] = Min({m \in registered \ before : deps[m] \subseteq before})

\* New reports a cycle only for modules that really wait for each other.
CyclesAreReal ==
  phase = "cycle" =>
    \E S \in (SUBSET registered) \ {{}} : \A m \in S : deps[m] \cap S # {}

\* A module runs only while the modules it depends on run: Init in order,
\* Shutdown in reverse order, and two shutdown paths do not change that.
DependenciesOutlive == \A m \in Running : deps[m] \subseteq Running

\* If New fails, modules are left running over a closed pool only when a later
\* module's Init failed.
OnlyInitLeavesBehind == pool = "closed" /\ Running # {} => phase = "initFailed"

\* The outbox worker never publishes before every module has its handlers on
\* the bus: no event is marked published that a module has not been offered.
ModulesHearEverything == worker = "on" => bound = registered

\* No module is shut down under a running RPC.
RpcsEndFirst == rpcs > 0 => \A m \in registered : module[m] # "stopped"

\* resolveOrderLocked answers with the least order, or reports a cycle there is.
OrderIsRight == OrderIsLeast /\ CyclesAreReal

\* Nothing runs on top of something that has been stopped: no module on its
\* dependencies, no RPC on the modules, however the two shutdown paths interleave.
StopsInOrder == DependenciesOutlive /\ RpcsEndFirst

\* New brings every module up before anything is published, or fails and leaves
\* nothing running, except when it is an Init that failed.
NewAllOrNothing == ModulesHearEverything /\ OnlyInitLeavesBehind

\* Once its context is cancelled Start returns, however long HTTP requests
\* last and even if App.Shutdown runs at the same time.
StartReturns == cancelled ~> main \in {"returned", "error"}
=============================================================================
