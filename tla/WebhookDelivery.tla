--------------------------- MODULE WebhookDelivery ---------------------------
(***************************************************************************)
(* The webhook dispatcher (internal/core/worker/webhook_dispatcher.go) with *)
(* the endpoints and the delivery log of one tenant                         *)
(* (internal/core/usecase/webhook, repository/postgres/webhook_repository). *)
(*                                                                         *)
(* A dispatch is one call of dispatchEvent; an event that the outbox worker *)
(* publishes again is another dispatch.  A dispatch starts one goroutine    *)
(* for every endpoint that is active when it lists them, and the goroutine  *)
(* keeps its copy of the endpoint while it posts, logs and retries.         *)
(***************************************************************************)
EXTENDS Naturals, Sequences, FiniteSets

CONSTANTS
  Dispatches,   \* calls of dispatchEvent
  Endpoints,    \* webhook endpoint ids
  MaxAttempts,  \* webhookMaxAttempts
  MaxFaults,    \* bound: database errors in a behaviour
  MaxStops      \* bound: shutdowns and crashes in a behaviour

ASSUME AttemptsAssumption == MaxAttempts \in Nat \ {0}
ASSUME BoundsAssumption == MaxFaults \in Nat /\ MaxStops \in Nat

VARIABLES
  endpoint,    \* endpoint[p]: "unborn", "active", "inactive" or "deleted"
  dispatched,  \* dispatches made so far
  proc,        \* the process: "running", "cancelled" (ctx done) or "down"
  gpc,         \* gpc[g]: control of goroutine g = <<dispatch, endpoint>>
  posts,       \* posts[g]: outcome of every HTTP POST of g, TRUE for 2xx
  log,         \* webhook_deliveries
  faults,      \* database errors so far
  stops        \* shutdowns and crashes so far

vars == <<endpoint, dispatched, proc, gpc, posts, log, faults, stops>>

Goroutines == Dispatches \X Endpoints

Delivery == [g : Goroutines, attempt : Nat, ok : BOOLEAN]

Live == {"post", "log", "wait"}

-----------------------------------------------------------------------------
Init ==
  /\ endpoint = [p \in Endpoints |-> "unborn"]
  /\ dispatched = {}
  /\ proc = "running"
  /\ gpc = [g \in Goroutines |-> "none"]
  /\ posts = [g \in Goroutines |-> <<>>]
  /\ log = {}
  /\ faults = 0
  /\ stops = 0

(* The webhook usecase.                                                    *)
RegisterEndpoint(p) ==
  /\ endpoint[p] = "unborn"
  /\ endpoint' = [endpoint EXCEPT ![p] = "active"]
  /\ UNCHANGED <<dispatched, proc, gpc, posts, log, faults, stops>>

\* DisableEndpoint and EnableEndpoint; an unknown id is an error.
SetEndpointActive(p, active) ==
  /\ endpoint[p] \in {"active", "inactive"}
  /\ endpoint' = [endpoint EXCEPT ![p] = IF active THEN "active" ELSE "inactive"]
  /\ UNCHANGED <<dispatched, proc, gpc, posts, log, faults, stops>>

\* The deliveries go with the endpoint (ON DELETE CASCADE).
DeleteEndpoint(p) ==
  /\ endpoint[p] \in {"active", "inactive"}
  /\ endpoint' = [endpoint EXCEPT ![p] = "deleted"]
  /\ log' = {row \in log : row.g[2] # p}
  /\ UNCHANGED <<dispatched, proc, gpc, posts, faults, stops>>

ActiveEndpoints == {p \in Endpoints : endpoint[p] = "active"}

\* dispatchEvent: the bus hands over an event.  When the endpoints cannot be
\* listed (an error, or a context that is done) it returns, and the event
\* counts as handled.
DispatchEvent(d) ==
  /\ proc # "down"
  /\ d \notin dispatched
  /\ dispatched' = dispatched \cup {d}
  /\ \/ /\ proc = "running"
        /\ gpc' = [g \in Goroutines |->
             IF g[1] = d /\ g[2] \in ActiveEndpoints THEN "post" ELSE gpc[g]]
        /\ UNCHANGED faults
     \/ /\ proc = "cancelled"
        /\ UNCHANGED <<gpc, faults>>
     \/ /\ proc = "running" /\ faults < MaxFaults
        /\ faults' = faults + 1
        /\ UNCHANGED gpc
  /\ UNCHANGED <<endpoint, proc, posts, log, stops>>

(* deliverWithRetry.                                                       *)

\* The POST has a timeout of its own and no context: a shutdown does not stop
\* it, and nobody asks whether the endpoint is still active.
Post(g) ==
  /\ gpc[g] = "post"
  /\ \E ok \in BOOLEAN : posts' = [posts EXCEPT ![g] = Append(@, ok)]
  /\ gpc' = [gpc EXCEPT ![g] = "log"]
  /\ UNCHANGED <<endpoint, dispatched, proc, log, faults, stops>>

Attempt(g) == Len(posts[g])

LastOk(g) == posts[g] # <<>> /\ posts[g][Len(posts[g])]

\* Mutant: the return on success is missing.
AfterAttemptNoReturn(g) == IF Attempt(g) = MaxAttempts THEN "done" ELSE "wait"

\* Control after an attempt: return on success, or leave the loop.
AfterAttempt(g) ==
  IF LastOk(g) \/ Attempt(g) = MaxAttempts THEN "done" ELSE "wait"

\* Mutant: only successful attempts are logged.
LogAttemptSuccessOnly(g) ==
  /\ gpc[g] = "log"
  /\ log' = IF LastOk(g) /\ endpoint[g[2]] # "deleted" /\ proc = "running"
              THEN log \cup {[g |-> g, attempt |-> Attempt(g), ok |-> TRUE]}
              ELSE log
  /\ gpc' = [gpc EXCEPT ![g] = AfterAttempt(g)]
  /\ UNCHANGED <<endpoint, dispatched, proc, posts, faults, stops>>

\* CreateDelivery: refused by the foreign key once the endpoint is deleted,
\* and by the context once it is done.  The error is only logged.
LogAttempt(g) ==
  /\ gpc[g] = "log"
  /\ \/ /\ endpoint[g[2]] # "deleted" /\ proc = "running"
        /\ log' = log \cup {[g |-> g, attempt |-> Attempt(g), ok |-> LastOk(g)]}
        /\ UNCHANGED faults
     \/ /\ endpoint[g[2]] = "deleted" \/ proc = "cancelled"
        /\ UNCHANGED <<log, faults>>
     \/ /\ faults < MaxFaults
        /\ faults' = faults + 1
        /\ UNCHANGED log
  /\ gpc' = [gpc EXCEPT ![g] = AfterAttempt(g)]
  /\ UNCHANGED <<endpoint, dispatched, proc, posts, stops>>

\* Mutant: the timer is never read, only the context ends the wait.
WaitForContext(g) ==
  /\ gpc[g] = "wait"
  /\ proc = "cancelled" /\ gpc' = [gpc EXCEPT ![g] = "done"]
  /\ UNCHANGED <<endpoint, dispatched, proc, posts, log, faults, stops>>

\* The back-off before the next attempt ends, or the context does; when both
\* are ready select takes either.
Wait(g) ==
  /\ gpc[g] = "wait"
  /\ \/ gpc' = [gpc EXCEPT ![g] = "post"]
     \/ proc = "cancelled" /\ gpc' = [gpc EXCEPT ![g] = "done"]
  /\ UNCHANGED <<endpoint, dispatched, proc, posts, log, faults, stops>>

DeliverStep(g) == Post(g) \/ LogAttempt(g) \/ Wait(g)

(* The process.                                                            *)

\* Graceful shutdown: the worker context, which the goroutines share, is done.
Cancel ==
  /\ proc = "running"
  /\ stops < MaxStops
  /\ stops' = stops + 1
  /\ proc' = "cancelled"
  /\ UNCHANGED <<endpoint, dispatched, gpc, posts, log, faults>>

\* The process ends, after a shutdown or at once: nobody waits for the
\* goroutines and nothing remembers them.
Exit ==
  /\ proc = "cancelled" \/ (proc = "running" /\ stops < MaxStops)
  /\ stops' = IF proc = "running" THEN stops + 1 ELSE stops
  /\ proc' = "down"
  /\ gpc' = [g \in Goroutines |-> IF gpc[g] \in Live THEN "lost" ELSE gpc[g]]
  /\ UNCHANGED <<endpoint, dispatched, posts, log, faults>>

Restart ==
  /\ proc = "down"
  /\ proc' = "running"
  /\ UNCHANGED <<endpoint, dispatched, gpc, posts, log, faults, stops>>

Next ==
  \/ \E p \in Endpoints :
       \/ RegisterEndpoint(p)
       \/ \E active \in BOOLEAN : SetEndpointActive(p, active)
       \/ DeleteEndpoint(p)
  \/ \E d \in Dispatches : DispatchEvent(d)
  \/ \E g \in Goroutines : DeliverStep(g)
  \/ Cancel
  \/ Exit
  \/ Restart

\* Goroutines run, timers fire, POSTs end within their timeout, and a process
\* that was told to stop does.
Fairness ==
  /\ \A g \in Goroutines : WF_vars(DeliverStep(g))
  /\ WF_vars(proc = "cancelled" /\ Exit)

Spec == Init /\ [][Next]_vars

FairSpec == Spec /\ Fairness

-----------------------------------------------------------------------------
(* Properties.                                                             *)

\* Every variable has its type.
TypeOK ==
  /\ endpoint \in [Endpoints -> {"unborn", "active", "inactive", "deleted"}]
  /\ dispatched \subseteq Dispatches
  /\ proc \in {"running", "cancelled", "down"}
  /\ gpc \in [Goroutines -> Live \cup {"none", "done", "lost"}]
  /\ posts \in [Goroutines -> Seq(BOOLEAN)]
  /\ log \subseteq Delivery
  /\ faults \in 0..MaxFaults
  /\ stops \in 0..MaxStops

\* One dispatch posts to an endpoint at most MaxAttempts times and never again
\* after the endpoint has acknowledged, whatever happens to the endpoint, the
\* log or the process in between (deliverWithRetry).
NoPostAfterSuccess ==
  \A g \in Goroutines :
    /\ Len(posts[g]) <= MaxAttempts
    /\ \A i \in DOMAIN posts[g] : i < Len(posts[g]) => ~ posts[g][i]

\* A delivery row states what happened: the attempt it counts was made and had
\* that outcome, and the endpoint it belongs to still exists.
LogIsTrue ==
  \A row \in log :
    /\ row.attempt \in DOMAIN posts[row.g]
    /\ posts[row.g][row.attempt] = row.ok
    /\ endpoint[row.g[2]] \in {"active", "inactive"}

\* A dispatch gives an endpoint up only when its attempts are used up, unless
\* the process was told to stop.
ExhaustedOrStopped ==
  \A g \in Goroutines :
    gpc[g] = "done" /\ ~ LastOk(g) => Attempt(g) = MaxAttempts \/ stops > 0

\* The outcome of attempt i of g is in the log.
Logged(g, i) == \E row \in log : row.g = g /\ row.attempt = i

\* The attempts of g that are over: CreateDelivery has returned for them.
Over(g) == IF gpc[g] \in {"log", "lost"} THEN Attempt(g) - 1 ELSE Attempt(g)

\* An attempt is missing from the log only because its endpoint was deleted,
\* because the database refused the row, or because of a shutdown.
UnloggedOnlyIf ==
  \A g \in Goroutines : \A i \in 1..Over(g) :
    Logged(g, i) \/ endpoint[g[2]] = "deleted" \/ faults > 0 \/ stops > 0

\* deliverWithRetry posts until the first success and no longer, and gives up
\* neither early nor late.
RetriesUntilAnswered == NoPostAfterSuccess /\ ExhaustedOrStopped

\* The delivery log is the history of the attempts: no row is untrue, and none
\* is missing for another reason than the three named.
LogIsFaithful == LogIsTrue /\ UnloggedOnlyIf

\* Every dispatch to an endpoint ends: with an answer, out of attempts, or with
\* the process.
DispatchEnds ==
  \A g \in Goroutines : gpc[g] \in Live ~> gpc[g] \in {"done", "lost"}
=============================================================================
