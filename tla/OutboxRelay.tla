----------------------------- MODULE OutboxRelay -----------------------------
(***************************************************************************)
(* The outbox worker of every application process                          *)
(* (internal/core/worker/outbox_worker.go), the outbox repository it polls, *)
(* the in-memory event bus (pkg/eventbus) and the start of an application   *)
(* (pkg/app/app.go), up to the moment an event reaches the subscribers.     *)
(*                                                                         *)
(* FetchPending runs on the pool, not in a transaction: the row locks of    *)
(* FOR UPDATE SKIP LOCKED end with the statement, so nothing keeps two      *)
(* processes from holding the same event.  Statements are atomic.           *)
(***************************************************************************)
EXTENDS Naturals, FiniteSets

CONSTANTS
  Events,      \* event ids, ordered as created_at orders them
  Workers,     \* application processes, one outbox worker each
  Handlers,    \* handlers of the modules, bound by BindSubscriptions
  Webhook,     \* the handler of the webhook dispatcher, subscribed to "*"
  Match,       \* pairs <<e, h>>: the pattern h subscribed to covers e
  MaxRetries,  \* Config.MaxRetries
  BatchSize,   \* Config.BatchSize
  MaxFaults,   \* bound: crashes and database errors in a behaviour
  None         \* no current event

ASSUME EventsAreOrdered == Events \subseteq Nat
ASSUME HandlersAssumption == Webhook \notin Handlers /\ Match \subseteq Events \X Handlers
ASSUME ConfigAssumption == MaxRetries \in Nat \ {0} /\ BatchSize \in Nat \ {0}
ASSUME FaultsAssumption == MaxFaults \in Nat
ASSUME NoneAssumption == None \notin Events
ASSUME WorkersFinite == IsFiniteSet(Workers)

VARIABLES
  st,        \* st[e]: status of the outbox row, "none" before its commit
  retry,     \* retry[e]: retry_count
  wpc,       \* wpc[w]: "down", "idle", "next" or "handling"
  subs,      \* subs[w]: handlers subscribed to the bus of process w
  batch,     \* batch[w]: events fetched and not yet marked
  cur,       \* cur[w]: event being published
  todo,      \* todo[w]: targets of the Publish in progress not yet run
  bad,       \* bad[w]: a target of the Publish in progress has failed
  handled,   \* history variable: pairs <<e, h>>, h returned nil on e
  faults     \* crashes and database errors so far

rows == <<st, retry>>
worker == <<wpc, subs, batch, cur, todo, bad>>
vars == <<st, retry, wpc, subs, batch, cur, todo, bad, handled, faults>>

AllHandlers == Handlers \cup {Webhook}

\* Module handlers whose subscription covers e.
Matching(e) == {h \in Handlers : <<e, h>> \in Match}

-----------------------------------------------------------------------------
Init ==
  /\ st = [e \in Events |-> "none"]
  /\ retry = [e \in Events |-> 0]
  /\ wpc = [w \in Workers |-> "down"]
  /\ subs = [w \in Workers |-> {}]
  /\ batch = [w \in Workers |-> {}]
  /\ cur = [w \in Workers |-> None]
  /\ todo = [w \in Workers |-> {}]
  /\ bad = [w \in Workers |-> FALSE]
  /\ handled = {}
  /\ faults = 0

\* A usecase commits a transaction that holds the event (outboxRepo.Create).
\* created_at was read before the transaction: commits come in any order.
CommitEvent(e) ==
  /\ st[e] = "none"
  /\ st' = [st EXCEPT ![e] = "pending"]
  /\ UNCHANGED <<retry, worker, handled, faults>>

(* Start of a process: New has bound the module handlers to the bus, Start   *)
(* launches the worker first and subscribes the webhook dispatcher after.   *)
StartWorker(w) ==
  /\ wpc[w] = "down"
  /\ wpc' = [wpc EXCEPT ![w] = "idle"]
  /\ subs' = [subs EXCEPT ![w] = Handlers]
  /\ UNCHANGED <<rows, batch, cur, todo, bad, handled, faults>>

SubscribeWebhook(w) ==
  /\ wpc[w] # "down"
  /\ Webhook \notin subs[w]
  /\ subs' = [subs EXCEPT ![w] = @ \cup {Webhook}]
  /\ UNCHANGED <<rows, wpc, batch, cur, todo, bad, handled, faults>>

\* Mutant: retry_count <= max.
PendingOffByOne(e) == st[e] \in {"pending", "failed"} /\ retry[e] <= MaxRetries

\* Mutant: the status is not looked at.
PendingAnyStatus(e) == st[e] # "none" /\ retry[e] < MaxRetries

\* status IN ('pending', 'failed') AND retry_count < max
Pending(e) == st[e] \in {"pending", "failed"} /\ retry[e] < MaxRetries

PendingEvents == {e \in Events : Pending(e)}

\* ORDER BY created_at LIMIT BatchSize
FirstBatch == {e \in PendingEvents :
                 Cardinality({d \in PendingEvents : d < e}) < BatchSize}

\* Mutant: the fetch claims its rows with a status no query selects.
FetchPendingClaims(w) ==
  /\ wpc[w] = "idle"
  /\ PendingEvents # {}
  /\ batch' = [batch EXCEPT ![w] = FirstBatch]
  /\ st' = [e \in Events |-> IF e \in FirstBatch THEN "processing" ELSE st[e]]
  /\ wpc' = [wpc EXCEPT ![w] = "next"]
  /\ UNCHANGED <<retry, subs, cur, todo, bad, handled, faults>>

\* One poll, on a tick or a trigger.
FetchPending(w) ==
  /\ wpc[w] = "idle"
  /\ PendingEvents # {}
  /\ batch' = [batch EXCEPT ![w] = FirstBatch]
  /\ wpc' = [wpc EXCEPT ![w] = "next"]
  /\ UNCHANGED <<rows, subs, cur, todo, bad, handled, faults>>

\* Subscriptions of the process that cover e.
Targets(w, e) == {h \in subs[w] : h = Webhook \/ <<e, h>> \in Match}

\* bus.Publish copies the targets of the next event under its read lock.
Publish(w) ==
  /\ wpc[w] = "next"
  /\ \E e \in batch[w] :
       /\ \A d \in batch[w] : e <= d
       /\ cur' = [cur EXCEPT ![w] = e]
       /\ todo' = [todo EXCEPT ![w] = Targets(w, e)]
  /\ bad' = [bad EXCEPT ![w] = FALSE]
  /\ wpc' = [wpc EXCEPT ![w] = "handling"]
  /\ UNCHANGED <<rows, subs, batch, handled, faults>>

\* executeHandlerSafely: the handler returns nil, or it returns an error or
\* panics; the others run all the same.  Patterns are visited in map order.
RunHandler(w) ==
  /\ wpc[w] = "handling"
  /\ \E h \in todo[w] \cap Handlers :
       /\ todo' = [todo EXCEPT ![w] = @ \ {h}]
       /\ \/ handled' = handled \cup {<<cur[w], h>>} /\ UNCHANGED bad
          \/ bad' = [bad EXCEPT ![w] = TRUE] /\ UNCHANGED handled
  /\ UNCHANGED <<rows, wpc, subs, batch, cur, faults>>

\* The webhook handler returns nil whatever dispatchEvent meets: when the
\* endpoints cannot be listed the event is dispatched to nobody.
RunWebhook(w) ==
  /\ wpc[w] = "handling"
  /\ Webhook \in todo[w]
  /\ todo' = [todo EXCEPT ![w] = @ \ {Webhook}]
  /\ \/ handled' = handled \cup {<<cur[w], Webhook>>} /\ UNCHANGED faults
     \/ faults < MaxFaults /\ faults' = faults + 1 /\ UNCHANGED handled
  /\ UNCHANGED <<rows, wpc, subs, batch, cur, bad>>

\* The loop of ProcessBatch goes on with the rest of the batch.
EndOfEvent(w) ==
  /\ batch' = [batch EXCEPT ![w] = @ \ {cur[w]}]
  /\ cur' = [cur EXCEPT ![w] = None]
  /\ wpc' = [wpc EXCEPT ![w] = IF batch[w] = {cur[w]} THEN "idle" ELSE "next"]
  /\ UNCHANGED <<subs, todo, bad, handled>>

\* Mutant: the error of bus.Publish is dropped.
MarkPublishedAlways(w) ==
  /\ wpc[w] = "handling" /\ todo[w] = {}
  /\ st' = [st EXCEPT ![cur[w]] = "published"] /\ UNCHANGED <<retry, faults>>
  /\ EndOfEvent(w)

\* Mutant: the event is marked while its handlers are still running.
MarkPublishedEarly(w) ==
  /\ wpc[w] = "handling" /\ ~ bad[w]
  /\ st' = [st EXCEPT ![cur[w]] = "published"] /\ UNCHANGED <<retry, faults>>
  /\ EndOfEvent(w)

\* An UPDATE by id alone: whatever the row has become since the fetch.  The
\* error of the UPDATE is dropped or logged.
MarkPublished(w) ==
  /\ wpc[w] = "handling" /\ todo[w] = {} /\ ~ bad[w]
  /\ \/ st' = [st EXCEPT ![cur[w]] = "published"] /\ UNCHANGED <<retry, faults>>
     \/ faults < MaxFaults /\ faults' = faults + 1 /\ UNCHANGED rows
  /\ EndOfEvent(w)

\* Mutant: retry_count is not incremented.
MarkFailedNoCount(w) ==
  /\ wpc[w] = "handling" /\ todo[w] = {} /\ bad[w]
  /\ st' = [st EXCEPT ![cur[w]] = "failed"]
  /\ UNCHANGED <<retry, faults>>
  /\ EndOfEvent(w)

MarkFailed(w) ==
  /\ wpc[w] = "handling" /\ todo[w] = {} /\ bad[w]
  /\ \/ /\ st' = [st EXCEPT ![cur[w]] = "failed"]
        /\ retry' = [retry EXCEPT ![cur[w]] = @ + 1]
        /\ UNCHANGED faults
     \/ faults < MaxFaults /\ faults' = faults + 1 /\ UNCHANGED rows
  /\ EndOfEvent(w)

\* The process stops, at any point: its bus, its batch and its progress go.
Crash(w) ==
  /\ wpc[w] # "down"
  /\ faults < MaxFaults
  /\ faults' = faults + 1
  /\ wpc' = [wpc EXCEPT ![w] = "down"]
  /\ subs' = [subs EXCEPT ![w] = {}]
  /\ batch' = [batch EXCEPT ![w] = {}]
  /\ cur' = [cur EXCEPT ![w] = None]
  /\ todo' = [todo EXCEPT ![w] = {}]
  /\ bad' = [bad EXCEPT ![w] = FALSE]
  /\ UNCHANGED <<rows, handled>>

WorkerStep(w) ==
  \/ StartWorker(w)
  \/ FetchPending(w)
  \/ Publish(w)
  \/ RunHandler(w)
  \/ RunWebhook(w)
  \/ MarkPublished(w)
  \/ MarkFailed(w)

\* Nothing left to do until a usecase writes another event.
Quiet ==
  /\ \A w \in Workers : wpc[w] = "idle"
  /\ PendingEvents = {}
  /\ UNCHANGED vars

Next ==
  \/ \E e \in Events : CommitEvent(e)
  \/ \E w \in Workers : WorkerStep(w) \/ SubscribeWebhook(w) \/ Crash(w)
  \/ Quiet

\* The ticker wakes an idle worker for ever, a running goroutine makes
\* progress, and a process that stopped is started again.
Fairness ==
  \A w \in Workers : WF_vars(WorkerStep(w)) /\ WF_vars(SubscribeWebhook(w))

Spec == Init /\ [][Next]_vars

FairSpec == Spec /\ Fairness

-----------------------------------------------------------------------------
(* Properties.                                                             *)

\* Every variable has its type.
TypeOK ==
  /\ st \in [Events -> {"none", "pending", "published", "failed"}]
  /\ retry \in [Events -> Nat]
  /\ wpc \in [Workers -> {"down", "idle", "next", "handling"}]
  /\ subs \in [Workers -> SUBSET AllHandlers]
  /\ batch \in [Workers -> SUBSET Events]
  /\ cur \in [Workers -> Events \cup {None}]
  /\ todo \in [Workers -> SUBSET AllHandlers]
  /\ bad \in [Workers -> BOOLEAN]
  /\ handled \subseteq Events \X AllHandlers
  /\ faults \in 0..MaxFaults

\* An event marked published has been accepted by every module handler whose
\* subscription covers it, in spite of crashes, rival workers and lost UPDATEs
\* (ProcessBatch marks an event only after bus.Publish returned nil).
PublishedWasHandled ==
  \A e \in Events : st[e] = "published" => \A h \in Matching(e) : <<e, h>> \in handled

\* retry_count passes MaxRetries by less than one per rival process: a worker
\* may still fail an event that others have used up, but only one it fetched
\* before (FetchPending filters, MarkFailed does not).
RetryBound ==
  \A e \in Events : retry[e] <= MaxRetries + Cardinality(Workers) - 1

\* A published event that no worker holds any more is never fetched nor marked
\* again.  Only a rival that fetched it before it was published may still mark
\* it failed.
PublishedIsFinal ==
  [][\A e \in Events :
       st[e] = "published" /\ (\A w \in Workers : e \notin batch[w])
         => st'[e] = "published" /\ \A w \in Workers : e \notin batch'[w]]_vars

\* e is not going to be fetched any more.
Settled(e) == st[e] # "none" /\ ~ Pending(e)

\* Every committed event ends up published or out of retries, and stays so:
\* no event is forgotten in between and no two workers undo each other's marks
\* for ever.
EventuallySettled ==
  \A e \in Events : <>(st[e] # "none") => <>[]Settled(e)

\* What the row of an event says to a subscriber: retries do not show.
DeliveryState ==
  [e \in Events |-> CASE st[e] = "none" -> "none"
                      [] st[e] = "published" -> "closed"
                      [] OTHER -> "open"]

Delivery == INSTANCE EventDelivery WITH
  state <- DeliveryState, accepted <- handled \cap Match

\* The workers implement at-least-once delivery to the module handlers.
ImplementsDelivery == Delivery!Spec
=============================================================================
