-------------------------- MODULE OutboxRelayProofs --------------------------
(***************************************************************************)
(* TLAPS proofs about OutboxRelay, for every set of events, processes and   *)
(* handlers and every configuration of the worker.                          *)
(*                                                                         *)
(* PublishedWasHandled is not inductive: MarkPublished relies on what the   *)
(* Publish in progress has done so far, and that relies on the bus of a     *)
(* running process holding every module handler.  IInv adds those facts.    *)
(***************************************************************************)
EXTENDS OutboxRelay, FiniteSetTheorems, TLAPS

\* The bus of a running process holds the handlers of every module.
BusReady == \A w \in Workers : wpc[w] # "down" => Handlers \subseteq subs[w]

\* A worker holds committed events only.
BatchCommitted == \A w \in Workers : \A e \in batch[w] : st[e] # "none"

\* The event being published belongs to the batch.
CurrentInBatch == \A w \in Workers : wpc[w] = "handling" => cur[w] \in batch[w]

\* While no target has failed, a matching handler has run or is to run.
ProgressSound ==
  \A w \in Workers :
    wpc[w] = "handling" /\ ~ bad[w] =>
      \A h \in Matching(cur[w]) : h \in todo[w] \/ <<cur[w], h>> \in handled

\* The inductive invariant.
IInv ==
  /\ TypeOK
  /\ BusReady
  /\ BatchCommitted
  /\ CurrentInBatch
  /\ ProgressSound
  /\ PublishedWasHandled

-----------------------------------------------------------------------------

\* The initial states satisfy the inductive invariant.
LEMMA InitIInv == Init => IInv
BY FaultsAssumption
DEF Init, IInv, TypeOK, BusReady, BatchCommitted, CurrentInBatch, ProgressSound,
    PublishedWasHandled, AllHandlers

\* What a poll fetches are committed events.
LEMMA FirstBatchCommitted ==
  ASSUME TypeOK
  PROVE  /\ FirstBatch \subseteq Events
         /\ \A e \in FirstBatch : st[e] # "none"
BY DEF TypeOK, FirstBatch, PendingEvents, Pending

\* Marking an event and going on keeps the invariant, as long as a mark
\* "published" is backed by the handlers.
LEMMA MarkKeepsIInv ==
  ASSUME IInv, NEW w \in Workers, EndOfEvent(w), wpc[w] = "handling",
         NEW s \in {"published", "failed"},
         st' = [st EXCEPT ![cur[w]] = s] \/ st' = st,
         retry' = [retry EXCEPT ![cur[w]] = @ + 1] \/ retry' = retry,
         faults' \in 0..MaxFaults,
         s = "published" => \A h \in Matching(cur[w]) : <<cur[w], h>> \in handled
  PROVE  IInv'
<1>1. cur[w] \in Events /\ cur[w] \in batch[w] /\ st[cur[w]] # "none"
  BY DEF IInv, TypeOK, CurrentInBatch, BatchCommitted
<1>2. TypeOK'
  BY <1>1 DEF IInv, TypeOK, EndOfEvent
<1>3. BusReady'
  BY DEF IInv, TypeOK, BusReady, EndOfEvent
<1>4. BatchCommitted'
  BY <1>1 DEF IInv, TypeOK, BatchCommitted, EndOfEvent
<1>5. CurrentInBatch'
  BY DEF IInv, TypeOK, CurrentInBatch, EndOfEvent
<1>6. ProgressSound'
  BY DEF IInv, TypeOK, ProgressSound, Matching, EndOfEvent
<1>7. PublishedWasHandled'
  BY <1>1 DEF IInv, TypeOK, PublishedWasHandled, Matching, EndOfEvent
<1> QED BY <1>2, <1>3, <1>4, <1>5, <1>6, <1>7 DEF IInv

\* Every step of the relay preserves the inductive invariant.
LEMMA NextIInv == IInv /\ [Next]_vars => IInv'
<1> SUFFICES ASSUME IInv, [Next]_vars PROVE IInv'
  OBVIOUS
<1> USE DEF IInv
<1>1. ASSUME NEW e \in Events, CommitEvent(e) PROVE IInv'
  <2>1. TypeOK' BY <1>1 DEF TypeOK, CommitEvent, rows, worker
  <2>2. BusReady' BY <1>1 DEF BusReady, CommitEvent, worker
  <2>3. BatchCommitted' BY <1>1 DEF TypeOK, BatchCommitted, CommitEvent, worker
  <2>4. CurrentInBatch' BY <1>1 DEF CurrentInBatch, CommitEvent, worker
  <2>5. ProgressSound' BY <1>1 DEF ProgressSound, Matching, CommitEvent, worker
  <2>6. PublishedWasHandled'
    BY <1>1 DEF TypeOK, PublishedWasHandled, Matching, CommitEvent
  <2> QED BY <2>1, <2>2, <2>3, <2>4, <2>5, <2>6
<1>2. ASSUME NEW w \in Workers, StartWorker(w) PROVE IInv'
  <2>1. TypeOK' BY <1>2 DEF TypeOK, StartWorker, rows, AllHandlers
  <2>2. BusReady' BY <1>2 DEF TypeOK, BusReady, StartWorker
  <2>3. BatchCommitted' BY <1>2 DEF BatchCommitted, StartWorker, rows
  <2>4. CurrentInBatch' BY <1>2 DEF TypeOK, CurrentInBatch, StartWorker
  <2>5. ProgressSound' BY <1>2 DEF TypeOK, ProgressSound, Matching, StartWorker
  <2>6. PublishedWasHandled'
    BY <1>2 DEF PublishedWasHandled, Matching, StartWorker, rows
  <2> QED BY <2>1, <2>2, <2>3, <2>4, <2>5, <2>6
<1>3. ASSUME NEW w \in Workers, SubscribeWebhook(w) PROVE IInv'
  <2>1. TypeOK' BY <1>3 DEF TypeOK, SubscribeWebhook, rows, AllHandlers
  <2>2. BusReady' BY <1>3 DEF TypeOK, BusReady, SubscribeWebhook
  <2>3. BatchCommitted' BY <1>3 DEF BatchCommitted, SubscribeWebhook, rows
  <2>4. CurrentInBatch' BY <1>3 DEF CurrentInBatch, SubscribeWebhook
  <2>5. ProgressSound' BY <1>3 DEF ProgressSound, Matching, SubscribeWebhook
  <2>6. PublishedWasHandled'
    BY <1>3 DEF PublishedWasHandled, Matching, SubscribeWebhook, rows
  <2> QED BY <2>1, <2>2, <2>3, <2>4, <2>5, <2>6
<1>4. ASSUME NEW w \in Workers, FetchPending(w) PROVE IInv'
  <2>1. TypeOK' BY <1>4, FirstBatchCommitted DEF TypeOK, FetchPending, rows
  <2>2. BusReady' BY <1>4 DEF TypeOK, BusReady, FetchPending
  <2>3. BatchCommitted'
    BY <1>4, FirstBatchCommitted DEF TypeOK, BatchCommitted, FetchPending, rows
  <2>4. CurrentInBatch' BY <1>4 DEF TypeOK, CurrentInBatch, FetchPending
  <2>5. ProgressSound' BY <1>4 DEF TypeOK, ProgressSound, Matching, FetchPending
  <2>6. PublishedWasHandled'
    BY <1>4 DEF PublishedWasHandled, Matching, FetchPending, rows
  <2> QED BY <2>1, <2>2, <2>3, <2>4, <2>5, <2>6
<1>5. ASSUME NEW w \in Workers, Publish(w) PROVE IInv'
  <2>0. PICK e \in batch[w] : /\ cur' = [cur EXCEPT ![w] = e]
                              /\ todo' = [todo EXCEPT ![w] = Targets(w, e)]
    BY <1>5 DEF Publish
  <2>e. e \in Events BY DEF TypeOK
  <2>1. TypeOK' BY <1>5, <2>0, <2>e DEF TypeOK, Publish, rows, Targets, AllHandlers
  <2>2. BusReady' BY <1>5 DEF TypeOK, BusReady, Publish
  <2>3. BatchCommitted' BY <1>5 DEF BatchCommitted, Publish, rows
  <2>4. CurrentInBatch' BY <1>5, <2>0 DEF TypeOK, CurrentInBatch, Publish
  <2>5. ProgressSound'
    <3>1. Matching(e) \subseteq Targets(w, e)
      BY <1>5 DEF Matching, Targets, BusReady, Publish
    <3> QED BY <1>5, <2>0, <3>1 DEF TypeOK, ProgressSound, Matching, Publish
  <2>6. PublishedWasHandled'
    BY <1>5 DEF PublishedWasHandled, Matching, Publish, rows
  <2> QED BY <2>1, <2>2, <2>3, <2>4, <2>5, <2>6
<1>6. ASSUME NEW w \in Workers, RunHandler(w) PROVE IInv'
  <2>0. PICK h \in todo[w] \cap Handlers :
          /\ todo' = [todo EXCEPT ![w] = @ \ {h}]
          /\ \/ handled' = handled \cup {<<cur[w], h>>} /\ UNCHANGED bad
             \/ bad' = [bad EXCEPT ![w] = TRUE] /\ UNCHANGED handled
    BY <1>6 DEF RunHandler
  <2>c. cur[w] \in Events BY <1>6 DEF RunHandler, TypeOK, CurrentInBatch
  <2>b. bad' \in [Workers -> BOOLEAN] BY <2>0 DEF TypeOK
  <2>h. handled' \subseteq Events \X AllHandlers
    BY <2>0, <2>c DEF TypeOK, AllHandlers
  <2>t. todo' \in [Workers -> SUBSET AllHandlers] BY <2>0 DEF TypeOK
  <2>1. TypeOK' BY <1>6, <2>b, <2>h, <2>t DEF TypeOK, RunHandler, rows
  <2>2. BusReady' BY <1>6 DEF BusReady, RunHandler
  <2>3. BatchCommitted' BY <1>6 DEF BatchCommitted, RunHandler, rows
  <2>4. CurrentInBatch' BY <1>6 DEF CurrentInBatch, RunHandler
  <2>5. ProgressSound'
    BY <1>6, <2>0 DEF TypeOK, ProgressSound, Matching, RunHandler
  <2>6. PublishedWasHandled'
    BY <1>6, <2>0 DEF PublishedWasHandled, Matching, RunHandler, rows
  <2> QED BY <2>1, <2>2, <2>3, <2>4, <2>5, <2>6
<1>7. ASSUME NEW w \in Workers, RunWebhook(w) PROVE IInv'
  <2>c. cur[w] \in Events BY <1>7 DEF RunWebhook, TypeOK, CurrentInBatch
  <2>1. TypeOK'
    BY <1>7, <2>c, FaultsAssumption DEF TypeOK, RunWebhook, rows, AllHandlers
  <2>2. BusReady' BY <1>7 DEF BusReady, RunWebhook
  <2>3. BatchCommitted' BY <1>7 DEF BatchCommitted, RunWebhook, rows
  <2>4. CurrentInBatch' BY <1>7 DEF CurrentInBatch, RunWebhook
  <2>5. ProgressSound'
    BY <1>7, HandlersAssumption DEF TypeOK, ProgressSound, Matching, RunWebhook
  <2>6. PublishedWasHandled'
    BY <1>7 DEF PublishedWasHandled, Matching, RunWebhook, rows
  <2> QED BY <2>1, <2>2, <2>3, <2>4, <2>5, <2>6
<1>8. ASSUME NEW w \in Workers, MarkPublished(w) PROVE IInv'
  <2>1. \A h \in Matching(cur[w]) : <<cur[w], h>> \in handled
    BY <1>8 DEF MarkPublished, ProgressSound
  <2>2. faults' \in 0..MaxFaults
    BY <1>8, FaultsAssumption DEF MarkPublished, TypeOK
  <2> QED BY <1>8, <2>1, <2>2, MarkKeepsIInv DEF MarkPublished, rows
<1>9. ASSUME NEW w \in Workers, MarkFailed(w) PROVE IInv'
  <2>1. faults' \in 0..MaxFaults
    BY <1>9, FaultsAssumption DEF MarkFailed, TypeOK
  <2> QED BY <1>9, <2>1, MarkKeepsIInv DEF MarkFailed, rows
<1>10. ASSUME NEW w \in Workers, Crash(w) PROVE IInv'
  <2>1. TypeOK' BY <1>10, FaultsAssumption DEF TypeOK, Crash, rows, AllHandlers
  <2>2. BusReady' BY <1>10 DEF TypeOK, BusReady, Crash
  <2>3. BatchCommitted' BY <1>10 DEF TypeOK, BatchCommitted, Crash, rows
  <2>4. CurrentInBatch' BY <1>10 DEF TypeOK, CurrentInBatch, Crash
  <2>5. ProgressSound' BY <1>10 DEF TypeOK, ProgressSound, Matching, Crash
  <2>6. PublishedWasHandled'
    BY <1>10 DEF PublishedWasHandled, Matching, Crash, rows
  <2> QED BY <2>1, <2>2, <2>3, <2>4, <2>5, <2>6
<1>11. CASE UNCHANGED vars
  BY <1>11 DEF vars, TypeOK, BusReady, BatchCommitted, CurrentInBatch, ProgressSound,
               PublishedWasHandled, Matching
<1> QED
  BY <1>1, <1>2, <1>3, <1>4, <1>5, <1>6, <1>7, <1>8, <1>9, <1>10, <1>11
  DEF Next, WorkerStep, Quiet

\* The inductive invariant holds in every reachable state.
LEMMA AlwaysIInv == Spec => []IInv
BY InitIInv, NextIInv, PTL DEF Spec

\* Every reachable state of the relay is well typed: in particular the UPDATEs
\* of MarkPublished and MarkFailed always name an event of the outbox.
THEOREM TypeCorrect == Spec => []TypeOK
<1>1. IInv => TypeOK BY DEF IInv
<1> QED BY AlwaysIInv, <1>1, PTL

\* An event is published only once every module handler that matches it has
\* accepted it, for any number of processes and any pattern of crashes.
THEOREM PublishedHandled == Spec => []PublishedWasHandled
<1>1. IInv => PublishedWasHandled BY DEF IInv
<1> QED BY AlwaysIInv, <1>1, PTL

-----------------------------------------------------------------------------
(* The refinement: one lemma for each way a step changes what Delivery sees. *)

\* The status of one row changes and nothing is accepted.
LEMMA RowStep ==
  ASSUME TypeOK, NEW e \in Events,
         NEW s \in {"none", "pending", "published", "failed"},
         st' = [st EXCEPT ![e] = s]
  PROVE  DeliveryState' = [DeliveryState EXCEPT ![e] =
           CASE s = "none" -> "none" [] s = "published" -> "closed" [] OTHER -> "open"]
BY DEF TypeOK, DeliveryState

\* A step that leaves the rows and the accepted pairs alone is a stutter.
LEMMA Stutter ==
  ASSUME st' = st, handled' = handled
  PROVE  UNCHANGED Delivery!vars
BY DEF Delivery!vars, DeliveryState

\* Every step of the relay is a step of Delivery or leaves its state alone.
LEMMA NextRefines == IInv /\ [Next]_vars => [Delivery!Next]_(Delivery!vars)
<1> SUFFICES ASSUME IInv, [Next]_vars PROVE [Delivery!Next]_(Delivery!vars)
  OBVIOUS
<1>t. TypeOK BY DEF IInv
<1>1. ASSUME NEW e \in Events, CommitEvent(e) PROVE Delivery!Next
  <2>1. DeliveryState[e] = "none" BY <1>1 DEF CommitEvent, DeliveryState
  <2>2. DeliveryState' = [DeliveryState EXCEPT ![e] = "open"]
    BY <1>1, <1>t, RowStep DEF CommitEvent
  <2>3. Delivery!Submit(e) BY <1>1, <2>1, <2>2 DEF Delivery!Submit, CommitEvent
  <2> QED BY <2>3 DEF Delivery!Next
<1>2. ASSUME NEW w \in Workers, RunHandler(w) PROVE [Delivery!Next]_(Delivery!vars)
  <2>1. PICK h \in todo[w] \cap Handlers :
          handled' = handled \cup {<<cur[w], h>>} \/ handled' = handled
    BY <1>2 DEF RunHandler
  <2>2. cur[w] \in Events /\ st[cur[w]] # "none" /\ st' = st
    BY <1>2, <1>t DEF IInv, TypeOK, CurrentInBatch, BatchCommitted, RunHandler, rows
  <2>3. DeliveryState' = DeliveryState BY <2>2 DEF DeliveryState
  <2>4. CASE handled' = handled \cup {<<cur[w], h>>} /\ <<cur[w], h>> \in Match
    <3>1. DeliveryState[cur[w]] # "none" BY <2>2, <1>t DEF DeliveryState, TypeOK
    <3>2. (handled \cap Match)' = (handled \cap Match) \cup {<<cur[w], h>>} BY <2>4
    <3>3. h \in Delivery!Matching(cur[w]) BY <2>4 DEF Delivery!Matching
    <3>4. Delivery!Accept(cur[w], h)
      BY <2>3, <3>1, <3>2, <3>3 DEF Delivery!Accept
    <3> QED BY <2>2, <3>4 DEF Delivery!Next
  <2>5. CASE handled' = handled BY <2>2, <2>5, Stutter
  <2>6. CASE handled' = handled \cup {<<cur[w], h>>} /\ <<cur[w], h>> \notin Match
    <3>1. (handled \cap Match)' = handled \cap Match BY <2>6
    <3> QED BY <2>3, <3>1 DEF Delivery!vars
  <2> QED BY <2>1, <2>4, <2>5, <2>6
<1>3. ASSUME NEW w \in Workers, RunWebhook(w) PROVE UNCHANGED Delivery!vars
  <2>1. st' = st BY <1>3 DEF RunWebhook, rows
  <2>2. (handled \cap Match)' = handled \cap Match
    BY <1>3, HandlersAssumption DEF RunWebhook
  <2> QED BY <2>1, <2>2 DEF Delivery!vars, DeliveryState
<1>4. ASSUME NEW w \in Workers, MarkPublished(w) PROVE [Delivery!Next]_(Delivery!vars)
  <2>1. cur[w] \in Events /\ st[cur[w]] # "none" /\ handled' = handled
    BY <1>4, <1>t
    DEF IInv, TypeOK, CurrentInBatch, BatchCommitted, MarkPublished, EndOfEvent
  <2>2. CASE st' = [st EXCEPT ![cur[w]] = "published"]
    <3>1. DeliveryState[cur[w]] # "none" BY <2>1, <1>t DEF DeliveryState, TypeOK
    <3>2. DeliveryState' = [DeliveryState EXCEPT ![cur[w]] = "closed"]
      BY <2>1, <2>2, <1>t, RowStep
    <3>3. \A h \in Delivery!Matching(cur[w]) : <<cur[w], h>> \in handled \cap Match
      BY <1>4 DEF IInv, ProgressSound, MarkPublished, Matching, Delivery!Matching
    <3>4. Delivery!Close(cur[w]) BY <2>1, <3>1, <3>2, <3>3 DEF Delivery!Close
    <3> QED BY <2>1, <3>4 DEF Delivery!Next
  <2>3. CASE st' = st BY <2>1, <2>3, Stutter
  <2> QED BY <1>4, <2>2, <2>3 DEF MarkPublished, rows
<1>5. ASSUME NEW w \in Workers, MarkFailed(w) PROVE [Delivery!Next]_(Delivery!vars)
  <2>1. cur[w] \in Events /\ st[cur[w]] # "none" /\ handled' = handled
    BY <1>5, <1>t
    DEF IInv, TypeOK, CurrentInBatch, BatchCommitted, MarkFailed, EndOfEvent
  <2>2. CASE st' = [st EXCEPT ![cur[w]] = "failed"]
    <3>1. DeliveryState' = [DeliveryState EXCEPT ![cur[w]] = "open"]
      BY <2>1, <2>2, <1>t, RowStep
    <3>2. CASE st[cur[w]] = "published"
      <4>1. DeliveryState[cur[w]] = "closed" BY <2>1, <3>2 DEF DeliveryState
      <4>2. Delivery!Reopen(cur[w]) BY <2>1, <3>1, <4>1 DEF Delivery!Reopen
      <4> QED BY <2>1, <4>2 DEF Delivery!Next
    <3>3. CASE st[cur[w]] # "published"
      <4>1. DeliveryState[cur[w]] = "open" BY <2>1, <3>3, <1>t DEF DeliveryState, TypeOK
      <4>2. DeliveryState' = DeliveryState BY <2>1, <3>1, <4>1 DEF DeliveryState
      <4> QED BY <2>1, <4>2 DEF Delivery!vars
    <3> QED BY <3>2, <3>3
  <2>3. CASE st' = st BY <2>1, <2>3, Stutter
  <2> QED BY <1>5, <2>2, <2>3 DEF MarkFailed, rows
<1>6. ASSUME NEW w \in Workers,
             StartWorker(w) \/ SubscribeWebhook(w) \/ FetchPending(w) \/ Publish(w) \/ Crash(w)
      PROVE UNCHANGED Delivery!vars
  <2>1. st' = st /\ handled' = handled
    BY <1>6 DEF StartWorker, SubscribeWebhook, FetchPending, Publish, Crash, rows
  <2> QED BY <2>1, Stutter
<1>7. CASE UNCHANGED vars BY <1>7, Stutter DEF vars
<1> QED
  BY <1>1, <1>2, <1>3, <1>4, <1>5, <1>6, <1>7 DEF Next, WorkerStep, Quiet

\* The relay implements at-least-once delivery: an event is closed only after
\* every matching handler accepted it, nothing is accepted that was not
\* committed, and no acceptance is ever lost.
THEOREM RelayImplementsDelivery == Spec => ImplementsDelivery
<1>1. Init => Delivery!Init
  BY DEF Init, Delivery!Init, DeliveryState
<1> QED BY <1>1, AlwaysIInv, NextRefines, PTL DEF Spec, ImplementsDelivery, Delivery!Spec

-----------------------------------------------------------------------------
(* The retry bound.  A worker can fail only an event it holds, and it fetches *)
(* only events with retries left: retry_count plus the number of holders      *)
(* never passes the bound.                                                    *)

Holders(e) == {w \in Workers : e \in batch[w]}

HoldersBound ==
  \A e \in Events :
    retry[e] + Cardinality(Holders(e)) <= MaxRetries + Cardinality(Workers) - 1

\* The holders of an event are finitely many, and at most all workers.
LEMMA HoldersFinite ==
  ASSUME NEW H, H \subseteq Workers
  PROVE  /\ IsFiniteSet(H)
         /\ Cardinality(H) \in Nat
         /\ Cardinality(H) <= Cardinality(Workers)
         /\ Cardinality(Workers) \in Nat
BY WorkersFinite, FS_Subset, FS_CardinalityType

\* The initial states satisfy the bound.
LEMMA InitHolders == Init => HoldersBound
<1> SUFFICES ASSUME Init, NEW e \in Events
             PROVE  retry[e] + Cardinality(Holders(e)) <= MaxRetries + Cardinality(Workers) - 1
  BY DEF HoldersBound
<1>1. Holders(e) = {} /\ retry[e] = 0 BY DEF Init, Holders
<1>2. Cardinality(Holders(e)) = 0 BY <1>1, FS_EmptySet
<1> QED BY <1>1, <1>2, HoldersFinite, ConfigAssumption

\* A step with no new holder and no new failure preserves the bound.
LEMMA FewerHolders ==
  ASSUME IInv, HoldersBound, NEW e \in Events, retry'[e] = retry[e],
         \A w \in Workers : e \in batch'[w] => e \in batch[w]
  PROVE  retry'[e] + Cardinality(Holders(e)') <= MaxRetries + Cardinality(Workers) - 1
<1>1. Holders(e)' \subseteq Holders(e) /\ Holders(e) \subseteq Workers BY DEF Holders
<1>2. IsFiniteSet(Holders(e)) BY <1>1, HoldersFinite
<1>3. /\ Cardinality(Holders(e)') <= Cardinality(Holders(e))
      /\ Cardinality(Holders(e)) \in Nat /\ Cardinality(Holders(e)') \in Nat
  BY <1>1, <1>2, FS_Subset, FS_CardinalityType
<1>4. retry[e] \in Nat /\ Cardinality(Workers) \in Nat
  BY <1>1, HoldersFinite DEF IInv, TypeOK
<1>5. retry[e] + Cardinality(Holders(e)) <= MaxRetries + Cardinality(Workers) - 1
  BY DEF HoldersBound
<1> QED BY <1>3, <1>4, <1>5, ConfigAssumption

\* Every step preserves the bound.
LEMMA NextHolders == IInv /\ HoldersBound /\ [Next]_vars => HoldersBound'
<1> SUFFICES ASSUME IInv, HoldersBound, [Next]_vars, NEW e \in Events
             PROVE  retry'[e] + Cardinality(Holders(e)')
                      <= MaxRetries + Cardinality(Workers) - 1
  BY DEF HoldersBound
<1> DEFINE Goal == retry'[e] + Cardinality(Holders(e)')
                     <= MaxRetries + Cardinality(Workers) - 1
<1>t. TypeOK BY DEF IInv
<1>1. CASE retry' = retry /\ batch' = batch
  BY <1>1, FewerHolders
<1>2. ASSUME NEW w \in Workers, FetchPending(w) PROVE Goal
  <2>1. retry' = retry /\ batch' = [batch EXCEPT ![w] = FirstBatch]
    BY <1>2 DEF FetchPending, rows
  <2>2. CASE e \in FirstBatch
    <3>1. retry[e] \in Nat /\ retry[e] < MaxRetries
      BY <1>t, <2>2 DEF FirstBatch, PendingEvents, Pending, TypeOK
    <3>2. Holders(e)' \subseteq Workers BY DEF Holders
    <3>3. /\ Cardinality(Holders(e)') \in Nat
          /\ Cardinality(Workers) \in Nat
          /\ Cardinality(Holders(e)') <= Cardinality(Workers)
      BY <3>2, HoldersFinite
    <3> QED BY <2>1, <3>1, <3>3, ConfigAssumption
  <2>3. CASE e \notin FirstBatch BY <1>t, <2>1, <2>3, FewerHolders DEF TypeOK
  <2> QED BY <2>2, <2>3
<1>3. ASSUME NEW w \in Workers, EndOfEvent(w), retry' = retry PROVE Goal
  BY <1>t, <1>3, FewerHolders DEF EndOfEvent, TypeOK
<1>4. ASSUME NEW w \in Workers, EndOfEvent(w), wpc[w] = "handling",
             retry' = [retry EXCEPT ![cur[w]] = @ + 1]
      PROVE Goal
  <2>1. cur[w] \in Events /\ cur[w] \in batch[w]
    BY <1>t, <1>4 DEF IInv, CurrentInBatch, TypeOK
  <2>2. CASE e # cur[w]
    BY <1>t, <1>4, <2>1, <2>2, FewerHolders DEF EndOfEvent, TypeOK
  <2>3. CASE e = cur[w]
    <3>1. w \in Holders(e) /\ Holders(e)' = Holders(e) \ {w} /\ Holders(e) \subseteq Workers
      BY <1>t, <1>4, <2>1, <2>3 DEF EndOfEvent, Holders, TypeOK
    <3>2. IsFiniteSet(Holders(e)) /\ Cardinality(Holders(e)) \in Nat /\ Cardinality(Workers) \in Nat
      BY <3>1, HoldersFinite
    <3>3. Cardinality(Holders(e)') = Cardinality(Holders(e)) - 1
      BY <3>1, <3>2, FS_RemoveElement
    <3>4. retry[e] \in Nat /\ retry'[e] = retry[e] + 1 BY <1>t, <1>4, <2>3 DEF TypeOK
    <3>5. retry[e] + Cardinality(Holders(e)) <= MaxRetries + Cardinality(Workers) - 1
      BY DEF HoldersBound
    <3> QED BY <3>2, <3>3, <3>4, <3>5, ConfigAssumption
  <2> QED BY <2>2, <2>3
<1>5. ASSUME NEW w \in Workers, Crash(w) PROVE Goal
  BY <1>t, <1>5, FewerHolders DEF Crash, rows, TypeOK
<1>6. ASSUME NEW w \in Workers, MarkPublished(w) \/ MarkFailed(w) PROVE Goal
  BY <1>3, <1>4, <1>6 DEF MarkPublished, MarkFailed, rows
<1>7. ASSUME NEW w \in Workers,
             StartWorker(w) \/ SubscribeWebhook(w) \/ Publish(w) \/ RunHandler(w) \/ RunWebhook(w)
      PROVE Goal
  BY <1>1, <1>7 DEF StartWorker, SubscribeWebhook, Publish, RunHandler, RunWebhook, rows
<1>8. ASSUME NEW d \in Events, CommitEvent(d) PROVE Goal
  BY <1>1, <1>8 DEF CommitEvent, worker
<1>9. CASE UNCHANGED vars BY <1>1, <1>9 DEF vars
<1> QED
  BY <1>2, <1>5, <1>6, <1>7, <1>8, <1>9 DEF Next, WorkerStep, Quiet

\* retry_count passes MaxRetries by less than one per rival process, for any
\* number of processes and any batch size.
THEOREM RetryBounded == Spec => []RetryBound
<1>1. IInv /\ HoldersBound => RetryBound
  <2> SUFFICES ASSUME IInv, HoldersBound, NEW e \in Events
               PROVE  retry[e] <= MaxRetries + Cardinality(Workers) - 1
    BY DEF RetryBound
  <2>1. Holders(e) \subseteq Workers BY DEF Holders
  <2>2. retry[e] \in Nat /\ Cardinality(Holders(e)) \in Nat /\ Cardinality(Workers) \in Nat
    BY <2>1, HoldersFinite DEF IInv, TypeOK
  <2> QED BY <2>2, ConfigAssumption DEF HoldersBound
<1> QED BY AlwaysIInv, InitHolders, NextHolders, <1>1, PTL DEF Spec

-----------------------------------------------------------------------------
(* What is published stays published.                                        *)

\* e is published and no worker holds it any more.
AtRest(e) == st[e] = "published" /\ \A w \in Workers : e \notin batch[w]

\* No step takes an event out of rest: a poll passes it over, and a mark is for
\* an event of the marker's batch.
LEMMA NextKeepsRest ==
  ASSUME IInv, [Next]_vars, NEW e \in Events, AtRest(e)
  PROVE  AtRest(e)'
<1>t. TypeOK BY DEF IInv
<1>1. CASE st' = st /\ batch' = batch BY <1>1 DEF AtRest
<1>2. ASSUME NEW w \in Workers, FetchPending(w) PROVE AtRest(e)'
  <2>1. e \notin FirstBatch BY DEF AtRest, FirstBatch, PendingEvents, Pending
  <2> QED BY <1>2, <1>t, <2>1 DEF AtRest, FetchPending, TypeOK, rows
<1>3. ASSUME NEW w \in Workers, MarkPublished(w) \/ MarkFailed(w) PROVE AtRest(e)'
  <2>1. e # cur[w] BY <1>3 DEF AtRest, IInv, CurrentInBatch, MarkPublished, MarkFailed
  <2>2. st'[e] = st[e] BY <1>3, <1>t, <2>1 DEF MarkPublished, MarkFailed, TypeOK, rows
  <2> QED BY <1>3, <1>t, <2>2 DEF AtRest, MarkPublished, MarkFailed, EndOfEvent, TypeOK
<1>4. ASSUME NEW w \in Workers, Crash(w) PROVE AtRest(e)'
  BY <1>4, <1>t DEF AtRest, Crash, TypeOK, rows
<1>5. ASSUME NEW w \in Workers,
             StartWorker(w) \/ SubscribeWebhook(w) \/ Publish(w) \/ RunHandler(w) \/ RunWebhook(w)
      PROVE AtRest(e)'
  BY <1>1, <1>5 DEF StartWorker, SubscribeWebhook, Publish, RunHandler, RunWebhook, rows
<1>6. ASSUME NEW d \in Events, CommitEvent(d) PROVE AtRest(e)'
  BY <1>6, <1>t DEF AtRest, CommitEvent, TypeOK, worker
<1>7. CASE UNCHANGED vars BY <1>1, <1>7 DEF vars
<1> QED BY <1>2, <1>3, <1>4, <1>5, <1>6, <1>7 DEF Next, WorkerStep, Quiet

\* A published event that nobody holds is never fetched nor marked again, for any
\* number of processes: only a worker that fetched it before can still mark it.
THEOREM PublishedStays == Spec => PublishedIsFinal
<1>1. IInv /\ [Next]_vars =>
        [\A e \in Events :
           st[e] = "published" /\ (\A w \in Workers : e \notin batch[w])
             => st'[e] = "published" /\ \A w \in Workers : e \notin batch'[w]]_vars
  BY NextKeepsRest DEF AtRest
<1> QED BY <1>1, AlwaysIInv, PTL DEF Spec, PublishedIsFinal
=============================================================================
