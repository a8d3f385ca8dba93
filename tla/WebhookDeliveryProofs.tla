------------------------ MODULE WebhookDeliveryProofs ------------------------
(***************************************************************************)
(* TLAPS proofs about WebhookDelivery, for any number of dispatches,        *)
(* endpoints, shutdowns and database errors.                                *)
(*                                                                         *)
(* What the goroutine may do next depends on what it has posted so far, so  *)
(* the invariant says what the posts look like at every point of            *)
(* deliverWithRetry (PostsByStage), that a goroutine belongs to a dispatch  *)
(* and an endpoint that exist (Started), and that a process which is not    *)
(* running was told to stop (StopCounted).                                  *)
(***************************************************************************)
EXTENDS WebhookDelivery, TLAPS

\* All posts of g but possibly the last were refused.
RefusedBefore(g) == \A i \in DOMAIN posts[g] : i < Len(posts[g]) => ~ posts[g][i]

\* Every post of g was refused.
AllRefused(g) == \A i \in DOMAIN posts[g] : ~ posts[g][i]

\* What g has posted at each point of deliverWithRetry.
PostsOf(g) ==
  /\ Len(posts[g]) <= MaxAttempts
  /\ RefusedBefore(g)
  /\ gpc[g] = "none" => posts[g] = <<>>
  /\ gpc[g] \in {"post", "wait"} => AllRefused(g) /\ Len(posts[g]) < MaxAttempts
  /\ gpc[g] = "log" => posts[g] # <<>>

PostsByStage == \A g \in Goroutines : PostsOf(g)

\* A goroutine was started by a dispatch, for an endpoint that was registered.
Started ==
  \A g \in Goroutines :
    gpc[g] # "none" => g[1] \in dispatched /\ endpoint[g[2]] # "unborn"

\* A process that is not running was told to stop, and only then are goroutines
\* lost.
StopCounted ==
  /\ proc # "running" => stops > 0
  /\ \A g \in Goroutines : gpc[g] = "lost" => stops > 0

\* The inductive invariant.
IInv ==
  /\ TypeOK
  /\ PostsByStage
  /\ Started
  /\ StopCounted
  /\ ExhaustedOrStopped
  /\ LogIsTrue
  /\ UnloggedOnlyIf

-----------------------------------------------------------------------------

\* The initial states satisfy the inductive invariant.
LEMMA InitIInv == Init => IInv
<1> SUFFICES ASSUME Init PROVE IInv OBVIOUS
<1> USE DEF Init
<1>1. TypeOK BY BoundsAssumption DEF TypeOK, Live
<1>2. \A g \in Goroutines : posts[g] = <<>> /\ gpc[g] = "none" OBVIOUS
<1>3. PostsByStage
  BY <1>2, AttemptsAssumption DEF PostsByStage, PostsOf, RefusedBefore, AllRefused
<1>4. Started /\ StopCounted /\ ExhaustedOrStopped /\ LogIsTrue
  BY <1>2 DEF Started, StopCounted, ExhaustedOrStopped, LogIsTrue
<1>5. UnloggedOnlyIf BY <1>2 DEF UnloggedOnlyIf, Over, Attempt
<1> QED BY <1>1, <1>3, <1>4, <1>5 DEF IInv

\* Appending the outcome of a post.
LEMMA AppendPost ==
  ASSUME NEW s \in Seq(BOOLEAN), NEW ok \in BOOLEAN
  PROVE  /\ Append(s, ok) \in Seq(BOOLEAN)
         /\ Len(Append(s, ok)) = Len(s) + 1
         /\ Append(s, ok)[Len(s) + 1] = ok
         /\ \A i \in DOMAIN s : i \in DOMAIN Append(s, ok) /\ Append(s, ok)[i] = s[i]
         /\ DOMAIN Append(s, ok) = 1..Len(s) + 1
         /\ DOMAIN s = 1..Len(s)
         /\ Len(s) \in Nat
         /\ Append(s, ok) # <<>>
OBVIOUS

\* The webhook usecase leaves the goroutines alone, and an endpoint that
\* changes has been registered.
LEMMA EndpointStep ==
  ASSUME IInv, NEW p \in Endpoints,
         \/ RegisterEndpoint(p)
         \/ \E active \in BOOLEAN : SetEndpointActive(p, active)
         \/ DeleteEndpoint(p)
  PROVE  IInv'
<1> USE DEF IInv
<1>0. UNCHANGED <<dispatched, proc, gpc, posts, faults, stops>>
  BY DEF RegisterEndpoint, SetEndpointActive, DeleteEndpoint
<1>1. TypeOK'
  <2>1. endpoint' \in [Endpoints -> {"unborn", "active", "inactive", "deleted"}]
    BY DEF TypeOK, RegisterEndpoint, SetEndpointActive, DeleteEndpoint
  <2>2. log' \subseteq log
    BY DEF RegisterEndpoint, SetEndpointActive, DeleteEndpoint
  <2> QED BY <1>0, <2>1, <2>2 DEF TypeOK
<1>2. PostsByStage' BY <1>0 DEF PostsByStage, PostsOf, RefusedBefore, AllRefused
<1>3. Started'
  BY <1>0 DEF Started, TypeOK, RegisterEndpoint, SetEndpointActive, DeleteEndpoint, Goroutines
<1>4. StopCounted' BY <1>0 DEF StopCounted
<1>5. ExhaustedOrStopped' BY <1>0 DEF ExhaustedOrStopped, LastOk, Attempt
<1>6. LogIsTrue'
  <2> SUFFICES ASSUME NEW row \in log'
               PROVE  /\ row.attempt \in DOMAIN posts[row.g]
                      /\ posts[row.g][row.attempt] = row.ok
                      /\ endpoint'[row.g[2]] \in {"active", "inactive"}
    BY <1>0 DEF LogIsTrue
  <2>1. row \in log /\ row.g \in Goroutines
    BY DEF RegisterEndpoint, SetEndpointActive, DeleteEndpoint, TypeOK, Delivery
  <2>2. DeleteEndpoint(p) => row.g[2] # p BY DEF DeleteEndpoint
  <2> QED BY <2>1, <2>2 DEF LogIsTrue, TypeOK, Goroutines,
              RegisterEndpoint, SetEndpointActive, DeleteEndpoint
<1>7. UnloggedOnlyIf'
  <2> SUFFICES ASSUME NEW g \in Goroutines, NEW i \in 1..Over(g)'
               PROVE  \/ Logged(g, i)' \/ endpoint'[g[2]] = "deleted"
                      \/ faults' > 0 \/ stops' > 0
    BY DEF UnloggedOnlyIf
  <2>1. i \in 1..Over(g) BY <1>0 DEF Over, Attempt
  <2>2. \/ Logged(g, i) \/ endpoint[g[2]] = "deleted" \/ faults > 0 \/ stops > 0
    BY <2>1 DEF UnloggedOnlyIf
  <2>3. endpoint[g[2]] = "deleted" => endpoint'[g[2]] = "deleted"
    BY DEF TypeOK, Goroutines, RegisterEndpoint, SetEndpointActive, DeleteEndpoint
  <2>4. ASSUME Logged(g, i), endpoint'[g[2]] # "deleted" PROVE Logged(g, i)'
    <3>1. PICK row \in log : row.g = g /\ row.attempt = i BY <2>4 DEF Logged
    <3>2. row \in log'
      BY <2>4, <3>1 DEF TypeOK, Goroutines, RegisterEndpoint, SetEndpointActive, DeleteEndpoint
    <3> QED BY <3>1, <3>2 DEF Logged
  <2> QED BY <1>0, <2>2, <2>3, <2>4
<1> QED BY <1>1, <1>2, <1>3, <1>4, <1>5, <1>6, <1>7

\* A dispatch starts goroutines that have posted nothing.
LEMMA DispatchStep ==
  ASSUME IInv, NEW d \in Dispatches, DispatchEvent(d)
  PROVE  IInv'
<1> USE DEF IInv
<1>0. UNCHANGED <<endpoint, proc, posts, log, stops>> BY DEF DispatchEvent
<1>g. \A g \in Goroutines :
        \/ gpc'[g] = gpc[g]
        \/ /\ gpc[g] = "none" /\ gpc'[g] = "post"
           /\ g[1] = d /\ endpoint[g[2]] = "active"
  BY DEF DispatchEvent, Started, ActiveEndpoints, TypeOK
<1>d. dispatched' = dispatched \cup {d} BY DEF DispatchEvent
<1>f. faults' \in 0..MaxFaults /\ faults' >= faults
  BY BoundsAssumption DEF DispatchEvent, TypeOK
<1>1. TypeOK'
  <2>1. gpc' \in [Goroutines -> Live \cup {"none", "done", "lost"}]
    BY DEF DispatchEvent, TypeOK, Live
  <2> QED BY <1>0, <1>d, <1>f, <2>1 DEF TypeOK
<1>2. PostsByStage'
  <2> SUFFICES ASSUME NEW g \in Goroutines PROVE PostsOf(g)'
    BY DEF PostsByStage
  <2>1. PostsOf(g) BY DEF PostsByStage
  <2>2. CASE gpc'[g] = gpc[g]
    BY <1>0, <2>1, <2>2 DEF PostsOf, RefusedBefore, AllRefused
  <2>3. CASE gpc[g] = "none" /\ gpc'[g] = "post"
    <3>1. posts'[g] = <<>> BY <1>0, <2>1, <2>3 DEF PostsOf
    <3> QED BY <2>3, <3>1, AttemptsAssumption DEF PostsOf, RefusedBefore, AllRefused
  <2> QED BY <1>g, <2>2, <2>3
<1>3. Started' BY <1>0, <1>g, <1>d DEF Started
<1>4. StopCounted' BY <1>0, <1>g DEF StopCounted
<1>5. ExhaustedOrStopped' BY <1>0, <1>g DEF ExhaustedOrStopped, LastOk, Attempt
<1>6. LogIsTrue' BY <1>0 DEF LogIsTrue
<1>7. UnloggedOnlyIf'
  <2> SUFFICES ASSUME NEW g \in Goroutines, NEW i \in 1..Over(g)'
               PROVE  \/ Logged(g, i)' \/ endpoint'[g[2]] = "deleted"
                      \/ faults' > 0 \/ stops' > 0
    BY DEF UnloggedOnlyIf
  <2>1. i \in 1..Over(g) BY <1>0, <1>g DEF Over, Attempt
  <2> QED BY <1>0, <1>f, <2>1 DEF UnloggedOnlyIf, Logged, TypeOK
<1> QED BY <1>1, <1>2, <1>3, <1>4, <1>5, <1>6, <1>7

\* A post adds one outcome and hands over to the log.
LEMMA PostStep ==
  ASSUME IInv, NEW g \in Goroutines, Post(g)
  PROVE  IInv'
<1> USE DEF IInv
<1>0. UNCHANGED <<endpoint, dispatched, proc, log, faults, stops>> BY DEF Post
<1>p. PICK ok \in BOOLEAN : posts' = [posts EXCEPT ![g] = Append(@, ok)] BY DEF Post
<1>g. gpc[g] = "post" /\ gpc' = [gpc EXCEPT ![g] = "log"] BY DEF Post
<1>s. posts[g] \in Seq(BOOLEAN) /\ posts'[g] = Append(posts[g], ok) BY <1>p DEF TypeOK
<1>a. /\ Len(posts'[g]) = Len(posts[g]) + 1 /\ posts'[g] # <<>>
      /\ DOMAIN posts'[g] = 1..Len(posts[g]) + 1 /\ DOMAIN posts[g] = 1..Len(posts[g])
      /\ \A i \in DOMAIN posts[g] : posts'[g][i] = posts[g][i]
      /\ Len(posts[g]) \in Nat /\ posts'[g] \in Seq(BOOLEAN)
  BY <1>s, AppendPost
<1>o. \A h \in Goroutines : h # g => posts'[h] = posts[h] /\ gpc'[h] = gpc[h]
  BY <1>p, <1>g DEF TypeOK
<1>1. TypeOK'
  <2>1. posts' \in [Goroutines -> Seq(BOOLEAN)] BY <1>p, <1>a, <1>o DEF TypeOK
  <2>2. gpc' \in [Goroutines -> Live \cup {"none", "done", "lost"}]
    BY <1>g DEF TypeOK, Live
  <2> QED BY <1>0, <2>1, <2>2 DEF TypeOK
<1>l. gpc'[g] = "log" BY <1>g DEF TypeOK
<1>2. PostsByStage'
  <2> SUFFICES ASSUME NEW h \in Goroutines PROVE PostsOf(h)'
    BY DEF PostsByStage
  <2>1. CASE h # g
    BY <1>o, <2>1 DEF PostsByStage, PostsOf, RefusedBefore, AllRefused
  <2>2. CASE h = g
    <3>1. AllRefused(g) /\ Len(posts[g]) < MaxAttempts
      BY <1>g DEF PostsByStage, PostsOf
    <3>2. RefusedBefore(g)' BY <1>a, <3>1 DEF RefusedBefore, AllRefused
    <3> QED BY <1>a, <1>l, <2>2, <3>1, <3>2, AttemptsAssumption DEF PostsOf
  <2> QED BY <2>1, <2>2
<1>3. Started' BY <1>0, <1>g, <1>o DEF Started, TypeOK
<1>4. StopCounted' BY <1>0, <1>l, <1>o DEF StopCounted
<1>5. ExhaustedOrStopped' BY <1>0, <1>l, <1>o DEF ExhaustedOrStopped, LastOk, Attempt
<1>6. LogIsTrue'
  <2> SUFFICES ASSUME NEW row \in log
               PROVE  /\ row.attempt \in DOMAIN posts'[row.g]
                      /\ posts'[row.g][row.attempt] = row.ok
    BY <1>0 DEF LogIsTrue
  <2>1. row.g \in Goroutines BY DEF TypeOK, Delivery
  <2> QED BY <1>a, <1>o, <2>1 DEF LogIsTrue
<1>7. UnloggedOnlyIf'
  <2> SUFFICES ASSUME NEW h \in Goroutines, NEW i \in 1..Over(h)'
               PROVE  \/ Logged(h, i)' \/ endpoint'[h[2]] = "deleted"
                      \/ faults' > 0 \/ stops' > 0
    BY DEF UnloggedOnlyIf
  <2>1. i \in 1..Over(h)
    <3>1. CASE h # g BY <1>o, <3>1 DEF Over, Attempt
    <3>2. CASE h = g
      <4>1. Over(g) = Len(posts[g]) BY <1>g DEF Over, Attempt
      <4>2. Over(g)' = Len(posts[g]) BY <1>l, <1>a DEF Over, Attempt
      <4> QED BY <3>2, <4>1, <4>2
    <3> QED BY <3>1, <3>2
  <2> QED BY <1>0, <2>1 DEF UnloggedOnlyIf, Logged
<1> QED BY <1>1, <1>2, <1>3, <1>4, <1>5, <1>6, <1>7

\* The end of an attempt: a row for it, or one of the reasons for none.
LEMMA LogStep ==
  ASSUME IInv, NEW g \in Goroutines, LogAttempt(g)
  PROVE  IInv'
<1> USE DEF IInv
<1> DEFINE row == [g |-> g, attempt |-> Attempt(g), ok |-> LastOk(g)]
<1>0. UNCHANGED <<endpoint, dispatched, proc, posts, stops>> BY DEF LogAttempt
<1>g. gpc[g] = "log" /\ gpc' = [gpc EXCEPT ![g] = AfterAttempt(g)] BY DEF LogAttempt
<1>s. posts[g] \in Seq(BOOLEAN) /\ posts[g] # <<>>
  BY <1>g DEF TypeOK, PostsByStage, PostsOf
<1>a. /\ Len(posts[g]) \in Nat \ {0} /\ DOMAIN posts[g] = 1..Len(posts[g])
      /\ LastOk(g) = posts[g][Len(posts[g])] /\ LastOk(g) \in BOOLEAN
  BY <1>s DEF LastOk
<1>l. log' \in {log, log \cup {row}} BY DEF LogAttempt
<1>f. faults' \in 0..MaxFaults /\ faults' >= faults
  BY BoundsAssumption DEF LogAttempt, TypeOK
<1>n. gpc'[g] = AfterAttempt(g) /\ AfterAttempt(g) \in {"done", "wait"}
  BY <1>g DEF TypeOK, AfterAttempt
<1>o. \A h \in Goroutines : h # g => gpc'[h] = gpc[h] BY <1>g DEF TypeOK
<1>1. TypeOK'
  <2>1. gpc' \in [Goroutines -> Live \cup {"none", "done", "lost"}]
    BY <1>g, <1>n DEF TypeOK, Live
  <2>2. row \in Delivery BY <1>a DEF Delivery, Attempt
  <2> QED BY <1>0, <1>l, <1>f, <2>1, <2>2 DEF TypeOK
<1>2. PostsByStage'
  <2> SUFFICES ASSUME NEW h \in Goroutines PROVE PostsOf(h)'
    BY DEF PostsByStage
  <2>1. CASE h # g
    BY <1>0, <1>o, <2>1 DEF PostsByStage, PostsOf, RefusedBefore, AllRefused
  <2>2. CASE h = g
    <3>1. Len(posts[g]) <= MaxAttempts /\ RefusedBefore(g)
      BY DEF PostsByStage, PostsOf
    <3>2. gpc'[g] = "wait" => ~ LastOk(g) /\ Len(posts[g]) # MaxAttempts
      BY <1>n DEF AfterAttempt, Attempt
    <3>3. gpc'[g] = "wait" => AllRefused(g) /\ Len(posts[g]) < MaxAttempts
      BY <1>a, <3>1, <3>2, AttemptsAssumption DEF AllRefused, RefusedBefore
    <3> QED BY <1>0, <1>n, <2>2, <3>1, <3>3 DEF PostsOf, RefusedBefore, AllRefused
  <2> QED BY <2>1, <2>2
<1>3. Started' BY <1>0, <1>g, <1>o DEF Started
<1>4. StopCounted' BY <1>0, <1>n, <1>o DEF StopCounted
<1>5. ExhaustedOrStopped'
  BY <1>0, <1>n, <1>o DEF ExhaustedOrStopped, LastOk, Attempt, AfterAttempt
<1>6. LogIsTrue'
  <2> SUFFICES ASSUME NEW r \in log'
               PROVE  /\ r.attempt \in DOMAIN posts[r.g]
                      /\ posts[r.g][r.attempt] = r.ok
                      /\ endpoint[r.g[2]] \in {"active", "inactive"}
    BY <1>0 DEF LogIsTrue
  <2>1. CASE r \in log BY <2>1 DEF LogIsTrue
  <2>2. CASE r \notin log
    <3>1. r = row /\ endpoint[g[2]] # "deleted" BY <2>2 DEF LogAttempt
    <3>2. endpoint[g[2]] \in {"active", "inactive"}
      BY <1>g, <3>1 DEF Started, TypeOK, Goroutines
    <3> QED BY <1>a, <3>1, <3>2 DEF Attempt
  <2> QED BY <2>1, <2>2
<1>7. UnloggedOnlyIf'
  <2> SUFFICES ASSUME NEW h \in Goroutines, NEW i \in 1..Over(h)'
               PROVE  \/ Logged(h, i)' \/ endpoint'[h[2]] = "deleted"
                      \/ faults' > 0 \/ stops' > 0
    BY DEF UnloggedOnlyIf
  <2>1. CASE i \in 1..Over(h)
    <3>1. \/ Logged(h, i) \/ endpoint[h[2]] = "deleted" \/ faults > 0 \/ stops > 0
      BY <2>1 DEF UnloggedOnlyIf
    <3>2. Logged(h, i) => Logged(h, i)' BY <1>l DEF Logged
    <3> QED BY <1>0, <1>f, <3>1, <3>2 DEF TypeOK
  <2>2. CASE i \notin 1..Over(h)
    <3>1. h = g BY <1>0, <1>o, <2>2 DEF Over, Attempt
    <3>2. Over(g) = Len(posts[g]) - 1 /\ Over(g)' = Len(posts[g])
      BY <1>0, <1>g, <1>n DEF Over, Attempt
    <3>3. i = Attempt(g) BY <1>a, <2>2, <3>1, <3>2 DEF Attempt
    <3>4. CASE row \in log'
      <4>1. row.g = g /\ row.attempt = i BY <3>3
      <4> QED BY <3>1, <3>4, <4>1 DEF Logged
    <3>5. CASE row \notin log'
      BY <1>0, <3>1, <3>5, BoundsAssumption DEF LogAttempt, StopCounted, TypeOK
    <3> QED BY <3>4, <3>5
  <2> QED BY <2>1, <2>2
<1> QED BY <1>1, <1>2, <1>3, <1>4, <1>5, <1>6, <1>7

\* Waiting, and the steps of the process, change no post and no row.
LEMMA QuietStep ==
  ASSUME IInv, (\E g \in Goroutines : Wait(g)) \/ Cancel \/ Exit \/ Restart
  PROVE  IInv'
<1> USE DEF IInv
<1>0. UNCHANGED <<endpoint, dispatched, posts, log, faults>>
  BY DEF Wait, Cancel, Exit, Restart
<1>s. stops' \in 0..MaxStops /\ stops' >= stops
  BY BoundsAssumption DEF TypeOK, Wait, Cancel, Exit, Restart
<1>p. proc' \in {"running", "cancelled", "down"} /\ (proc' # "running" => stops' > 0)
  BY BoundsAssumption DEF TypeOK, StopCounted, Wait, Cancel, Exit, Restart
<1>g. \A g \in Goroutines :
        \/ gpc'[g] = gpc[g]
        \/ gpc[g] = "wait" /\ gpc'[g] = "post"
        \/ gpc[g] = "wait" /\ gpc'[g] = "done" /\ stops' > 0
        \/ gpc[g] \in Live /\ gpc'[g] = "lost" /\ stops' > 0
  BY BoundsAssumption DEF TypeOK, StopCounted, Wait, Cancel, Exit, Restart
<1>1. TypeOK'
  <2>1. gpc' \in [Goroutines -> Live \cup {"none", "done", "lost"}]
    BY DEF TypeOK, Wait, Cancel, Exit, Restart, Live
  <2> QED BY <1>0, <1>s, <1>p, <2>1 DEF TypeOK
<1>2. PostsByStage'
  BY <1>0, <1>g DEF PostsByStage, PostsOf, RefusedBefore, AllRefused, Live
<1>3. Started' BY <1>0, <1>g DEF Started, Live
<1>4. StopCounted' BY <1>p, <1>g, <1>s DEF StopCounted, TypeOK
<1>5. ExhaustedOrStopped'
  BY <1>0, <1>g, <1>s DEF ExhaustedOrStopped, LastOk, Attempt, TypeOK
<1>6. LogIsTrue' BY <1>0 DEF LogIsTrue
<1>7. UnloggedOnlyIf'
  <2> SUFFICES ASSUME NEW g \in Goroutines, NEW i \in 1..Over(g)', ~ stops' > 0
               PROVE  \/ Logged(g, i)' \/ endpoint'[g[2]] = "deleted" \/ faults' > 0
    BY DEF UnloggedOnlyIf
  <2>1. Over(g)' = Over(g) BY <1>0, <1>g DEF Over, Attempt
  <2>2. ~ stops > 0 BY <1>s DEF TypeOK
  <2> QED BY <1>0, <2>1, <2>2 DEF UnloggedOnlyIf, Logged
<1> QED BY <1>1, <1>2, <1>3, <1>4, <1>5, <1>6, <1>7

\* Every step preserves the inductive invariant.
LEMMA NextIInv == IInv /\ [Next]_vars => IInv'
<1> SUFFICES ASSUME IInv, [Next]_vars PROVE IInv' OBVIOUS
<1>1. CASE UNCHANGED vars
  BY <1>1 DEF vars, IInv, TypeOK, PostsByStage, PostsOf, RefusedBefore, AllRefused, Started,
              StopCounted, ExhaustedOrStopped, LastOk, Attempt, LogIsTrue,
              UnloggedOnlyIf, Logged, Over
<1> QED BY <1>1, EndpointStep, DispatchStep, PostStep, LogStep, QuietStep
        DEF Next, DeliverStep

\* The inductive invariant holds in every reachable state.
LEMMA AlwaysIInv == Spec => []IInv
BY InitIInv, NextIInv, PTL DEF Spec

\* Every reachable state of the dispatcher is well typed.
THEOREM TypeCorrect == Spec => []TypeOK
<1>1. IInv => TypeOK BY DEF IInv
<1> QED BY AlwaysIInv, <1>1, PTL

\* deliverWithRetry posts until the first success and no longer, at most
\* MaxAttempts times, and gives up early only at a shutdown.
THEOREM RetriesRight == Spec => []RetriesUntilAnswered
<1>1. IInv => RetriesUntilAnswered
  BY DEF IInv, RetriesUntilAnswered, NoPostAfterSuccess, PostsByStage, PostsOf, RefusedBefore
<1> QED BY AlwaysIInv, <1>1, PTL

\* The delivery log is the history of the attempts: its rows are true, and a row
\* is missing only for the three reasons LogIsFaithful names.
THEOREM LogFaithful == Spec => []LogIsFaithful
<1>1. IInv => LogIsFaithful BY DEF IInv, LogIsFaithful
<1> QED BY AlwaysIInv, <1>1, PTL
=============================================================================
