----------------------------- MODULE RateLimiter -----------------------------
(***************************************************************************)
(* The in-memory sliding-window limiter (pkg/ratelimit/ratelimit.go) for    *)
(* one key: concurrent Allow calls, the cleanup goroutine that drops stale  *)
(* buckets, and Close.                                                      *)
(*                                                                         *)
(* Allow reads the wall, then fetches the bucket from the sync.Map, then   *)
(* works on it under the bucket's mutex: three steps that other goroutines  *)
(* may come between.  purgeStale tests a bucket under its mutex and removes *)
(* the key after it has released it.                                        *)
(***************************************************************************)
EXTENDS Integers, Sequences, FiniteSets

CONSTANTS
  Allows,       \* Allow calls for the key
  Closers,      \* Close calls
  Limit,        \* RequestsPerWindow
  Window,       \* Window, in ticks
  MaxWall       \* bound: last tick of the clock

ASSUME LimiterAssumption ==
  Limit \in Nat \ {0} /\ Window \in Nat \ {0} /\ MaxWall \in Nat

VARIABLES
  wall,         \* time.Now()
  apc,          \* apc[r]: "idle", "now", "loaded", "allowed" or "denied"
  nowOf,        \* nowOf[r]: the time Allow has read
  bkt,          \* bkt[r]: the bucket Allow has fetched
  ts,           \* ts[b]: timestamps of bucket b, for the buckets made so far
  bucketOfKey,  \* the bucket the map holds for the key, 0 if none
  lpc,          \* cleanupLoop: "idle", "range", "delete" or "over"
  cutoff,       \* purgeStale: start of its window
  closer,       \* closer[c]: "idle", "closing", "closed" or "panic"
  stopped,      \* stopCh is closed
  overlapped    \* history variable: an Allow overlapped an Allow or a purge

loopVars == <<lpc, cutoff, closer, stopped>>
limiterVars == <<wall, apc, nowOf, bkt, ts, bucketOfKey, lpc, cutoff, closer, stopped, overlapped>>

InAllow(r) == apc[r] \in {"now", "loaded"}

-----------------------------------------------------------------------------
LimiterInit ==
  /\ wall = 0
  /\ apc = [r \in Allows |-> "idle"]
  /\ nowOf = [r \in Allows |-> 0]
  /\ bkt = [r \in Allows |-> 0]
  /\ ts = <<>>
  /\ bucketOfKey = 0
  /\ lpc = "idle"
  /\ cutoff = 0
  /\ closer = [c \in Closers |-> "idle"]
  /\ stopped = FALSE
  /\ overlapped = FALSE

WallTick ==
  /\ wall < MaxWall
  /\ wall' = wall + 1
  /\ UNCHANGED <<apc, nowOf, bkt, ts, bucketOfKey, loopVars, overlapped>>

(* Allow.                                                                  *)

ReadClock(r) ==
  /\ apc[r] = "idle"
  /\ nowOf' = [nowOf EXCEPT ![r] = wall]
  /\ apc' = [apc EXCEPT ![r] = "now"]
  /\ overlapped' = (overlapped \/ lpc \in {"range", "delete"} \/ \E q \in Allows \ {r} : InAllow(q))
  /\ UNCHANGED <<wall, bkt, ts, bucketOfKey, loopVars>>

\* Mutant: the bucket is used and never stored under the key.
LoadNoStore(r) ==
  /\ apc[r] = "now"
  /\ ts' = Append(ts, <<>>)
  /\ bkt' = [bkt EXCEPT ![r] = Len(ts) + 1]
  /\ apc' = [apc EXCEPT ![r] = "loaded"]
  /\ UNCHANGED <<wall, nowOf, bucketOfKey, loopVars, overlapped>>

LoadOrStore(r) ==
  /\ apc[r] = "now"
  /\ IF bucketOfKey = 0
       THEN /\ ts' = Append(ts, <<>>)
            /\ bucketOfKey' = Len(ts) + 1
       ELSE UNCHANGED <<ts, bucketOfKey>>
  /\ bkt' = [bkt EXCEPT ![r] = bucketOfKey']
  /\ apc' = [apc EXCEPT ![r] = "loaded"]
  /\ UNCHANGED <<wall, nowOf, loopVars, overlapped>>

\* Drop the timestamps before windowStart from the front, up to the first one
\* that is not.
Evict(stamps, windowStart) ==
  LET fresh == {i \in DOMAIN stamps : stamps[i] >= windowStart}
      first == IF fresh = {} THEN Len(stamps) + 1
               ELSE CHOOSE i \in fresh : \A j \in fresh : i <= j
  IN SubSeq(stamps, first, Len(stamps))

\* The part under the mutex: evict, then refuse or record.
Decide(r) ==
  /\ apc[r] = "loaded"
  /\ LET kept == Evict(ts[bkt[r]], nowOf[r] - Window) IN
     \/ /\ Len(kept) >= Limit
        /\ ts' = [ts EXCEPT ![bkt[r]] = kept]
        /\ apc' = [apc EXCEPT ![r] = "denied"]
     \/ /\ Len(kept) < Limit
        /\ ts' = [ts EXCEPT ![bkt[r]] = Append(kept, nowOf[r])]
        /\ apc' = [apc EXCEPT ![r] = "allowed"]
  /\ UNCHANGED <<wall, nowOf, bkt, bucketOfKey, loopVars, overlapped>>

(* cleanupLoop.                                                            *)

\* The loop takes a tick; select may still prefer it when stopCh is closed.
StartPurge ==
  /\ lpc = "idle"
  /\ cutoff' = wall - Window
  /\ lpc' = "range"
  /\ overlapped' = (overlapped \/ \E q \in Allows : InAllow(q))
  /\ UNCHANGED <<wall, apc, nowOf, bkt, ts, bucketOfKey, closer, stopped>>

\* The newest timestamp is the last one, if they are sorted.
AllStale(stamps, limit) == stamps = <<>> \/ stamps[Len(stamps)] < limit

CheckBucket ==
  /\ lpc = "range"
  /\ lpc' = IF bucketOfKey # 0 /\ AllStale(ts[bucketOfKey], cutoff) THEN "delete" ELSE "idle"
  /\ UNCHANGED <<wall, apc, nowOf, bkt, ts, bucketOfKey, cutoff, closer, stopped, overlapped>>

DeleteBucket ==
  /\ lpc = "delete"
  /\ bucketOfKey' = 0
  /\ lpc' = "idle"
  /\ UNCHANGED <<wall, apc, nowOf, bkt, ts, cutoff, closer, stopped, overlapped>>

\* The loop sees that stopCh is closed and returns.
StopLoop ==
  /\ lpc = "idle"
  /\ stopped
  /\ lpc' = "over"
  /\ UNCHANGED <<wall, apc, nowOf, bkt, ts, bucketOfKey, cutoff, closer, stopped, overlapped>>

(* Close: the select finds stopCh open, and closes it in a second step.    *)

CloseSelect(c) ==
  /\ closer[c] = "idle"
  /\ closer' = [closer EXCEPT ![c] = IF stopped THEN "closed" ELSE "closing"]
  /\ UNCHANGED <<wall, apc, nowOf, bkt, ts, bucketOfKey, lpc, cutoff, stopped, overlapped>>

CloseChannel(c) ==
  /\ closer[c] = "closing"
  /\ closer' = [closer EXCEPT ![c] = IF stopped THEN "panic" ELSE "closed"]
  /\ stopped' = TRUE
  /\ UNCHANGED <<wall, apc, nowOf, bkt, ts, bucketOfKey, lpc, cutoff, overlapped>>

LimiterNext ==
  \/ WallTick
  \/ \E r \in Allows : ReadClock(r) \/ LoadOrStore(r) \/ Decide(r)
  \/ StartPurge \/ CheckBucket \/ DeleteBucket \/ StopLoop
  \/ \E c \in Closers : CloseSelect(c) \/ CloseChannel(c)

LimiterSpec == LimiterInit /\ [][LimiterNext]_limiterVars

-----------------------------------------------------------------------------
(* Properties.                                                             *)

\* Every variable has its type.
LimiterTypeOK ==
  /\ wall \in 0..MaxWall
  /\ apc \in [Allows -> {"idle", "now", "loaded", "allowed", "denied"}]
  /\ nowOf \in [Allows -> 0..MaxWall]
  /\ bkt \in [Allows -> 0..Len(ts)]
  /\ \A b \in DOMAIN ts : ts[b] \in Seq(0..MaxWall)
  /\ bucketOfKey \in 0..Len(ts)
  /\ lpc \in {"idle", "range", "delete", "over"}
  /\ cutoff \in Int
  /\ closer \in [Closers -> {"idle", "closing", "closed", "panic"}]
  /\ stopped \in BOOLEAN /\ overlapped \in BOOLEAN

\* Allows let through with a wall reading in the window that ends at t.
AllowedIn(t) == {r \in Allows : apc[r] = "allowed" /\ t - Window <= nowOf[r] /\ nowOf[r] <= t}

\* RequestsPerWindow is the maximum number of allowed requests within Window.
WindowLimit == \A t \in 0..MaxWall : Cardinality(AllowedIn(t)) <= Limit

\* The limit holds as long as no Allow overlaps another Allow or a purge: the
\* eviction, the count and the removal of stale buckets are right on their own.
WindowLimitUnlessRaced == ~ overlapped => WindowLimit

\* A bucket never grows past the limit, not even one the cleanup has taken out
\* of the map while requests still hold it, so memory per key is bounded.
BucketBound == \A b \in DOMAIN ts : Len(ts[b]) <= Limit

\* A request whose bucket is still the one in the map has left its timestamp
\* there or seen it pass: what the map holds is what the next request counts.
NothingForgotten ==
  ~ overlapped => \A r \in Allows :
    apc[r] = "allowed" /\ nowOf[r] > wall - Window
      => bucketOfKey # 0 /\ \E i \in DOMAIN ts[bucketOfKey] : ts[bucketOfKey][i] = nowOf[r]

\* What the limiter promises: no more than Limit requests in a window and none
\* forgotten unless calls overlap, and bounded memory even then.
LimiterSound == WindowLimitUnlessRaced /\ NothingForgotten /\ BucketBound
=============================================================================
