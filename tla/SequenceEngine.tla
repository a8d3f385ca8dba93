--------------------------- MODULE SequenceEngine ---------------------------
(***************************************************************************)
(* One number series of the sequence engine: the counter row               *)
(* (repository/postgres/sequence_repo.go), the reset rule and the number    *)
(* format (domain/sequence/sequence.go), and the usecase that creates,      *)
(* updates and deletes the series (usecase/sequence).                       *)
(*                                                                         *)
(* Time is counted in ticks.  time.Now().UTC() gives the tick of the clock; *)
(* last_reset_at comes back from the driver (external) as the same instant  *)
(* in the process's local zone, LocalOffset ticks ahead of UTC, and         *)
(* ShouldReset compares the calendar fields of the two as they are.         *)
(***************************************************************************)
EXTENDS Naturals, FiniteSets

CONSTANTS
  Requests,      \* AcquireNextNumber calls
  Admins,        \* CreateSequence, UpdateSequence and DeleteSequence calls
  Configs,       \* configurations the admins choose: [tokens, policy]
  MaxTime,       \* bound: last tick of the clock
  TicksPerDay, DaysPerMonth, MonthsPerYear,
  LocalOffset,   \* ticks of the local zone ahead of UTC
  StartValue,    \* start_value of the series
  IncrementBy,   \* increment_by of the series
  None           \* no number, no time, nobody

Tokens == {"YYYY", "MM", "DD", "SEQ"}
Policies == {"never", "yearly", "monthly", "daily"}
Config == [tokens : SUBSET Tokens, policy : Policies]
Times == 0..MaxTime

\* What AcquireNextNumber computes: the counter columns to write, the number to
\* return, and the configuration they come from.
Number == UNION {[S -> Nat] : S \in SUBSET Tokens}
Draft == [value : Nat, number : Number, last : Times, config : Config, epoch : Nat]

ASSUME CalendarAssumption ==
  /\ MaxTime \in Nat /\ LocalOffset \in Nat
  /\ TicksPerDay \in Nat \ {0} /\ DaysPerMonth \in Nat \ {0}
  /\ MonthsPerYear \in Nat \ {0}
ASSUME CounterAssumption == StartValue \in Nat \ {0} /\ IncrementBy \in Nat \ {0}
ASSUME ConfigsAssumption == Configs \subseteq Config /\ Configs # {}
ASSUME NoneAssumption == None \notin Nat /\ None \notin Requests
                         /\ None \notin Draft

VARIABLES
  clock,     \* now
  exists,    \* the row exists
  active,    \* is_active
  config,    \* template and reset_policy
  value,     \* current_value
  last,      \* last_reset_at, or None
  lock,      \* request that holds the row lock, or None
  pc,        \* pc[r]: "idle", "locked", "ok" or "error"
  draft,     \* draft[r]: what r has computed under the lock
  issued,    \* issued[r]: the number r was given, or None
  apc,       \* apc[a]: "idle", "read" or "done"
  copy,      \* copy[a]: configuration and is_active that UpdateSequence read
  epoch      \* history variable: administrative writes so far

rowvars == <<exists, active, config, value, last>>
adminvars == <<apc, copy, epoch>>
vars == <<clock, exists, active, config, value, last, lock, pc, draft, issued,
          apc, copy, epoch>>

-----------------------------------------------------------------------------
(* The calendar.                                                           *)

Day(t) == t \div TicksPerDay
Month(t) == Day(t) \div DaysPerMonth
Year(t) == Month(t) \div MonthsPerYear

\* What a date token shows.
Field(tok, t) ==
  CASE tok = "YYYY" -> Year(t)
    [] tok = "MM" -> Month(t) % MonthsPerYear
    [] tok = "DD" -> Day(t) % DaysPerMonth

(* The counter.                                                            *)

\* Mutant: a monthly series is reset every day.
ShouldResetEveryDay(policy, val, lastAt, now) ==
  /\ val # 0
  /\ lastAt # None
  /\ policy # "never"
  /\ Day(now) # Day(lastAt + LocalOffset)

ShouldReset(policy, val, lastAt, now) ==
  /\ val # 0
  /\ lastAt # None
  /\ CASE policy = "yearly" -> Year(now) # Year(lastAt + LocalOffset)
       [] policy = "monthly" -> Month(now) # Month(lastAt + LocalOffset)
       [] policy = "daily" -> Day(now) # Day(lastAt + LocalOffset)
       [] OTHER -> FALSE

\* Mutant: the start value is skipped.
NextValueSkipsStart(policy, val, lastAt, now) ==
  IF ShouldReset(policy, val, lastAt, now)
    THEN StartValue ELSE val + IncrementBy + StartValue

NextValue(policy, val, lastAt, now) ==
  IF ShouldReset(policy, val, lastAt, now) \/ val < StartValue
    THEN StartValue ELSE val + IncrementBy

\* The fields a number shows: the date tokens of the template, and the counter
\* if the template has a {SEQ} token.
FormatNumber(tokens, val, now) ==
  [tok \in tokens |-> IF tok = "SEQ" THEN val ELSE Field(tok, now)]

-----------------------------------------------------------------------------
Init ==
  /\ clock = 0
  /\ exists = FALSE
  /\ active = FALSE
  /\ config = CHOOSE c \in Configs : TRUE
  /\ value = 0
  /\ last = None
  /\ lock = None
  /\ pc = [r \in Requests |-> "idle"]
  /\ draft = [r \in Requests |-> None]
  /\ issued = [r \in Requests |-> None]
  /\ apc = [a \in Admins |-> "idle"]
  /\ copy = [a \in Admins |-> None]
  /\ epoch = 0

Tick ==
  /\ clock < MaxTime
  /\ clock' = clock + 1
  /\ UNCHANGED <<rowvars, lock, pc, draft, issued, adminvars>>

(* AcquireNextNumber.                                                      *)

\* SELECT ... FOR UPDATE of the active row, then time.Now, NextValue and
\* FormatNumber under the lock.
LockSequence(r) ==
  /\ pc[r] = "idle"
  /\ lock = None
  /\ exists /\ active
  /\ lock' = r
  /\ draft' = [draft EXCEPT ![r] =
       LET val == NextValue(config.policy, value, last, clock) IN
       [value |-> val,
        number |-> FormatNumber(config.tokens, val, clock),
        last |-> IF ShouldReset(config.policy, value, last, clock) \/ last = None
                   THEN clock ELSE last,
        config |-> config, epoch |-> epoch]]
  /\ pc' = [pc EXCEPT ![r] = "locked"]
  /\ UNCHANGED <<clock, rowvars, issued, adminvars>>

\* No active row: ErrNotFound.
NoSequence(r) ==
  /\ pc[r] = "idle"
  /\ lock = None
  /\ ~ (exists /\ active)
  /\ pc' = [pc EXCEPT ![r] = "error"]
  /\ UNCHANGED <<clock, rowvars, lock, draft, issued, adminvars>>

\* UPDATE sequences SET current_value, last_reset_at.
UpdateSequenceValue(d) ==
  /\ value' = d.value
  /\ last' = d.last

\* UpdateSequenceValue and Commit.  The caller gets the number, or an error
\* when the answer to the commit is lost: the value is consumed then.
CommitValue(r) ==
  /\ pc[r] = "locked"
  /\ UpdateSequenceValue(draft[r])
  /\ lock' = None
  /\ \/ /\ issued' = [issued EXCEPT ![r] = draft[r].number]
        /\ pc' = [pc EXCEPT ![r] = "ok"]
     \/ /\ UNCHANGED issued
        /\ pc' = [pc EXCEPT ![r] = "error"]
  /\ UNCHANGED <<clock, exists, active, config, draft, adminvars>>

\* Mutant: the transaction is left open on an error.
RollbackValueKeepsLock(r) ==
  /\ pc[r] = "locked"
  /\ pc' = [pc EXCEPT ![r] = "error"]
  /\ UNCHANGED <<clock, rowvars, lock, draft, issued, adminvars>>

\* A statement fails or the process dies: the deferred Rollback, or the server,
\* ends the transaction.
RollbackValue(r) ==
  /\ pc[r] = "locked"
  /\ lock' = None
  /\ pc' = [pc EXCEPT ![r] = "error"]
  /\ UNCHANGED <<clock, rowvars, draft, issued, adminvars>>

(* Administration.  Each write is one statement; it waits for the row lock. *)

\* INSERT INTO sequences: the new row starts at zero, active, with no reset date.
InsertSequence(c) ==
  /\ exists' = TRUE
  /\ active' = TRUE
  /\ config' = c
  /\ value' = 0
  /\ last' = None

\* A second series for the same entity is refused by the checks or by the unique
\* indexes.
CreateSequence(a) ==
  /\ apc[a] = "idle"
  /\ ~ exists
  /\ \E c \in Configs : InsertSequence(c)
  /\ epoch' = epoch + 1
  /\ apc' = [apc EXCEPT ![a] = "done"]
  /\ UNCHANGED <<clock, lock, pc, draft, issued, copy>>

\* UpdateSequence reads the row on the pool (GetByID) ...
ReadSequence(a) ==
  /\ apc[a] = "idle"
  /\ exists
  /\ copy' = [copy EXCEPT ![a] = config]
  /\ apc' = [apc EXCEPT ![a] = "read"]
  /\ UNCHANGED <<clock, rowvars, lock, pc, draft, issued, epoch>>

\* UPDATE sequences SET every configuration column; the counter columns are left
\* alone.
SetSequence(template, rule, status) ==
  /\ config' = [tokens |-> template.tokens, policy |-> rule.policy]
  /\ active' = status

\* ... and writes: what the command names from the command, the rest from the
\* copy.
UpdateSequence(a) ==
  /\ apc[a] = "read"
  /\ lock = None
  /\ apc' = [apc EXCEPT ![a] = "done"]
  /\ \/ /\ exists
        /\ \E template, rule \in Configs \cup {copy[a]}, status \in BOOLEAN :
             SetSequence(template, rule, status)
        /\ epoch' = epoch + 1
     \/ ~ exists /\ UNCHANGED <<config, active, epoch>>
  /\ UNCHANGED <<clock, exists, value, last, lock, pc, draft, issued, copy>>

DeleteSequence(a) ==
  /\ apc[a] = "idle"
  /\ exists
  /\ lock = None
  /\ exists' = FALSE
  /\ epoch' = epoch + 1
  /\ apc' = [apc EXCEPT ![a] = "done"]
  /\ UNCHANGED <<clock, active, config, value, last, lock, pc, draft, issued, copy>>

Acquire(r) == LockSequence(r) \/ NoSequence(r) \/ CommitValue(r) \/ RollbackValue(r)

\* Every request has been answered and every administrator has finished.
Finished ==
  /\ \A r \in Requests : pc[r] \in {"ok", "error"}
  /\ UNCHANGED vars

Administer(a) ==
  CreateSequence(a) \/ ReadSequence(a) \/ UpdateSequence(a) \/ DeleteSequence(a)

Next ==
  \/ Tick
  \/ \E r \in Requests : Acquire(r)
  \/ \E a \in Admins : Administer(a)
  \/ Finished

\* A transaction that holds the lock ends, and a request takes a free lock.
Fairness == \A r \in Requests : WF_vars(Acquire(r))

Spec == Init /\ [][Next]_vars

FairSpec == Spec /\ Fairness

-----------------------------------------------------------------------------
(* Properties.                                                             *)

\* Every variable has its type.
TypeOK ==
  /\ clock \in Times
  /\ exists \in BOOLEAN /\ active \in BOOLEAN
  /\ config \in Config
  /\ value \in Nat
  /\ last \in Times \cup {None}
  /\ lock \in Requests \cup {None}
  /\ pc \in [Requests -> {"idle", "locked", "ok", "error"}]
  /\ draft \in [Requests -> Draft \cup {None}]
  /\ issued \in [Requests -> Number \cup {None}]
  /\ apc \in [Admins -> {"idle", "read", "done"}]
  /\ copy \in [Admins -> Config \cup {None}]
  /\ epoch \in Nat

\* The date tokens that tell two periods of a reset policy apart.
PeriodTokens(policy) ==
  CASE policy = "yearly" -> {"YYYY"}
    [] policy = "monthly" -> {"YYYY", "MM"}
    [] policy = "daily" -> {"YYYY", "MM", "DD"}
    [] OTHER -> {}

\* The template shows the counter and the period it counts in.
Covers(c) == PeriodTokens(c.policy) \cup {"SEQ"} \subseteq c.tokens

\* Between two administrative writes a series whose template shows the counter
\* and its period never gives the same number twice: the row lock, the clock
\* read under it and the reset rule together (AcquireNextNumber).
UniqueWithinEpoch ==
  \A r, s \in Requests :
    /\ r # s /\ issued[r] # None /\ issued[s] # None
    /\ draft[r].epoch = draft[s].epoch /\ Covers(draft[r].config)
    => issued[r] # issued[s]

\* No two requests are ever given the same number.
NoDuplicateNumbers ==
  \A r, s \in Requests :
    r # s /\ issued[r] # None /\ issued[s] # None => issued[r] # issued[s]

\* The series has no unexplained gap: every value up to the counter was
\* computed by a request that is over, so a number nobody received was consumed
\* by a request that failed afterwards.
NoSkippedValue ==
  \A v \in StartValue..value :
    (v - StartValue) % IncrementBy = 0
      => \E r \in Requests : pc[r] \in {"ok", "error"} /\ draft[r] # None /\ draft[r].value = v

\* Every request for a number is answered: whoever holds the row lock lets it
\* go, whether its transaction commits or rolls back.
EveryAcquireAnswered ==
  \A r \in Requests : pc[r] = "idle" ~> pc[r] \in {"ok", "error"}
=============================================================================
