------------------------ MODULE SequenceEngineProofs ------------------------
(***************************************************************************)
(* TLAPS proofs about SequenceEngine, for any number of requests and        *)
(* administrators, any configurations, any calendar and any start value and *)
(* increment.                                                               *)
(*                                                                         *)
(* IInv says that the row lock has one holder and keeps the row from the     *)
(* administrators, and that the counter is empty or a whole number of        *)
(* increments past its start.  UInv adds the order of the numbers: within an *)
(* epoch the pair of period and value only grows.                            *)
(***************************************************************************)
EXTENDS SequenceEngine, TLAPS

\* An administrator writes only after it has read.
CopyRead == \A a \in Admins : apc[a] = "read" => copy[a] \in Config

\* The lock has one holder, and the row stays while it is held.
LockHeld ==
  /\ \A r \in Requests : pc[r] = "locked" <=> lock = r
  /\ lock # None => exists

\* The counter is empty, or some increments past its start.
CounterSound ==
  \/ value = 0 /\ last = None
  \/ value >= StartValue /\ last # None /\ (value - StartValue) % IncrementBy = 0

\* A request has a draft from its lock on, made for the row as it is while the
\* lock is held.
DraftCurrent ==
  \A r \in Requests :
    /\ pc[r] = "idle" => draft[r] = None
    /\ pc[r] \in {"locked", "ok"} => draft[r] \in Draft
    /\ pc[r] = "locked" =>
         \/ draft[r].value = StartValue
         \/ last # None /\ draft[r].value = value + IncrementBy

\* The inductive invariant.
IInv ==
  /\ TypeOK
  /\ CopyRead
  /\ LockHeld
  /\ CounterSound
  /\ DraftCurrent
  /\ NoSkippedValue

\* The period of a reset policy that a time falls in.
Period(policy, t) ==
  CASE policy = "yearly" -> Year(t)
    [] policy = "monthly" -> Month(t)
    [] policy = "daily" -> Day(t)
    [] OTHER -> 0

PeriodOf(r) == Period(draft[r].config.policy, draft[r].last)

\* The number shows the period of the last reset, and the value.
Shows(d) ==
  \E t \in Times :
    /\ Period(d.config.policy, t) = Period(d.config.policy, d.last)
    /\ d.number = FormatNumber(d.config.tokens, d.value, t)

DraftsShown == \A r \in Requests : draft[r] # None => Shows(draft[r])

ResetIsPast == last # None => last <= clock

\* What the holder of the lock has computed comes after the row: in a later
\* period, or in the same one with a larger value.
LockedAfterRow ==
  \A r \in Requests : pc[r] = "locked" =>
    /\ draft[r].epoch = epoch /\ draft[r].config = config
    /\ draft[r].last <= clock
    /\ \/ last = None
       \/ Period(config.policy, last) < PeriodOf(r)
       \/ draft[r].last = last /\ value < draft[r].value

\* What was given out in this epoch comes before the row, or is the row.
IssuedBeforeRow ==
  \A r \in Requests : pc[r] = "ok" =>
    /\ draft[r].epoch <= epoch
    /\ draft[r].epoch = epoch =>
         /\ draft[r].config = config
         /\ last # None
         /\ PeriodOf(r) <= Period(config.policy, last)
         /\ PeriodOf(r) = Period(config.policy, last) => draft[r].value <= value

\* Two requests of one epoch got different values or different periods.
IssuedApart ==
  \A r, s \in Requests :
    r # s /\ pc[r] = "ok" /\ pc[s] = "ok" /\ draft[r].epoch = draft[s].epoch =>
      /\ draft[r].config = draft[s].config
      /\ PeriodOf(r) # PeriodOf(s) \/ draft[r].value # draft[s].value

IssuedIsDraft ==
  \A r \in Requests : issued[r] # None => pc[r] = "ok" /\ issued[r] = draft[r].number

\* The inductive invariant of uniqueness.
UInv ==
  /\ IInv
  /\ DraftsShown
  /\ ResetIsPast
  /\ LockedAfterRow
  /\ IssuedBeforeRow
  /\ IssuedApart
  /\ IssuedIsDraft

-----------------------------------------------------------------------------
(* The calendar and the counter.                                           *)

\* Division and remainder determine a number, and division is monotonic.
LEMMA DivMod ==
  ASSUME NEW x \in Nat, NEW y \in Nat, NEW m \in Nat \ {0}
  PROVE  /\ x \div m \in Nat /\ x % m \in Nat
         /\ x <= y => x \div m <= y \div m
         /\ x \div m = y \div m /\ x % m = y % m => x = y
<1>1. x \div m \in Nat /\ x % m \in Nat OBVIOUS
<1>2. x <= y => x \div m <= y \div m OBVIOUS
<1>3. x \div m = y \div m /\ x % m = y % m => x = y OBVIOUS
<1> QED BY <1>1, <1>2, <1>3

\* The next multiple.
LEMMA NextMultiple ==
  ASSUME NEW x \in Nat, NEW m \in Nat \ {0}, x % m = 0
  PROVE  /\ (x + m) % m = 0
         /\ 0 % m = 0
         /\ \A y \in Nat : y % m = 0 /\ x < y /\ y <= x + m => y = x + m
<1>1. (x + m) % m = 0
  <2> DEFINE k == x \div m
             q == (x + m) \div m
             p == (x + m) % m
  <2>1. x = m * k /\ k \in Nat
    OBVIOUS
  <2>2. x + m = m * q + p /\ q \in Nat /\ p \in Nat /\ p < m
    OBVIOUS
  <2> HIDE DEF k, q, p
  <2>3. m * k + m = m * (k + 1)
    BY <2>1
  <2>4. m * (k + 1) = m * q + p
    BY <2>1, <2>2, <2>3
  <2>5. ~ k + 1 < q
    <3> SUFFICES ASSUME k + 1 < q PROVE FALSE OBVIOUS
    <3>1. m * (k + 1) < m * q BY <2>1, <2>2
    <3> QED BY <3>1, <2>1, <2>2, <2>4
  <2>6. ~ q < k + 1
    <3> SUFFICES ASSUME q + 1 <= k + 1 PROVE FALSE BY <2>1, <2>2
    <3>1. m * (q + 1) <= m * (k + 1) BY <2>1, <2>2
    <3>2. m * q + m = m * (q + 1) BY <2>2
    <3> QED BY <3>1, <3>2, <2>1, <2>2, <2>4
  <2>7. q = k + 1 BY <2>1, <2>2, <2>5, <2>6
  <2> QED BY <2>4, <2>7, <2>1, <2>2 DEF p
<1>2. 0 % m = 0 OBVIOUS
<1>3. ASSUME NEW y \in Nat, y % m = 0, x < y, y <= x + m PROVE y = x + m
  <2>1. x = m * (x \div m) /\ y = m * (y \div m)
    BY <1>3
  <2>2. x \div m < y \div m
    BY <1>3, <2>1
  <2>3. m * (x \div m) + m <= m * (y \div m)
    BY <2>2
  <2> QED BY <1>3, <2>1, <2>3
<1> QED BY <1>1, <1>2, <1>3

LEMMA CalendarTyped ==
  ASSUME NEW t \in Times
  PROVE  Day(t) \in Nat /\ Month(t) \in Nat /\ Year(t) \in Nat
BY CalendarAssumption, DivMod DEF Day, Month, Year, Times

\* What AcquireNextNumber computes is a draft.
LEMMA DraftMade ==
  ASSUME IInv, NEW r \in Requests, LockSequence(r)
  PROVE  /\ draft'[r] \in Draft
         /\ draft'[r].epoch = epoch /\ draft'[r].config = config
         /\ \/ draft'[r].value = StartValue
            \/ last # None /\ draft'[r].value = value + IncrementBy
         /\ draft' = [draft EXCEPT ![r] = draft'[r]]
<1> DEFINE val == NextValue(config.policy, value, last, clock)
           num == FormatNumber(config.tokens, val, clock)
           at == IF ShouldReset(config.policy, value, last, clock) \/ last = None
                   THEN clock ELSE last
<1>1. config \in Config /\ value \in Nat /\ clock \in Times /\ last \in Times \cup {None}
  BY DEF IInv, TypeOK
<1>2. val \in Nat /\ (val = StartValue \/ (last # None /\ val = value + IncrementBy))
  BY <1>1, CounterAssumption DEF NextValue, IInv, CounterSound, ShouldReset
<1>3. at \in Times BY <1>1
<1>4. num \in Number
  <2>1. config.tokens \in SUBSET Tokens BY <1>1 DEF Config
  <2>2. \A tok \in config.tokens : tok # "SEQ" => Field(tok, clock) \in Nat
    BY <1>1, <2>1, CalendarTyped, CalendarAssumption, DivMod DEF Field, Tokens
  <2>3. num \in [config.tokens -> Nat] BY <1>2, <2>2 DEF FormatNumber
  <2> QED BY <2>1, <2>3 DEF Number
<1>5. draft'[r] = [value |-> val, number |-> num, last |-> at, config |-> config, epoch |-> epoch]
  BY DEF LockSequence, IInv, TypeOK
<1>6. epoch \in Nat BY DEF IInv, TypeOK
<1>7. draft' = [draft EXCEPT ![r] = draft'[r]]
  BY DEF LockSequence, IInv, TypeOK
<1> HIDE DEF val, num, at
<1> QED BY <1>1, <1>2, <1>3, <1>4, <1>5, <1>6, <1>7 DEF Draft

-----------------------------------------------------------------------------
(* IInv is an invariant.                                                   *)

LEMMA InitIInv ==
  ASSUME Init
  PROVE  IInv
<1>1. config \in Config BY ConfigsAssumption DEF Init
<1>2. 0 \in Times BY CalendarAssumption DEF Times
<1>3. TypeOK BY <1>1, <1>2 DEF Init, TypeOK
<1>4. StartValue..value = {} BY CounterAssumption DEF Init
<1> QED BY <1>3, <1>4, NoneAssumption
        DEF Init, IInv, CopyRead, LockHeld, CounterSound, DraftCurrent, NoSkippedValue

\* A request that is over stays so, with the draft it had.
LEMMA OverStays ==
  ASSUME NoSkippedValue, value' = value,
         \A s \in Requests : pc[s] \in {"ok", "error"} =>
            pc'[s] \in {"ok", "error"} /\ draft'[s] = draft[s]
  PROVE  NoSkippedValue'
BY DEF NoSkippedValue

LEMMA LockIInv ==
  ASSUME IInv, NEW r \in Requests, LockSequence(r)
  PROVE  IInv'
<1> USE DEF IInv, LockSequence, rowvars, adminvars
<1>1. draft'[r] \in Draft /\ draft' = [draft EXCEPT ![r] = draft'[r]]
  BY DraftMade
<1>2. \/ draft'[r].value = StartValue
      \/ last # None /\ draft'[r].value = value + IncrementBy
  BY DraftMade
<1>3. pc' = [pc EXCEPT ![r] = "locked"] /\ lock' = r
  OBVIOUS
<1>4. TypeOK' BY <1>1, <1>3 DEF TypeOK
<1>5. CopyRead' /\ CounterSound' BY DEF CopyRead, CounterSound
<1>6. LockHeld' BY <1>3, NoneAssumption DEF LockHeld, TypeOK
<1>7. DraftCurrent'
  <2> SUFFICES ASSUME NEW s \in Requests
               PROVE  /\ pc'[s] = "idle" => draft'[s] = None
                      /\ pc'[s] \in {"locked", "ok"} => draft'[s] \in Draft
                      /\ pc'[s] = "locked" =>
                           \/ draft'[s].value = StartValue
                           \/ last # None /\ draft'[s].value = value + IncrementBy
    BY DEF DraftCurrent
  <2>1. CASE s = r BY <2>1, <1>1, <1>2, <1>3 DEF TypeOK
  <2>2. CASE s # r
    <3>1. pc'[s] = pc[s] /\ draft'[s] = draft[s] BY <2>2, <1>1, <1>3 DEF TypeOK
    <3> QED BY <3>1 DEF DraftCurrent
  <2> QED BY <2>1, <2>2
<1>8. NoSkippedValue' BY <1>1, <1>3, OverStays DEF TypeOK
<1> QED BY <1>4, <1>5, <1>6, <1>7, <1>8

LEMMA CommitIInv ==
  ASSUME IInv, NEW r \in Requests, CommitValue(r)
  PROVE  IInv'
<1> USE DEF IInv, CommitValue, adminvars, UpdateSequenceValue
<1>1. draft[r] \in Draft /\ lock = r /\ exists
  BY NoneAssumption DEF DraftCurrent, LockHeld
<1>2. /\ draft[r].value \in Nat /\ draft[r].last \in Times
      /\ draft[r].number \in Number /\ draft[r].last # None /\ draft[r] # None
  BY <1>1, NoneAssumption DEF Draft, Times
<1>3. /\ pc' \in [Requests -> {"idle", "locked", "ok", "error"}]
      /\ pc'[r] \in {"ok", "error"}
      /\ \A s \in Requests : s # r => pc'[s] = pc[s]
  BY DEF TypeOK
<1>4. TypeOK' BY <1>2, <1>3 DEF TypeOK
<1>5. CopyRead' BY DEF CopyRead
<1>6. LockHeld' BY <1>1, <1>3, NoneAssumption DEF LockHeld
<1>7. CounterSound'
  <2>1. CASE draft[r].value = StartValue
    BY <2>1, <1>2, CounterAssumption, 0 % IncrementBy = 0, NextMultiple DEF CounterSound
  <2>2. CASE last # None /\ draft[r].value = value + IncrementBy
    <3>1. value \in Nat /\ value - StartValue \in Nat /\ (value - StartValue) % IncrementBy = 0
      BY <2>2, CounterAssumption DEF CounterSound, TypeOK
    <3>2. ((value - StartValue) + IncrementBy) % IncrementBy = 0
      BY <3>1, CounterAssumption, NextMultiple
    <3>3. (value - StartValue) + IncrementBy = (value + IncrementBy) - StartValue
      BY <3>1, CounterAssumption
    <3> QED BY <2>2, <3>1, <3>2, <3>3, <1>2, CounterAssumption DEF CounterSound
  <2> QED BY <2>1, <2>2 DEF DraftCurrent
<1>8. DraftCurrent' BY <1>1, <1>3 DEF DraftCurrent, LockHeld, TypeOK
<1>9. NoSkippedValue'
  <2> SUFFICES ASSUME NEW v \in StartValue..draft[r].value, (v - StartValue) % IncrementBy = 0
               PROVE  \E s \in Requests :
                        pc'[s] \in {"ok", "error"} /\ draft[s] # None /\ draft[s].value = v
    BY DEF NoSkippedValue
  <2>1. CASE v = draft[r].value BY <2>1, <1>2, <1>3
  <2>2. CASE v # draft[r].value
    <3>1. last # None /\ draft[r].value = value + IncrementBy /\ v \in Nat
      BY <2>2, <1>2, CounterAssumption DEF DraftCurrent
    <3>2. value \in Nat /\ value - StartValue \in Nat /\ (value - StartValue) % IncrementBy = 0
      BY <3>1, CounterAssumption DEF CounterSound, TypeOK
    <3> DEFINE x == value - StartValue
               y == v - StartValue
    <3>3. y \in Nat /\ y % IncrementBy = 0 /\ y # x + IncrementBy /\ y <= x + IncrementBy
      BY <2>2, <3>1, <3>2, <1>2, CounterAssumption
    <3>4. ~ x < y
      <4> HIDE DEF x, y
      <4> QED BY <3>2, <3>3, CounterAssumption, NextMultiple DEF x
    <3>5. v \in StartValue..value BY <3>1, <3>2, <3>4, CounterAssumption
    <3>6. PICK s \in Requests :
            pc[s] \in {"ok", "error"} /\ draft[s] # None /\ draft[s].value = v
      BY <3>5 DEF NoSkippedValue
    <3> QED BY <3>6, <1>3
  <2> QED BY <2>1, <2>2
<1> QED BY <1>4, <1>5, <1>6, <1>7, <1>8, <1>9

LEMMA RollbackIInv ==
  ASSUME IInv, NEW r \in Requests, RollbackValue(r)
  PROVE  IInv'
<1> USE DEF IInv, RollbackValue, rowvars, adminvars
<1>1. lock = r BY DEF LockHeld
<1>2. TypeOK' /\ CopyRead' /\ CounterSound' BY DEF TypeOK, CopyRead, CounterSound
<1>3. LockHeld' BY <1>1, NoneAssumption DEF LockHeld, TypeOK
<1>4. DraftCurrent' BY DEF DraftCurrent, TypeOK
<1>5. NoSkippedValue' BY OverStays DEF TypeOK
<1> QED BY <1>2, <1>3, <1>4, <1>5

LEMMA NoSequenceIInv ==
  ASSUME IInv, NEW r \in Requests, NoSequence(r)
  PROVE  IInv'
<1> USE DEF IInv, NoSequence, rowvars, adminvars
<1>1. TypeOK' /\ CopyRead' /\ CounterSound' BY DEF TypeOK, CopyRead, CounterSound
<1>2. LockHeld' BY NoneAssumption DEF LockHeld, TypeOK
<1>3. DraftCurrent' BY DEF DraftCurrent, TypeOK
<1>4. NoSkippedValue' BY OverStays DEF TypeOK
<1> QED BY <1>1, <1>2, <1>3, <1>4

LEMMA AdminIInv ==
  ASSUME IInv, NEW a \in Admins, Administer(a)
  PROVE  IInv'
<1> USE DEF IInv
<1>1. CASE CreateSequence(a)
  <2> USE <1>1 DEF CreateSequence, InsertSequence
  <2>1. lock = None BY DEF LockHeld
  <2>2. TypeOK' BY ConfigsAssumption DEF TypeOK
  <2>3. CopyRead' BY DEF CopyRead, TypeOK
  <2>4. LockHeld' /\ CounterSound' BY <2>1 DEF LockHeld, CounterSound
  <2>5. DraftCurrent' BY <2>1, NoneAssumption DEF DraftCurrent, LockHeld
  <2>6. NoSkippedValue' BY CounterAssumption DEF NoSkippedValue
  <2> QED BY <2>2, <2>3, <2>4, <2>5, <2>6
<1>2. CASE ReadSequence(a)
  <2> USE <1>2 DEF ReadSequence, rowvars
  <2>1. TypeOK' BY DEF TypeOK
  <2>2. CopyRead' BY DEF CopyRead, TypeOK
  <2> QED BY <2>1, <2>2 DEF LockHeld, CounterSound, DraftCurrent, NoSkippedValue
<1>3. CASE UpdateSequence(a)
  <2> USE <1>3 DEF UpdateSequence, SetSequence
  <2>1. copy[a] \in Config BY DEF CopyRead
  <2>2. /\ config' \in Config /\ active' \in BOOLEAN /\ epoch' \in Nat
        /\ UNCHANGED <<clock, exists, value, last, lock, pc, draft, issued, copy>>
    BY <2>1, ConfigsAssumption DEF TypeOK, Config
  <2>3. apc' = [apc EXCEPT ![a] = "done"] OBVIOUS
  <2>4. TypeOK' BY <2>2, <2>3 DEF TypeOK
  <2>5. CopyRead' BY <2>2, <2>3 DEF CopyRead, TypeOK
  <2> QED BY <2>2, <2>4, <2>5 DEF LockHeld, CounterSound, DraftCurrent, NoSkippedValue
<1>4. CASE DeleteSequence(a)
  <2> USE <1>4 DEF DeleteSequence
  <2>1. TypeOK'
    <3>1. exists' \in BOOLEAN BY Zenon
    <3>2. /\ epoch' \in Nat /\ apc' = [apc EXCEPT ![a] = "done"]
          /\ UNCHANGED <<clock, active, config, value, last, lock, pc, draft, issued, copy>>
      BY DEF TypeOK
    <3> HIDE DEF DeleteSequence
    <3> QED BY <3>1, <3>2 DEF TypeOK
  <2>2. CopyRead' BY DEF CopyRead, TypeOK
  <2>3. LockHeld' BY DEF LockHeld
  <2> QED BY <2>1, <2>2, <2>3 DEF CounterSound, DraftCurrent, NoSkippedValue
<1> QED BY <1>1, <1>2, <1>3, <1>4 DEF Administer

LEMMA NextIInv ==
  ASSUME IInv, [Next]_vars
  PROVE  IInv'
<1>1. CASE Tick
  <2>1. TypeOK' BY <1>1, CalendarAssumption DEF IInv, TypeOK, Tick, rowvars, adminvars, Times
  <2> QED BY <1>1, <2>1 DEF IInv, Tick, rowvars, adminvars, CopyRead, LockHeld, CounterSound,
                         DraftCurrent, NoSkippedValue
<1>2. ASSUME NEW r \in Requests, Acquire(r) PROVE IInv'
  BY <1>2, LockIInv, NoSequenceIInv, CommitIInv, RollbackIInv DEF Acquire
<1>3. ASSUME NEW a \in Admins, Administer(a) PROVE IInv'
  BY <1>3, AdminIInv
<1>4. CASE UNCHANGED vars
  BY <1>4 DEF IInv, vars, TypeOK, CopyRead, LockHeld, CounterSound, DraftCurrent, NoSkippedValue
<1> QED BY <1>1, <1>2, <1>3, <1>4 DEF Next, Finished

\* The lock discipline and the counter, as one invariant.
THEOREM Invariance == Spec => []IInv
<1>1. Init => IInv BY InitIInv
<1>2. IInv /\ [Next]_vars => IInv' BY NextIInv
<1> QED BY <1>1, <1>2, PTL DEF Spec

\* Every variable of the number series has its type in every reachable state.
THEOREM TypeCorrect == Spec => []TypeOK
<1>1. IInv => TypeOK BY DEF IInv
<1> QED BY <1>1, Invariance, PTL

\* Every value up to the counter was computed by a request that is over
\* (AcquireNextNumber under the row lock): commits, lost answers, rollbacks,
\* resets and administrative writes leave no gap nobody consumed.
THEOREM NoGap == Spec => []NoSkippedValue
<1>1. IInv => NoSkippedValue BY DEF IInv
<1> QED BY <1>1, Invariance, PTL

-----------------------------------------------------------------------------
(* Numbers are unique within an epoch.                                     *)

LEMMA PeriodTyped ==
  ASSUME NEW policy, NEW t \in Times, NEW u \in Times
  PROVE  /\ Period(policy, t) \in Nat
         /\ t <= u => Period(policy, t) <= Period(policy, u)
<1>1. Day(t) \in Nat /\ (t <= u => Day(t) <= Day(u)) /\ Day(u) \in Nat
  BY CalendarAssumption, DivMod DEF Day, Times
<1>2. Month(t) \in Nat /\ (t <= u => Month(t) <= Month(u)) /\ Month(u) \in Nat
  BY <1>1, CalendarAssumption, DivMod DEF Month
<1>3. Year(t) \in Nat /\ (t <= u => Year(t) <= Year(u)) /\ Year(u) \in Nat
  BY <1>2, CalendarAssumption, DivMod DEF Year
<1> QED BY <1>1, <1>2, <1>3 DEF Period

\* The date tokens of a policy tell its periods apart.
LEMMA TokensShowPeriod ==
  ASSUME NEW policy \in Policies, NEW t \in Times, NEW u \in Times,
         \A tok \in PeriodTokens(policy) : Field(tok, t) = Field(tok, u)
  PROVE  Period(policy, t) = Period(policy, u)
<1>1. /\ Day(t) \in Nat /\ Day(u) \in Nat /\ Month(t) \in Nat /\ Month(u) \in Nat
  BY CalendarTyped
<1>2. CASE policy = "yearly"
  BY <1>2 DEF PeriodTokens, Field, Period
<1>3. Year(t) = Year(u) /\ Field("MM", t) = Field("MM", u) => Month(t) = Month(u)
  <2>1. (/\ Month(t) \div MonthsPerYear = Month(u) \div MonthsPerYear
         /\ (Month(t) % MonthsPerYear) = (Month(u) % MonthsPerYear)) => Month(t) = Month(u)
    BY <1>1, CalendarAssumption, DivMod
  <2> QED BY <2>1 DEF Year, Field
<1>4. Month(t) = Month(u) /\ Field("DD", t) = Field("DD", u) => Day(t) = Day(u)
  <2>1. (/\ Day(t) \div DaysPerMonth = Day(u) \div DaysPerMonth
         /\ (Day(t) % DaysPerMonth) = (Day(u) % DaysPerMonth)) => Day(t) = Day(u)
    BY <1>1, CalendarAssumption, DivMod
  <2> QED BY <2>1 DEF Month, Field
<1>5. CASE policy = "monthly"
  <2>1. Field("YYYY", t) = Field("YYYY", u) /\ Field("MM", t) = Field("MM", u)
    BY <1>5 DEF PeriodTokens
  <2> QED BY <2>1, <1>3, <1>5 DEF Field, Period
<1>6. CASE policy = "daily"
  <2>1. /\ Field("YYYY", t) = Field("YYYY", u) /\ Field("MM", t) = Field("MM", u)
        /\ Field("DD", t) = Field("DD", u)
    BY <1>6 DEF PeriodTokens
  <2>2. Year(t) = Year(u) BY <2>1 DEF Field
  <2> QED BY <2>1, <2>2, <1>3, <1>4, <1>6 DEF Period
<1>7. CASE policy = "never" BY <1>7 DEF Period
<1> QED BY <1>2, <1>5, <1>6, <1>7 DEF Policies

\* Two numbers of one template that shows its period and its counter are equal
\* only if the period and the value are.
LEMMA NumberShowsBoth ==
  ASSUME NEW d \in Draft, NEW e \in Draft, Shows(d), Shows(e),
         d.config = e.config, Covers(d.config), d.number = e.number
  PROVE  /\ d.value = e.value
         /\ Period(d.config.policy, d.last) = Period(e.config.policy, e.last)
<1>1. PICK t \in Times : /\ Period(d.config.policy, t) = Period(d.config.policy, d.last)
                         /\ d.number = FormatNumber(d.config.tokens, d.value, t)
  BY DEF Shows
<1>2. PICK u \in Times : /\ Period(e.config.policy, u) = Period(e.config.policy, e.last)
                         /\ e.number = FormatNumber(e.config.tokens, e.value, u)
  BY DEF Shows
<1>3. d.config \in Config BY DEF Draft
<1>4. d.config.policy \in Policies BY <1>3 DEF Config
<1> DEFINE toks == d.config.tokens
<1>5. \A tok \in toks :
        (IF tok = "SEQ" THEN d.value ELSE Field(tok, t))
          = (IF tok = "SEQ" THEN e.value ELSE Field(tok, u))
  BY <1>1, <1>2 DEF FormatNumber
<1>6. "SEQ" \in toks /\ PeriodTokens(d.config.policy) \subseteq toks
  BY DEF Covers
<1>7. "SEQ" \notin PeriodTokens(d.config.policy)
  BY DEF PeriodTokens
<1>8. \A tok \in PeriodTokens(d.config.policy) : Field(tok, t) = Field(tok, u)
  BY <1>5, <1>6, <1>7
<1>9. Period(d.config.policy, t) = Period(d.config.policy, u)
  BY <1>4, <1>8, TokensShowPeriod
<1> QED BY <1>1, <1>2, <1>5, <1>6, <1>9

LEMMA UInvUnique ==
  ASSUME UInv
  PROVE  UniqueWithinEpoch
<1> SUFFICES ASSUME NEW r \in Requests, NEW s \in Requests, r # s,
                    issued[r] # None, issued[s] # None,
                    draft[r].epoch = draft[s].epoch, Covers(draft[r].config),
                    issued[r] = issued[s]
             PROVE  FALSE
  BY DEF UniqueWithinEpoch
<1>1. /\ pc[r] = "ok" /\ issued[r] = draft[r].number
      /\ pc[s] = "ok" /\ issued[s] = draft[s].number
  BY DEF UInv, IssuedIsDraft
<1>2. draft[r] \in Draft /\ draft[s] \in Draft BY <1>1 DEF UInv, IInv, DraftCurrent
<1>3. Shows(draft[r]) /\ Shows(draft[s])
  BY <1>2, NoneAssumption DEF UInv, DraftsShown
<1>4. /\ draft[r].config = draft[s].config
      /\ PeriodOf(r) # PeriodOf(s) \/ draft[r].value # draft[s].value
  BY <1>1 DEF UInv, IssuedApart
<1>5. /\ draft[r].value = draft[s].value
      /\ Period(draft[r].config.policy, draft[r].last)
           = Period(draft[s].config.policy, draft[s].last)
  BY <1>1, <1>2, <1>3, <1>4, NumberShowsBoth
<1> QED BY <1>4, <1>5 DEF PeriodOf

LEMMA InitUInv ==
  ASSUME Init
  PROVE  UInv
BY InitIInv DEF Init, UInv, DraftsShown, ResetIsPast, LockedAfterRow, IssuedBeforeRow,
                IssuedApart, IssuedIsDraft

\* The reset rule asks whether the period has changed.
LEMMA ResetIsNewPeriod ==
  ASSUME IInv, LocalOffset = 0, last # None
  PROVE  ShouldReset(config.policy, value, last, clock)
           <=> Period(config.policy, clock) # Period(config.policy, last)
<1>1. last \in Times /\ clock \in Times /\ last + LocalOffset = last
  BY CalendarAssumption DEF IInv, TypeOK, Times
<1>2. value # 0 BY CounterAssumption DEF IInv, CounterSound, TypeOK
<1> QED BY <1>1, <1>2 DEF ShouldReset, Period

\* What AcquireNextNumber computes shows its period and comes after the row.
LEMMA DraftAfterRow ==
  ASSUME UInv, LocalOffset = 0, NEW r \in Requests, LockSequence(r)
  PROVE  /\ Shows(draft'[r])
         /\ draft'[r].last <= clock
         /\ \/ last = None
            \/ Period(config.policy, last) < Period(config.policy, draft'[r].last)
            \/ draft'[r].last = last /\ value < draft'[r].value
<1> DEFINE val == NextValue(config.policy, value, last, clock)
           num == FormatNumber(config.tokens, val, clock)
           reset == ShouldReset(config.policy, value, last, clock)
           at == IF reset \/ last = None THEN clock ELSE last
<1>1. draft'[r] = [value |-> val, number |-> num, last |-> at, config |-> config, epoch |-> epoch]
  BY DEF LockSequence, UInv, IInv, TypeOK
<1>2. clock \in Times /\ value \in Nat /\ (last # None => last \in Times /\ last <= clock)
  BY DEF UInv, IInv, TypeOK, ResetIsPast
<1>3. last # None => (reset <=> Period(config.policy, clock) # Period(config.policy, last))
  BY ResetIsNewPeriod DEF UInv
<1>4. Period(config.policy, clock) = Period(config.policy, at)
  BY <1>3
<1>5. \/ last = None
      \/ Period(config.policy, last) < Period(config.policy, at)
      \/ at = last /\ value < val
  <2>1. CASE last # None /\ reset
    BY <2>1, <1>2, <1>3, PeriodTyped
  <2>2. CASE last # None /\ ~ reset
    <3>1. ~ value < StartValue BY <2>2, CounterAssumption DEF UInv, IInv, CounterSound, TypeOK
    <3> QED BY <2>2, <3>1, <1>2, CounterAssumption DEF NextValue
  <2> QED BY <2>1, <2>2
<1> HIDE DEF val, num, at
<1>6. /\ draft'[r].config = config /\ draft'[r].last = at /\ draft'[r].value = val
      /\ draft'[r].number = num
  BY <1>1
<1>7. Shows(draft'[r]) BY <1>2, <1>4, <1>6 DEF Shows, num
<1>8. at <= clock BY <1>2 DEF at, Times
<1> QED BY <1>5, <1>6, <1>7, <1>8

LEMMA LockUInv ==
  ASSUME UInv, LocalOffset = 0, NEW r \in Requests, LockSequence(r)
  PROVE  UInv'
<1> USE DEF UInv
<1>1. IInv' BY LockIInv
<1>2. /\ draft'[r] \in Draft /\ draft'[r].epoch = epoch /\ draft'[r].config = config
      /\ draft' = [draft EXCEPT ![r] = draft'[r]]
  BY DraftMade
<1>3. /\ Shows(draft'[r])
      /\ draft'[r].last <= clock
      /\ \/ last = None
         \/ Period(config.policy, last) < Period(config.policy, draft'[r].last)
         \/ draft'[r].last = last /\ value < draft'[r].value
  BY DraftAfterRow
<1>4. \A s \in Requests : s # r => draft'[s] = draft[s] /\ pc'[s] = pc[s]
  BY <1>2 DEF LockSequence, IInv, TypeOK
<1>5. pc[r] = "idle" /\ pc'[r] = "locked" /\ lock = None /\ UNCHANGED <<clock, issued, epoch>>
      /\ UNCHANGED <<config, value, last>>
  BY DEF LockSequence, IInv, TypeOK, rowvars, adminvars
<1>6. DraftsShown' BY <1>3, <1>4 DEF DraftsShown, Shows
<1>7. ResetIsPast' BY <1>5 DEF ResetIsPast
<1>8. LockedAfterRow'
  <2> SUFFICES ASSUME NEW s \in Requests, pc'[s] = "locked"
               PROVE  /\ draft'[s].epoch = epoch' /\ draft'[s].config = config'
                      /\ draft'[s].last <= clock'
                      /\ \/ last' = None
                         \/ Period(config'.policy, last') < PeriodOf(s)'
                         \/ draft'[s].last = last' /\ value' < draft'[s].value
    BY DEF LockedAfterRow
  <2>1. s = r BY <1>4, <1>5, NoneAssumption DEF IInv, LockHeld
  <2> QED BY <2>1, <1>2, <1>3, <1>5 DEF PeriodOf
<1>9. IssuedBeforeRow'
  <2> SUFFICES ASSUME NEW s \in Requests, pc'[s] = "ok"
               PROVE  s # r /\ draft'[s] = draft[s] /\ pc[s] = "ok"
    BY <1>5 DEF IssuedBeforeRow, PeriodOf
  <2> QED BY <1>4, <1>5
<1>10. IssuedApart' BY <1>4, <1>5 DEF IssuedApart, PeriodOf
<1>11. IssuedIsDraft' BY <1>4, <1>5 DEF IssuedIsDraft
<1> QED BY <1>1, <1>6, <1>7, <1>8, <1>9, <1>10, <1>11

LEMMA CommitUInv ==
  ASSUME UInv, NEW r \in Requests, CommitValue(r)
  PROVE  UInv'
<1> USE DEF UInv
<1>1. IInv' BY CommitIInv
<1>2. /\ pc[r] = "locked" /\ draft[r] \in Draft /\ draft[r].epoch = epoch
      /\ draft[r].config = config /\ lock = r
      /\ draft[r].last \in Times /\ draft[r].value \in Nat /\ draft[r].last # None
  BY NoneAssumption
  DEF CommitValue, IInv, DraftCurrent, LockHeld, LockedAfterRow, Draft, Times
<1>3. \/ last = None
      \/ Period(config.policy, last) < PeriodOf(r)
      \/ draft[r].last = last /\ value < draft[r].value
  BY <1>2 DEF LockedAfterRow
<1>4. /\ value' = draft[r].value /\ last' = draft[r].last /\ pc'[r] \in {"ok", "error"}
      /\ UNCHANGED <<clock, config, draft, epoch>>
      /\ \A s \in Requests : s # r => pc'[s] = pc[s] /\ issued'[s] = issued[s]
      /\ \/ issued'[r] = draft[r].number /\ pc'[r] = "ok"
         \/ issued'[r] = issued[r]
  BY DEF CommitValue, UpdateSequenceValue, IInv, TypeOK, adminvars
<1>5. PeriodOf(r) = Period(config.policy, draft[r].last) /\ PeriodOf(r) \in Nat
  BY <1>2, PeriodTyped DEF PeriodOf
<1>6. ASSUME NEW s \in Requests, s # r, pc[s] = "ok", draft[s].epoch = epoch
      PROVE  /\ draft[s].config = config
             /\ PeriodOf(s) <= PeriodOf(r)
             /\ PeriodOf(s) = PeriodOf(r) => draft[s].value < draft[r].value
  <2>1. /\ draft[s].config = config /\ last # None
        /\ PeriodOf(s) <= Period(config.policy, last)
        /\ PeriodOf(s) = Period(config.policy, last) => draft[s].value <= value
    BY <1>6 DEF IssuedBeforeRow
  <2>2. draft[s] \in Draft BY <1>6 DEF IInv, DraftCurrent
  <2>3. draft[s].value \in Nat /\ draft[s].last \in Times BY <2>2 DEF Draft
  <2>4. PeriodOf(s) \in Nat BY <2>3, PeriodTyped DEF PeriodOf
  <2>5. last \in Times /\ value \in Nat BY <2>1 DEF IInv, TypeOK
  <2>6. Period(config.policy, last) \in Nat BY <2>5, PeriodTyped
  <2> QED BY <2>1, <2>3, <2>4, <2>5, <2>6, <1>2, <1>3, <1>5
<1>7. DraftsShown' BY <1>4 DEF DraftsShown, Shows
<1>8. ResetIsPast' BY <1>2, <1>4 DEF ResetIsPast, LockedAfterRow
<1>9. LockedAfterRow' BY <1>2, <1>4 DEF LockedAfterRow, IInv, LockHeld
<1>10. IssuedBeforeRow'
  <2> SUFFICES ASSUME NEW s \in Requests, pc'[s] = "ok"
               PROVE  /\ draft[s].epoch <= epoch
                      /\ draft[s].epoch = epoch =>
                           /\ draft[s].config = config
                           /\ draft[r].last # None
                           /\ PeriodOf(s) <= PeriodOf(r)
                           /\ PeriodOf(s) = PeriodOf(r) => draft[s].value <= draft[r].value
    BY <1>4, <1>5 DEF IssuedBeforeRow, PeriodOf
  <2>1. CASE s = r BY <2>1, <1>2, <1>5 DEF IInv, TypeOK
  <2>2. CASE s # r
    <3>1. pc[s] = "ok" /\ draft[s].epoch <= epoch /\ draft[s] \in Draft
      BY <2>2, <1>4 DEF IssuedBeforeRow, IInv, DraftCurrent
    <3>2. draft[s].value \in Nat BY <3>1 DEF Draft
    <3> QED BY <2>2, <3>1, <3>2, <1>2, <1>6
  <2> QED BY <2>1, <2>2
<1>11. IssuedApart'
  <2> SUFFICES ASSUME NEW p \in Requests, NEW s \in Requests, p # s, pc'[p] = "ok", pc'[s] = "ok",
                      draft[p].epoch = draft[s].epoch
               PROVE  /\ draft[p].config = draft[s].config
                      /\ PeriodOf(p) # PeriodOf(s) \/ draft[p].value # draft[s].value
    BY <1>4 DEF IssuedApart, PeriodOf
  <2>1. CASE p # r /\ s # r BY <2>1, <1>4 DEF IssuedApart
  <2>2. CASE p = r
    <3>1. s # r /\ pc[s] = "ok" /\ draft[s].epoch = epoch BY <2>2, <1>2, <1>4
    <3>2. draft[s] \in Draft BY <3>1 DEF IInv, DraftCurrent
    <3>3. draft[s].value \in Nat BY <3>2 DEF Draft
    <3> QED BY <2>2, <3>1, <3>3, <1>2, <1>6
  <2>3. CASE s = r
    <3>1. p # r /\ pc[p] = "ok" /\ draft[p].epoch = epoch BY <2>3, <1>2, <1>4
    <3>2. draft[p] \in Draft BY <3>1 DEF IInv, DraftCurrent
    <3>3. draft[p].value \in Nat BY <3>2 DEF Draft
    <3> QED BY <2>3, <3>1, <3>3, <1>2, <1>6
  <2> QED BY <2>1, <2>2, <2>3
<1>12. IssuedIsDraft' BY <1>2, <1>4 DEF IssuedIsDraft
<1> QED BY <1>1, <1>7, <1>8, <1>9, <1>10, <1>11, <1>12

LEMMA EndUInv ==
  ASSUME UInv, NEW r \in Requests, RollbackValue(r) \/ NoSequence(r)
  PROVE  UInv'
<1> USE DEF UInv
<1>1. IInv' BY RollbackIInv, NoSequenceIInv
<1>2. /\ pc[r] \in {"idle", "locked"} /\ pc'[r] = "error"
      /\ \A s \in Requests : s # r => pc'[s] = pc[s]
      /\ UNCHANGED <<clock, config, value, last, draft, issued, epoch>>
  BY DEF RollbackValue, NoSequence, rowvars, adminvars, IInv, TypeOK
<1>3. DraftsShown' /\ ResetIsPast' BY <1>2 DEF DraftsShown, ResetIsPast, Shows
<1>4. LockedAfterRow' BY <1>2 DEF LockedAfterRow, PeriodOf
<1>5. IssuedBeforeRow' BY <1>2 DEF IssuedBeforeRow, PeriodOf
<1>6. IssuedApart' BY <1>2 DEF IssuedApart, PeriodOf
<1>7. IssuedIsDraft' BY <1>2 DEF IssuedIsDraft
<1> QED BY <1>1, <1>3, <1>4, <1>5, <1>6, <1>7

LEMMA AdminUInv ==
  ASSUME UInv, NEW a \in Admins, Administer(a)
  PROVE  UInv'
<1> USE DEF UInv
<1>1. IInv' BY AdminIInv
<1>2. UNCHANGED <<clock, lock, pc, draft, issued>>
  BY DEF Administer, CreateSequence, ReadSequence, UpdateSequence, DeleteSequence
<1>3. \/ UNCHANGED <<config, value, last, epoch>>
      \/ lock = None /\ epoch' = epoch + 1 /\ (last' = last \/ last' = None)
  BY DEF Administer, CreateSequence, ReadSequence, UpdateSequence, DeleteSequence,
         InsertSequence, rowvars, IInv, LockHeld
<1>4. DraftsShown' /\ ResetIsPast' BY <1>2, <1>3 DEF DraftsShown, ResetIsPast, Shows
<1>5. LockedAfterRow' BY <1>2, <1>3, NoneAssumption DEF LockedAfterRow, PeriodOf, IInv, LockHeld
<1>6. IssuedBeforeRow'
  <2>1. epoch \in Nat /\ \A s \in Requests : pc[s] = "ok" => draft[s].epoch \in Nat
    BY DEF IInv, TypeOK, DraftCurrent, Draft
  <2> QED BY <1>2, <1>3, <2>1 DEF IssuedBeforeRow, PeriodOf
<1>7. IssuedApart' BY <1>2 DEF IssuedApart, PeriodOf
<1>8. IssuedIsDraft' BY <1>2 DEF IssuedIsDraft
<1> QED BY <1>1, <1>4, <1>5, <1>6, <1>7, <1>8

LEMMA NextUInv ==
  ASSUME UInv, LocalOffset = 0, [Next]_vars
  PROVE  UInv'
<1>1. IInv' BY NextIInv DEF UInv
<1>2. CASE Tick \/ UNCHANGED vars
  <2>1. /\ clock' >= clock /\ clock \in Nat /\ clock' \in Nat
        /\ UNCHANGED <<config, value, last, pc, draft, issued, epoch>>
    BY <1>2 DEF Tick, vars, UInv, IInv, TypeOK, Times, rowvars, adminvars
  <2>2. ResetIsPast' BY <2>1 DEF ResetIsPast, UInv, IInv, TypeOK, Times
  <2>3. LockedAfterRow'
    <3>1. \A r \in Requests : pc[r] = "locked" => draft[r].last \in Nat
      BY DEF UInv, IInv, DraftCurrent, Draft, Times
    <3> QED BY <2>1, <3>1 DEF UInv, LockedAfterRow, PeriodOf
  <2>4. DraftsShown' BY <2>1 DEF UInv, DraftsShown, Shows
  <2>5. IssuedBeforeRow' /\ IssuedApart' /\ IssuedIsDraft'
    BY <2>1 DEF UInv, IssuedBeforeRow, IssuedApart, IssuedIsDraft, PeriodOf
  <2> QED BY <1>1, <2>2, <2>3, <2>4, <2>5 DEF UInv
<1>3. ASSUME NEW r \in Requests, Acquire(r) PROVE UInv'
  BY <1>3, LockUInv, CommitUInv, EndUInv DEF Acquire
<1>4. ASSUME NEW a \in Admins, Administer(a) PROVE UInv'
  BY <1>4, AdminUInv
<1> QED BY <1>2, <1>3, <1>4 DEF Next, Finished

\* Between two administrative writes a series whose template shows the counter
\* and its period never gives the same number twice (AcquireNextNumber), when
\* the process runs in UTC: ShouldReset then compares the periods of one zone.
THEOREM UniqueNumbers ==
  ASSUME LocalOffset = 0
  PROVE  Spec => []UniqueWithinEpoch
<1>1. Init => UInv BY InitUInv
<1>2. UInv /\ [Next]_vars => UInv' BY NextUInv
<1>3. UInv => UniqueWithinEpoch BY UInvUnique
<1> QED BY <1>1, <1>2, <1>3, PTL DEF Spec
=============================================================================
