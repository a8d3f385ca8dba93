------------------------ MODULE DocumentEngineProofs ------------------------
(***************************************************************************)
(* TLAPS proofs about DocumentEngine, for any number of requests and        *)
(* document numbers.                                                        *)
(*                                                                         *)
(* The properties are about committed rows; what makes them inductive is    *)
(* what an open transaction holds at each stage (TxByStage), that a request *)
(* shows nothing before its commit (HiddenBeforeCommit), that a transition  *)
(* in flight has a committed document (MoveLoaded), and that a number is    *)
(* held from the insert on, not from the commit on (NumbersHeld).           *)
(***************************************************************************)
EXTENDS DocumentEngine, TLAPS

InFlight == {"update", "record", "outbox", "audit", "commit"}

\* The steps a request of each kind goes through.
Stages ==
  /\ \A c \in Creates : pc[c] \in {"idle", "check", "insert", "lines", "outbox",
                                   "audit", "commit", "ok", "error"}
  /\ \A m \in Moves : pc[m] \in {"idle", "update", "record", "outbox",
                                 "audit", "commit", "refresh", "ok", "error"}

\* The rows of the aggregate itself.
Aggregate(r) == IF r \in Creates THEN {"documents", "lines"}
                                 ELSE {"documents", "transitions"}

\* What the transaction of a request holds, by the stage it has reached.
TxByStage ==
  \A r \in Requests :
    /\ pc[r] \in {"idle", "check", "insert", "update", "refresh", "ok", "error"}
         => tx[r] = {}
    /\ pc[r] \in {"lines", "record"} => tx[r] = {"documents"}
    /\ pc[r] = "outbox" => tx[r] = Aggregate(r)
    /\ pc[r] = "audit" => tx[r] = Aggregate(r) \cup {"outbox"}
    /\ pc[r] = "commit" => tx[r] = Aggregate(r) \cup {"outbox", "audit"}

\* Nothing of a request is visible before its commit.
HiddenBeforeCommit ==
  \A r \in Requests :
    pc[r] \notin {"ok", "refresh", "error"} => ~ Visible(r) /\ r \notin outbox

\* A transition in flight was validated against a committed document.
MoveLoaded ==
  \A m \in Moves : pc[m] \in InFlight =>
    /\ move[m] \in MoveCommand
    /\ status[move[m].doc] # Absent
    /\ IsValidTransition(move[m].from, move[m].to)

\* A number is held by the document that inserted it, committed or not.
Holds(c) == status[c] # Absent \/ "documents" \in tx[c]

NumbersHeld ==
  \A c, d \in Creates : Holds(c) /\ Holds(d) /\ number[c] = number[d] => c = d

\* The inductive invariant.
IInv ==
  /\ TypeOK
  /\ Stages
  /\ TxByStage
  /\ AtomicallyCoupled
  /\ HiddenBeforeCommit
  /\ MoveLoaded
  /\ NumbersHeld

-----------------------------------------------------------------------------
(* Facts the steps share.                                                  *)

\* Appending x adds x to the elements of a sequence and nothing else.
LEMMA AppendElements ==
  ASSUME NEW S, NEW s \in Seq(S), NEW x \in S, NEW y
  PROVE  (\E i \in DOMAIN Append(s, x) : Append(s, x)[i] = y)
           <=> (y = x \/ \E i \in DOMAIN s : s[i] = y)
<1>1. DOMAIN Append(s, x) = 1 .. Len(s) + 1 /\ DOMAIN s = 1 .. Len(s) /\ Len(s) \in Nat
  OBVIOUS
<1>2. \A i \in 1 .. Len(s) : Append(s, x)[i] = s[i]
  OBVIOUS
<1>3. Append(s, x)[Len(s) + 1] = x
  OBVIOUS
<1> QED BY <1>1, <1>2, <1>3

\* Every stage is a known step.
LEMMA KindsOfRequests ==
  ASSUME NEW r \in Requests
  PROVE  (r \in Creates /\ r \notin Moves) \/ (r \in Moves /\ r \notin Creates)
BY RequestsDisjoint DEF Requests

\* While the tables stand still, so does what is visible.
LEMMA VisibleStable ==
  ASSUME UNCHANGED tables
  PROVE  \A r : Visible(r)' <=> Visible(r)
BY DEF Visible, tables

\* The initial states satisfy the inductive invariant.
LEMMA InitIInv == Init => IInv
<1> SUFFICES ASSUME Init PROVE IInv
  OBVIOUS
<1>1. TypeOK
  BY DEF Init, TypeOK, PCs, Requests
<1>2. \A r \in Requests : ~ Visible(r)
  BY DEF Init, Visible
<1>3. Stages /\ TxByStage /\ HiddenBeforeCommit /\ MoveLoaded /\ NumbersHeld
  BY <1>2 DEF Init, Stages, TxByStage, HiddenBeforeCommit, MoveLoaded, NumbersHeld,
              Holds, InFlight, Requests
<1>4. AtomicallyCoupled
  BY <1>2 DEF Init, AtomicallyCoupled, Requests
<1> QED BY <1>1, <1>3, <1>4 DEF IInv

\* A write inside the transaction preserves the invariant when it puts the
\* transaction in the state the next stage expects.
LEMMA WriteKeepsIInv ==
  ASSUME IInv, NEW r \in Requests, NEW t \in Tables, NEW next \in PCs,
         Write(r, t, next),
         pc[r] \notin {"idle", "ok", "refresh", "error"},
         next \in {"lines", "record", "outbox", "audit", "commit"},
         r \in Creates => next # "record",
         r \in Moves => next # "lines" /\ pc[r] \in InFlight,
         next \in {"lines", "record"} => tx[r] \cup {t} = {"documents"},
         next = "outbox" => tx[r] \cup {t} = Aggregate(r),
         next = "audit" => tx[r] \cup {t} = Aggregate(r) \cup {"outbox"},
         next = "commit" => tx[r] \cup {t} = Aggregate(r) \cup {"outbox", "audit"},
         r \in Creates /\ t = "documents" => ~ KeyLocked(r) /\ ~ KeyTaken(r)
  PROVE  IInv'
<1> USE DEF IInv
<1>0. /\ tx' = [tx EXCEPT ![r] = @ \cup {t}]
      /\ pc' = [pc EXCEPT ![r] = next]
      /\ UNCHANGED <<number, move, status, lines, history, outbox, audit, raced>>
  BY DEF Write, tables
<1>v. \A q : Visible(q)' <=> Visible(q)
  BY <1>0, VisibleStable DEF tables
<1>1. TypeOK' BY <1>0 DEF TypeOK
<1>2. Stages' BY <1>0, KindsOfRequests DEF TypeOK, Stages, Requests
<1>3. TxByStage' BY <1>0 DEF TypeOK, TxByStage, Aggregate
<1>4. AtomicallyCoupled' BY <1>0, <1>v DEF TypeOK, AtomicallyCoupled
<1>5. HiddenBeforeCommit' BY <1>0, <1>v DEF TypeOK, HiddenBeforeCommit
<1>6. MoveLoaded'
  BY <1>0, RequestsDisjoint DEF TypeOK, MoveLoaded, InFlight, Requests
<1>7. NumbersHeld'
  BY <1>0, RequestsDisjoint
  DEF TypeOK, NumbersHeld, Holds, KeyLocked, KeyTaken, Requests
<1> QED BY <1>1, <1>2, <1>3, <1>4, <1>5, <1>6, <1>7

\* Giving up preserves the invariant: the rollback drops what was not committed.
LEMMA GiveUpKeepsIInv ==
  ASSUME IInv, NEW r \in Requests, GiveUp(r), UNCHANGED <<number, move, tables, raced>>
  PROVE  IInv'
<1> USE DEF IInv
<1>0. /\ tx' = [tx EXCEPT ![r] = {}]
      /\ pc' = [pc EXCEPT ![r] = "error"]
      /\ UNCHANGED <<number, move, status, lines, history, outbox, audit, raced>>
  BY DEF GiveUp, tables
<1>v. \A q : Visible(q)' <=> Visible(q)
  BY <1>0, VisibleStable DEF tables
<1>1. TypeOK' BY <1>0 DEF TypeOK, PCs
<1>2. Stages' BY <1>0, KindsOfRequests DEF TypeOK, Stages, Requests
<1>3. TxByStage' BY <1>0 DEF TypeOK, TxByStage, Aggregate
<1>4. AtomicallyCoupled' BY <1>0, <1>v DEF TypeOK, AtomicallyCoupled
<1>5. HiddenBeforeCommit' BY <1>0, <1>v DEF TypeOK, HiddenBeforeCommit
<1>6. MoveLoaded' BY <1>0 DEF TypeOK, MoveLoaded, InFlight, Requests
<1>7. NumbersHeld' BY <1>0 DEF TypeOK, NumbersHeld, Holds, Requests
<1> QED BY <1>1, <1>2, <1>3, <1>4, <1>5, <1>6, <1>7

\* What a commit shows: the rows of r, and no other request's.
LEMMA CommitShows ==
  ASSUME IInv, NEW r \in Requests, pc[r] = "commit", ApplyTx(r)
  PROVE  /\ \A q \in Requests : Visible(q)' <=> (Visible(q) \/ q = r)
         /\ outbox' = outbox \cup {r}
         /\ audit' = audit \cup {r}
         /\ lines' = IF r \in Creates THEN lines \cup {r} ELSE lines
         /\ \A c \in Creates : status'[c] # Absent <=> (status[c] # Absent \/ c = r)
<1> USE DEF IInv
<1>1. tx[r] = Aggregate(r) \cup {"outbox", "audit"}
  BY DEF TxByStage
<1>2. /\ outbox' = outbox \cup {r}
      /\ audit' = audit \cup {r}
      /\ lines' = IF r \in Creates THEN lines \cup {r} ELSE lines
  BY <1>1 DEF ApplyTx, Aggregate
<1>3. CASE r \in Creates
  <2>1. /\ status' = [c \in Creates |-> IF r = c THEN "draft" ELSE status[c]]
        /\ history' = history
    BY <1>1, <1>3, RequestsDisjoint DEF ApplyTx, Aggregate, TypeOK
  <2>2. \A c \in Creates : status'[c] # Absent <=> (status[c] # Absent \/ c = r)
    BY <2>1 DEF Absent
  <2>3. \A q \in Requests : Visible(q)' <=> (Visible(q) \/ q = r)
    BY <1>3, <2>1, <2>2, RequestsDisjoint DEF Visible, Requests
  <2> QED BY <1>2, <2>2, <2>3
<1>4. CASE r \in Moves
  <2>0. r \notin Creates BY <1>4, RequestsDisjoint
  <2>1. /\ move[r] \in MoveCommand
        /\ status[move[r].doc] # Absent
        /\ move[r].doc \in Creates
        /\ move[r].to \in Statuses
    BY <1>4 DEF MoveLoaded, InFlight, MoveCommand
  <2>2. /\ status' = [c \in Creates |-> IF move[r].doc = c THEN move[r].to ELSE status[c]]
        /\ history' = [c \in Creates |->
             IF move[r].doc = c THEN Append(history[c], r) ELSE history[c]]
    BY <1>1, <1>4, <2>0 DEF ApplyTx, Aggregate
  <2>3. \A c \in Creates : status'[c] # Absent <=> (status[c] # Absent \/ c = r)
    BY <2>0, <2>1, <2>2 DEF Absent, Statuses
  <2>4. \A c \in Creates, q \in Moves :
          (\E i \in DOMAIN history'[c] : history'[c][i] = q)
            <=> (\/ \E i \in DOMAIN history[c] : history[c][i] = q
                 \/ q = r /\ c = move[r].doc)
    <3> TAKE c \in Creates, q \in Moves
    <3>1. history[c] \in Seq(Moves) BY DEF TypeOK
    <3>2. CASE c = move[r].doc
      <4>1. history'[c] = Append(history[c], r) BY <2>2, <3>2
      <4>2. ASSUME NEW s \in Seq(Moves)
            PROVE (\E i \in DOMAIN Append(s, r) : Append(s, r)[i] = q)
                    <=> (q = r \/ \E i \in DOMAIN s : s[i] = q)
        BY <1>4, AppendElements
      <4> QED BY <3>1, <3>2, <4>1, <4>2, Zenon
    <3>3. CASE c # move[r].doc BY <2>2, <3>3
    <3> QED BY <3>2, <3>3
  <2>5. \A q \in Moves : Visible(q)' <=> (Visible(q) \/ q = r)
    BY <2>1, <2>4, RequestsDisjoint DEF Visible
  <2>6. \A q \in Creates : Visible(q)' <=> (Visible(q) \/ q = r)
    BY <2>0, <2>3, RequestsDisjoint DEF Visible
  <2> QED BY <1>2, <2>3, <2>5, <2>6 DEF Requests
<1> QED BY <1>3, <1>4 DEF Requests

\* Committing preserves the invariant.
LEMMA CommitKeepsIInv ==
  ASSUME IInv, NEW r \in Requests, Commit(r)
  PROVE  IInv'
<1> USE DEF IInv
<1>0. PICK answer \in {IF r \in Moves THEN "refresh" ELSE "ok", "error"} :
        pc' = [pc EXCEPT ![r] = answer]
  BY DEF Commit
<1>1. /\ pc[r] = "commit" /\ ApplyTx(r)
      /\ tx' = [tx EXCEPT ![r] = {}]
      /\ UNCHANGED <<number, move, raced>>
  BY DEF Commit
<1>s. /\ \A q \in Requests : Visible(q)' <=> (Visible(q) \/ q = r)
      /\ outbox' = outbox \cup {r}
      /\ audit' = audit \cup {r}
      /\ lines' = IF r \in Creates THEN lines \cup {r} ELSE lines
      /\ \A c \in Creates : status'[c] # Absent <=> (status[c] # Absent \/ c = r)
  BY <1>1, CommitShows
<1>m. r \in Moves => move[r].doc \in Creates /\ move[r].to \in Statuses
  BY <1>1 DEF MoveLoaded, InFlight, MoveCommand
<1>2. TypeOK'
  <2>1. status' \in [Creates -> Statuses \cup {Absent}]
    BY <1>1, <1>m DEF ApplyTx, TypeOK, Statuses
  <2>2. history' \in [Creates -> Seq(Moves)]
    BY <1>1 DEF ApplyTx, TypeOK
  <2>3. pc' \in [Requests -> PCs] BY <1>0 DEF TypeOK, PCs
  <2>4. outbox' \subseteq Requests /\ audit' \subseteq Requests /\ lines' \subseteq Creates
    BY <1>s DEF TypeOK
  <2> QED BY <1>1, <2>1, <2>2, <2>3, <2>4 DEF TypeOK
<1>3. Stages' BY <1>0, KindsOfRequests DEF TypeOK, Stages, Requests
<1>4. TxByStage' BY <1>0, <1>1 DEF TypeOK, TxByStage, Aggregate
<1>5. AtomicallyCoupled'
  <2> SUFFICES ASSUME NEW q \in Requests
               PROVE  /\ Visible(q)' <=> q \in outbox'
                      /\ q \in outbox' <=> q \in audit'
                      /\ q \in Creates => (Visible(q)' <=> q \in lines')
                      /\ pc'[q] \in {"ok", "refresh"} => Visible(q)'
    BY DEF AtomicallyCoupled
  <2>1. pc'[q] \in {"ok", "refresh"} => Visible(q)'
    BY <1>0, <1>s DEF TypeOK, AtomicallyCoupled
  <2>2. /\ Visible(q)' <=> q \in outbox'
        /\ q \in outbox' <=> q \in audit'
        /\ q \in Creates => (Visible(q)' <=> q \in lines')
    BY <1>s DEF AtomicallyCoupled
  <2> QED BY <2>1, <2>2
<1>6. HiddenBeforeCommit' BY <1>0, <1>s DEF TypeOK, HiddenBeforeCommit
<1>7. MoveLoaded'
  BY <1>0, <1>1, <1>s DEF TypeOK, MoveLoaded, InFlight, MoveCommand, Requests
<1>8. NumbersHeld'
  BY <1>1, <1>s DEF TypeOK, NumbersHeld, Holds, Requests, TxByStage, Aggregate
<1> QED BY <1>2, <1>3, <1>4, <1>5, <1>6, <1>7, <1>8

\* Every step preserves the inductive invariant.
LEMMA NextIInv == IInv /\ [Next]_vars => IInv'
<1> SUFFICES ASSUME IInv, [Next]_vars PROVE IInv'
  OBVIOUS
<1> USE DEF IInv
<1>1. ASSUME NEW c \in Creates, StartCreate(c) PROVE IInv'
  <2>0. PICK n \in Numbers : number' = [number EXCEPT ![c] = n]
    BY <1>1 DEF StartCreate
  <2>1. /\ pc[c] = "idle" /\ pc' = [pc EXCEPT ![c] = "check"]
        /\ UNCHANGED <<move, tx, status, lines, history, outbox, audit, raced>>
    BY <1>1 DEF StartCreate, tables
  <2>v. \A q : Visible(q)' <=> Visible(q) BY <2>1, VisibleStable DEF tables
  <2>2. TypeOK' BY <2>0, <2>1 DEF TypeOK, PCs, Requests
  <2>3. Stages' BY <2>1, RequestsDisjoint DEF TypeOK, Stages, Requests
  <2>4. TxByStage' BY <2>1 DEF TypeOK, TxByStage, Aggregate, Requests
  <2>5. AtomicallyCoupled' BY <2>1, <2>v DEF TypeOK, AtomicallyCoupled, Requests
  <2>6. HiddenBeforeCommit' BY <2>1, <2>v DEF TypeOK, HiddenBeforeCommit, Requests
  <2>7. MoveLoaded' BY <2>1, RequestsDisjoint DEF TypeOK, MoveLoaded, InFlight, Requests
  <2>8. ~ Holds(c)
    BY <2>1 DEF Holds, HiddenBeforeCommit, Visible, TxByStage, Requests
  <2>9. NumbersHeld' BY <2>0, <2>1, <2>8 DEF TypeOK, NumbersHeld, Holds
  <2> QED BY <2>2, <2>3, <2>4, <2>5, <2>6, <2>7, <2>9
<1>2. ASSUME NEW c \in Creates, CheckNumber(c) PROVE IInv'
  <2>1. CASE GiveUp(c) BY <1>2, <2>1, GiveUpKeepsIInv DEF CheckNumber, Requests
  <2>2. CASE pc' = [pc EXCEPT ![c] = "insert"] /\ UNCHANGED tx
    <3>1. pc[c] = "check" /\ UNCHANGED <<number, move, status, lines, history, outbox, audit, raced>>
      BY <1>2 DEF CheckNumber, tables
    <3>v. \A q : Visible(q)' <=> Visible(q) BY <3>1, VisibleStable DEF tables
    <3>2. TypeOK' BY <2>2, <3>1 DEF TypeOK, PCs, Requests
    <3>3. Stages' BY <2>2, RequestsDisjoint DEF TypeOK, Stages, Requests
    <3>4. TxByStage' BY <2>2, <3>1 DEF TypeOK, TxByStage, Aggregate, Requests
    <3>5. AtomicallyCoupled' BY <2>2, <3>1, <3>v DEF TypeOK, AtomicallyCoupled, Requests
    <3>6. HiddenBeforeCommit' BY <2>2, <3>1, <3>v DEF TypeOK, HiddenBeforeCommit, Requests
    <3>7. MoveLoaded'
      BY <2>2, <3>1, RequestsDisjoint DEF TypeOK, MoveLoaded, InFlight, Requests
    <3>8. NumbersHeld' BY <2>2, <3>1 DEF NumbersHeld, Holds
    <3> QED BY <3>2, <3>3, <3>4, <3>5, <3>6, <3>7, <3>8
  <2> QED BY <1>2, <2>1, <2>2 DEF CheckNumber
<1>3. ASSUME NEW c \in Creates, InsertDocument(c) PROVE IInv'
  <2>1. CASE KeyTaken(c)
    BY <1>3, <2>1, GiveUpKeepsIInv DEF InsertDocument, Requests
  <2>2. CASE ~ KeyTaken(c)
    <3>1. pc[c] = "insert" /\ ~ KeyLocked(c) /\ Write(c, "documents", "lines")
      BY <1>3, <2>2 DEF InsertDocument
    <3>2. tx[c] = {} BY <3>1 DEF TxByStage, Requests
    <3> QED BY <2>2, <3>1, <3>2, RequestsDisjoint, WriteKeepsIInv DEF Requests, Tables, PCs
  <2> QED BY <2>1, <2>2
<1>4. ASSUME NEW c \in Creates, CreateLines(c) PROVE IInv'
  <2>1. pc[c] = "lines" /\ Write(c, "lines", "outbox") BY <1>4 DEF CreateLines
  <2>2. tx[c] = {"documents"} BY <2>1 DEF TxByStage, Requests
  <2>3. tx[c] \cup {"lines"} = Aggregate(c) BY <2>2 DEF Aggregate
  <2> QED BY <2>1, <2>3, RequestsDisjoint, WriteKeepsIInv DEF Requests, Tables, PCs
<1>5. ASSUME NEW m \in Moves, LoadDocument(m) PROVE IInv'
  <2>1. CASE GiveUp(m) /\ UNCHANGED <<number, move, tables, raced>>
    BY <2>1, GiveUpKeepsIInv DEF Requests
  <2>2. ASSUME NEW c \in Creates, NEW to \in Statuses,
               status[c] # Absent, ValidateTransition(status[c], to),
               move' = [move EXCEPT ![m] = [doc |-> c, from |-> status[c], to |-> to]],
               raced' \in {raced, raced \cup {c}},
               pc' = [pc EXCEPT ![m] = "update"],
               UNCHANGED <<number, tx, tables>>
        PROVE IInv'
    <3>0. UNCHANGED <<number, tx, status, lines, history, outbox, audit>>
      BY <2>2 DEF tables
    <3>1. pc[m] = "idle" BY <1>5 DEF LoadDocument
    <3>c. [doc |-> c, from |-> status[c], to |-> to] \in MoveCommand
      BY <2>2 DEF TypeOK, MoveCommand
    <3>v. \A q : Visible(q)' <=> Visible(q) BY <2>2, VisibleStable
    <3>i. IsValidTransition(status[c], to) BY <2>2 DEF ValidateTransition
    <3>2. TypeOK' BY <2>2, <3>0, <3>c DEF TypeOK, PCs, Requests
    <3>3. Stages' BY <2>2, RequestsDisjoint DEF TypeOK, Stages, Requests
    <3>4. TxByStage' BY <2>2, <3>0, <3>1 DEF TypeOK, TxByStage, Aggregate, Requests
    <3>5. AtomicallyCoupled'
      BY <2>2, <3>0, <3>v DEF TypeOK, AtomicallyCoupled, Requests
    <3>6. HiddenBeforeCommit'
      BY <2>2, <3>0, <3>1, <3>v DEF TypeOK, HiddenBeforeCommit, Requests
    <3>7. MoveLoaded'
      BY <2>2, <3>0, <3>c, <3>i DEF TypeOK, MoveLoaded, InFlight, Requests
    <3>8. NumbersHeld' BY <3>0 DEF NumbersHeld, Holds
    <3> QED BY <3>2, <3>3, <3>4, <3>5, <3>6, <3>7, <3>8
  <2> QED BY <1>5, <2>1, <2>2 DEF LoadDocument
<1>6. ASSUME NEW m \in Moves, UpdateDocumentStatus(m) PROVE IInv'
  <2>1. pc[m] = "update" /\ Write(m, "documents", "record")
    BY <1>6 DEF UpdateDocumentStatus
  <2>2. tx[m] = {} BY <2>1 DEF TxByStage, Requests
  <2> QED BY <2>1, <2>2, RequestsDisjoint, WriteKeepsIInv DEF Requests, Tables, PCs, InFlight
<1>7. ASSUME NEW m \in Moves, RecordTransition(m) PROVE IInv'
  <2>1. pc[m] = "record" /\ Write(m, "transitions", "outbox")
    BY <1>7 DEF RecordTransition
  <2>2. tx[m] = {"documents"} BY <2>1 DEF TxByStage, Requests
  <2>3. tx[m] \cup {"transitions"} = Aggregate(m)
    BY <2>2, RequestsDisjoint DEF Aggregate
  <2> QED BY <2>1, <2>3, RequestsDisjoint, WriteKeepsIInv DEF Requests, Tables, PCs, InFlight
<1>8. ASSUME NEW m \in Moves, Refresh(m) PROVE IInv'
  <2>1. /\ pc[m] = "refresh" /\ pc' = [pc EXCEPT ![m] = "ok"]
        /\ UNCHANGED <<number, move, tx, status, lines, history, outbox, audit, raced>>
    BY <1>8 DEF Refresh, tables
  <2>v. \A q : Visible(q)' <=> Visible(q) BY <2>1, VisibleStable DEF tables
  <2>2. TypeOK' BY <2>1 DEF TypeOK, PCs, Requests
  <2>3. Stages' BY <2>1, RequestsDisjoint DEF TypeOK, Stages, Requests
  <2>4. TxByStage' BY <2>1 DEF TypeOK, TxByStage, Aggregate, Requests
  <2>5. AtomicallyCoupled' BY <2>1, <2>v DEF TypeOK, AtomicallyCoupled, Requests
  <2>6. HiddenBeforeCommit' BY <2>1, <2>v DEF TypeOK, HiddenBeforeCommit, Requests
  <2>7. MoveLoaded' BY <2>1 DEF TypeOK, MoveLoaded, InFlight, Requests
  <2>8. NumbersHeld' BY <2>1 DEF NumbersHeld, Holds
  <2> QED BY <2>2, <2>3, <2>4, <2>5, <2>6, <2>7, <2>8
<1>9. ASSUME NEW r \in Requests, CreateOutboxEvent(r) PROVE IInv'
  <2>1. pc[r] = "outbox" /\ Write(r, "outbox", "audit") BY <1>9 DEF CreateOutboxEvent
  <2>2. tx[r] \cup {"outbox"} = Aggregate(r) \cup {"outbox"} BY <2>1 DEF TxByStage
  <2> QED BY <2>1, <2>2, WriteKeepsIInv DEF Tables, PCs, InFlight
<1>10. ASSUME NEW r \in Requests, CreateAuditLog(r) PROVE IInv'
  <2>1. pc[r] = "audit" /\ Write(r, "audit", "commit") BY <1>10 DEF CreateAuditLog
  <2>2. tx[r] \cup {"audit"} = Aggregate(r) \cup {"outbox", "audit"}
    BY <2>1 DEF TxByStage
  <2> QED BY <2>1, <2>2, WriteKeepsIInv DEF Tables, PCs, InFlight
<1>11. ASSUME NEW r \in Requests, Commit(r) PROVE IInv' BY <1>11, CommitKeepsIInv
<1>12. ASSUME NEW r \in Requests, Fail(r) PROVE IInv'
  BY <1>12, GiveUpKeepsIInv DEF Fail
<1>13. CASE UNCHANGED vars
  <2>1. UNCHANGED <<pc, number, move, tx, status, lines, history, outbox, audit, raced>>
    BY <1>13 DEF vars
  <2>v. \A q : Visible(q)' <=> Visible(q) BY <2>1, VisibleStable DEF tables
  <2>2. TypeOK' /\ Stages' /\ TxByStage' /\ MoveLoaded' /\ NumbersHeld'
    BY <2>1 DEF TypeOK, Stages, TxByStage, Aggregate, MoveLoaded, NumbersHeld, Holds
  <2>3. AtomicallyCoupled' /\ HiddenBeforeCommit'
    BY <2>1, <2>v DEF AtomicallyCoupled, HiddenBeforeCommit
  <2> QED BY <2>2, <2>3
<1> QED
  BY <1>1, <1>2, <1>3, <1>4, <1>5, <1>6, <1>7, <1>8, <1>9, <1>10, <1>11, <1>12, <1>13
  DEF Next, CreateStep, MoveStep, TxStep, Finished

\* The inductive invariant holds in every reachable state.
LEMMA AlwaysIInv == Spec => []IInv
BY InitIInv, NextIInv, PTL DEF Spec

\* Every reachable state of the document engine is well typed.
THEOREM TypeCorrect == Spec => []TypeOK
<1>1. IInv => TypeOK BY DEF IInv
<1> QED BY AlwaysIInv, <1>1, PTL

\* The change of the aggregate, its outbox event and its audit entry become
\* visible together or not at all, whatever request fails and wherever.
THEOREM Coupled == Spec => []AtomicallyCoupled
<1>1. IInv => AtomicallyCoupled BY DEF IInv
<1> QED BY AlwaysIInv, <1>1, PTL

\* No two committed documents share a number, however the checks interleave.
THEOREM NumbersUnique == Spec => []UniqueNumbers
<1>1. IInv => UniqueNumbers BY DEF IInv, NumbersHeld, Holds, UniqueNumbers
<1> QED BY AlwaysIInv, <1>1, PTL

-----------------------------------------------------------------------------
(* The workflow.  PathUnlessRaced needs, for a document nobody raced on, at *)
(* most one transition in flight, and that its reading is still current.    *)

AloneInFlight ==
  \A c \in Creates \ raced : \A m, n \in Moves :
    Transitioning(m, c) /\ Transitioning(n, c) => m = n

ReadingCurrent ==
  \A c \in Creates \ raced : \A m \in Moves :
    Transitioning(m, c) => move[m].from = status[c]

NoEarlyHistory == \A c \in Creates : status[c] = Absent => history[c] = <<>>

PathInv == AloneInFlight /\ ReadingCurrent /\ NoEarlyHistory /\ PathUnlessRaced

\* The initial states satisfy it.
LEMMA InitPath == Init => PathInv
BY DEF Init, PathInv, AloneInFlight, ReadingCurrent, NoEarlyHistory, PathUnlessRaced,
       Transitioning, Requests

\* A step that touches no document and puts no transition in flight keeps it.
LEMMA QuietKeepsPath ==
  ASSUME PathInv, UNCHANGED <<move, status, history, raced>>,
         \A m \in Moves : pc'[m] \in InFlight => pc[m] \in InFlight
  PROVE  PathInv'
<1>1. \A m \in Moves, c \in Creates : Transitioning(m, c)' => Transitioning(m, c)
  BY DEF Transitioning, InFlight
<1>2. AloneInFlight' BY <1>1 DEF PathInv, AloneInFlight
<1>3. ReadingCurrent' BY <1>1 DEF PathInv, ReadingCurrent
<1>4. NoEarlyHistory' BY DEF PathInv, NoEarlyHistory
<1>5. \A c \in Creates : HistoryIsPath(c)' <=> HistoryIsPath(c) BY DEF HistoryIsPath
<1>6. PathUnlessRaced' BY <1>5 DEF PathInv, PathUnlessRaced
<1> QED BY <1>2, <1>3, <1>4, <1>6 DEF PathInv

\* A transition that has a row in a history is no longer idle nor in flight.
LEMMA RecordedIsOver ==
  ASSUME IInv, NEW c \in Creates, NEW i \in DOMAIN history[c]
  PROVE  /\ history[c][i] \in Moves
         /\ pc[history[c][i]] \notin InFlight \cup {"idle"}
<1>1. history[c][i] \in Moves BY DEF IInv, TypeOK
<1>2. Visible(history[c][i]) BY <1>1 DEF Visible
<1> QED BY <1>1, <1>2 DEF IInv, HiddenBeforeCommit, InFlight, Requests

\* TransitionDocument reads a document: a second reader marks it as raced.
LEMMA LoadKeepsPath ==
  ASSUME IInv, PathInv, NEW m \in Moves, NEW c \in Creates, NEW to \in Statuses,
         pc[m] = "idle", status[c] # Absent,
         move' = [move EXCEPT ![m] = [doc |-> c, from |-> status[c], to |-> to]],
         raced' = IF \E n \in Moves \ {m} : Transitioning(n, c)
                    THEN raced \cup {c} ELSE raced,
         pc' = [pc EXCEPT ![m] = "update"],
         UNCHANGED tables
  PROVE  PathInv'
<1>0. UNCHANGED <<status, history>> BY DEF tables
<1>t. /\ pc \in [Requests -> PCs] /\ move \in [Moves -> MoveCommand \cup {None}]
      /\ m \in Requests /\ Moves \subseteq Requests
  BY DEF IInv, TypeOK, Requests
<1>1. \A n \in Moves \ {m}, d \in Creates : Transitioning(n, d)' <=> Transitioning(n, d)
  BY <1>t DEF Transitioning
<1>2. \A d \in Creates : Transitioning(m, d)' <=> d = c
  BY <1>t DEF Transitioning
<1>3. AloneInFlight' BY <1>1, <1>2 DEF PathInv, AloneInFlight
<1>4. ReadingCurrent' BY <1>0, <1>1, <1>2, <1>t DEF PathInv, ReadingCurrent
<1>5. NoEarlyHistory' BY <1>0 DEF PathInv, NoEarlyHistory
<1>6. \A d \in Creates : \A i \in DOMAIN history[d] : move'[history[d][i]] = move[history[d][i]]
  BY <1>t, RecordedIsOver
<1>7. \A d \in Creates : history[d] \in Seq(Moves) BY DEF IInv, TypeOK
<1>8. ASSUME NEW d \in Creates, HistoryIsPath(d) PROVE HistoryIsPath(d)'
  <2>1. \A i \in DOMAIN history[d] : i # 1 => i - 1 \in DOMAIN history[d]
    BY <1>7
  <2>2. history[d] # <<>> => Len(history[d]) \in DOMAIN history[d]
    BY <1>7
  <2> QED BY <1>0, <1>6, <1>8, <2>1, <2>2 DEF HistoryIsPath
<1>9. PathUnlessRaced' BY <1>0, <1>8 DEF PathInv, PathUnlessRaced
<1> QED BY <1>3, <1>4, <1>5, <1>9 DEF PathInv

\* A commit extends the path of its document by a step that starts where the
\* path ended, unless the document is raced.
LEMMA CommitKeepsPath ==
  ASSUME IInv, PathInv, NEW r \in Requests, Commit(r)
  PROVE  PathInv'
<1>0. /\ pc[r] = "commit" /\ ApplyTx(r) /\ UNCHANGED <<move, raced>>
      /\ tx[r] = Aggregate(r) \cup {"outbox", "audit"}
  BY DEF Commit, IInv, TxByStage
<1>t. /\ pc \in [Requests -> PCs]
      /\ Moves \subseteq Requests
      /\ \A c \in Creates : history[c] \in Seq(Moves)
  BY DEF IInv, TypeOK, Requests
<1>1. \A m \in Moves, c \in Creates : Transitioning(m, c)' <=> (Transitioning(m, c) /\ m # r)
  <2>1. PICK answer \in {"refresh", "ok", "error"} : pc' = [pc EXCEPT ![r] = answer]
    BY DEF Commit
  <2> QED BY <1>0, <1>t, <2>1 DEF Transitioning
<1>2. AloneInFlight' BY <1>0, <1>1 DEF PathInv, AloneInFlight
<1>3. CASE r \in Creates
  <2>1. /\ status' = [c \in Creates |-> IF r = c THEN "draft" ELSE status[c]]
        /\ history' = history
    BY <1>0, <1>3, RequestsDisjoint DEF ApplyTx, Aggregate, IInv, TypeOK
  <2>2. status[r] = Absent
    BY <1>0, <1>3 DEF IInv, HiddenBeforeCommit, Visible
  <2>3. \A m \in Moves : ~ Transitioning(m, r)
    BY <2>2 DEF IInv, MoveLoaded, Transitioning, InFlight
  <2>4. ReadingCurrent' BY <1>0, <1>1, <2>1, <2>3 DEF PathInv, ReadingCurrent
  <2>5. NoEarlyHistory' BY <2>1 DEF PathInv, NoEarlyHistory, Absent
  <2>6. HistoryIsPath(r)'
    BY <1>3, <2>1, <2>2 DEF PathInv, NoEarlyHistory, HistoryIsPath
  <2>7. \A c \in Creates \ {r} : HistoryIsPath(c)' <=> HistoryIsPath(c)
    BY <1>0, <2>1 DEF HistoryIsPath
  <2>8. PathUnlessRaced' BY <1>0, <2>1, <2>6, <2>7 DEF PathInv, PathUnlessRaced
  <2> QED BY <1>2, <2>4, <2>5, <2>8 DEF PathInv
<1>4. CASE r \in Moves
  <2>0. r \notin Creates BY <1>4, RequestsDisjoint
  <2>d. PICK d \in Creates : d = move[r].doc
    BY <1>0, <1>4 DEF IInv, MoveLoaded, InFlight, MoveCommand
  <2>m. /\ status[d] # Absent /\ move[r].to \in Statuses
        /\ IsValidTransition(move[r].from, move[r].to)
        /\ Transitioning(r, d)
    BY <1>0, <1>4, <2>d DEF IInv, MoveLoaded, InFlight, MoveCommand, Transitioning
  <2>1. /\ status' = [c \in Creates |-> IF d = c THEN move[r].to ELSE status[c]]
        /\ history' = [c \in Creates |-> IF d = c THEN Append(history[c], r) ELSE history[c]]
    BY <1>0, <1>4, <2>0, <2>d DEF ApplyTx, Aggregate
  <2>2. d \notin raced => \A m \in Moves : ~ Transitioning(m, d)'
    BY <1>1, <1>4, <2>m DEF PathInv, AloneInFlight
  <2>3. ReadingCurrent' BY <1>0, <1>1, <2>1, <2>2 DEF PathInv, ReadingCurrent
  <2>4. NoEarlyHistory' BY <2>1, <2>m DEF PathInv, NoEarlyHistory, Absent, Statuses
  <2>5. ASSUME d \notin raced PROVE HistoryIsPath(d)'
    <3> DEFINE h == history[d]
               k == Append(h, r)
    <3>1. HistoryIsPath(d) /\ move[r].from = status[d]
      BY <1>4, <2>m, <2>5 DEF PathInv, PathUnlessRaced, ReadingCurrent
    <3>2. h \in Seq(Moves) /\ history'[d] = k BY <1>t, <2>1, <2>m
    <3>3. /\ \A i \in DOMAIN h :
                /\ IsValidTransition(move[h[i]].from, move[h[i]].to)
                /\ move[h[i]].from = (IF i = 1 THEN "draft" ELSE move[h[i - 1]].to)
          /\ move[r].from = (IF h = <<>> THEN "draft" ELSE move[h[Len(h)]].to)
      BY <3>1 DEF HistoryIsPath
    <3>4. /\ DOMAIN h = 1 .. Len(h) /\ DOMAIN k = 1 .. Len(h) + 1 /\ Len(h) \in Nat
          /\ \A i \in 1 .. Len(h) : k[i] = h[i]
          /\ k[Len(h) + 1] = r
          /\ k # <<>> /\ Len(k) = Len(h) + 1
          /\ h = <<>> <=> Len(h) = 0
      BY <1>4, <3>2
    <3> HIDE DEF h, k
    <3>5. ASSUME NEW i \in DOMAIN k
          PROVE  /\ IsValidTransition(move[k[i]].from, move[k[i]].to)
                 /\ move[k[i]].from = (IF i = 1 THEN "draft" ELSE move[k[i - 1]].to)
      <4>1. CASE i \in 1 .. Len(h)
        <5>1. i \in DOMAIN h /\ k[i] = h[i] /\ (i # 1 => k[i - 1] = h[i - 1])
          BY <3>4, <4>1
        <5> QED BY <3>3, <5>1
      <4>2. CASE i = Len(h) + 1
        <5>1. k[i] = r /\ (i # 1 => k[i - 1] = h[Len(h)]) /\ (i = 1 <=> h = <<>>)
          BY <3>4, <4>2
        <5> QED BY <2>m, <3>3, <5>1
      <4> QED BY <3>4, <3>5, <4>1, <4>2
    <3>6. status'[d] = move[k[Len(k)]].to BY <2>1, <2>m, <3>4
    <3> QED BY <1>0, <3>2, <3>4, <3>5, <3>6 DEF HistoryIsPath
  <2>6. \A c \in Creates \ {d} : HistoryIsPath(c)' <=> HistoryIsPath(c)
    BY <1>0, <2>1 DEF HistoryIsPath
  <2>7. PathUnlessRaced' BY <1>0, <2>1, <2>5, <2>6 DEF PathInv, PathUnlessRaced
  <2> QED BY <1>2, <2>3, <2>4, <2>7 DEF PathInv
<1> QED BY <1>3, <1>4 DEF Requests

\* Every step preserves PathInv.
LEMMA NextPath == IInv /\ PathInv /\ [Next]_vars => PathInv'
<1> SUFFICES ASSUME IInv, PathInv, [Next]_vars PROVE PathInv'
  OBVIOUS
<1>t. pc \in [Requests -> PCs] /\ Moves \subseteq Requests /\ Creates \subseteq Requests
  BY DEF IInv, TypeOK, Requests
<1>1. ASSUME NEW c \in Creates, StartCreate(c) \/ CreateStep(c) PROVE PathInv'
  <2>1. UNCHANGED <<move, status, history, raced>> /\ \A m \in Moves : pc'[m] = pc[m]
    BY <1>1, <1>t, RequestsDisjoint
    DEF StartCreate, CreateStep, CheckNumber, InsertDocument, CreateLines, Write, GiveUp,
        tables
  <2> QED BY <2>1, QuietKeepsPath
<1>2. ASSUME NEW m \in Moves, LoadDocument(m) PROVE PathInv'
  <2>1. CASE GiveUp(m) /\ UNCHANGED <<move, tables, raced>>
    BY <1>t, <2>1, QuietKeepsPath DEF GiveUp, tables, InFlight
  <2> QED BY <1>2, <2>1, LoadKeepsPath DEF LoadDocument
<1>3. ASSUME NEW m \in Moves, MoveStep(m) PROVE PathInv'
  <2>1. UNCHANGED <<move, status, history, raced>>
    BY <1>3 DEF MoveStep, UpdateDocumentStatus, RecordTransition, Refresh, Write, tables
  <2>2. \A n \in Moves : pc'[n] \in InFlight => pc[n] \in InFlight
    BY <1>3, <1>t
    DEF MoveStep, UpdateDocumentStatus, RecordTransition, Refresh, Write, InFlight
  <2> QED BY <2>1, <2>2, QuietKeepsPath
<1>4. ASSUME NEW r \in Requests,
             CreateOutboxEvent(r) \/ CreateAuditLog(r) \/ Fail(r)
      PROVE PathInv'
  <2>1. UNCHANGED <<move, status, history, raced>>
    BY <1>4 DEF CreateOutboxEvent, CreateAuditLog, Fail, Write, tables
  <2>2. \A n \in Moves : pc'[n] \in InFlight => pc[n] \in InFlight
    BY <1>4, <1>t DEF CreateOutboxEvent, CreateAuditLog, Fail, GiveUp, Write, InFlight
  <2> QED BY <2>1, <2>2, QuietKeepsPath
<1>5. ASSUME NEW r \in Requests, Commit(r) PROVE PathInv'
  BY <1>5, CommitKeepsPath
<1>6. CASE UNCHANGED vars BY <1>6, QuietKeepsPath DEF vars
<1> QED
  BY <1>1, <1>2, <1>3, <1>4, <1>5, <1>6 DEF Next, TxStep, Finished

\* A document on which no two transitions overlapped has a history that is a
\* path of the workflow from draft to its present status, for any number of
\* requests, failures and lost commit answers.
THEOREM PathFollowed == Spec => []PathUnlessRaced
<1>1. PathInv => PathUnlessRaced BY DEF PathInv
<1> QED BY AlwaysIInv, InitPath, NextPath, <1>1, PTL DEF Spec

=============================================================================
