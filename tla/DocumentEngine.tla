--------------------------- MODULE DocumentEngine ---------------------------
(***************************************************************************)
(* The document usecase over PostgreSQL: CreateDocument and                *)
(* TransitionDocument (internal/core/usecase/document), the workflow rules *)
(* (internal/core/domain/document/workflow.go), the document, outbox and   *)
(* audit repositories and database.WithTx (pkg/database/tx.go).            *)
(*                                                                         *)
(* A request is one invocation of a handler.  Its reads before WithTx run  *)
(* on the pool, outside any transaction.  Inside WithTx every repository   *)
(* finds the transaction in the context, so what a request writes stays in *)
(* tx[r] until the commit makes all of it visible at once.  PostgreSQL     *)
(* (external) gives READ COMMITTED: an UPDATE waits for the transaction    *)
(* that last updated the row, and an INSERT waits for a transaction that   *)
(* has inserted the same unique key.                                       *)
(*                                                                         *)
(* The identity of a document is the request that created it: CreateDocument *)
(* draws a fresh UUID, so no two requests create the same document.        *)
(***************************************************************************)
EXTENDS Naturals, Sequences, FiniteSets

CONSTANTS
  Creates,   \* CreateDocument requests; also the identities of the documents
  Moves,     \* TransitionDocument requests
  Numbers,   \* (document_type, document_number) pairs
  None       \* "not chosen yet"

Requests == Creates \cup Moves

Statuses == {"draft", "submitted", "approved", "posted",
             "completed", "cancelled", "rejected"}

\* The status of a document that has no committed row.
Absent == "absent"

ASSUME RequestsDisjoint == Creates \cap Moves = {}
ASSUME NoneIsNothing == None \notin Numbers

VARIABLES
  pc,        \* pc[r]: the next step of request r
  number,    \* number[c]: the document number CreateDocument settled on
  move,      \* move[m]: document, status read outside the tx, target status
  tx,        \* tx[r]: tables written by r's open transaction
  status,    \* documents: status[c], or Absent
  lines,     \* document_lines: documents whose lines are stored
  history,   \* document_transitions: history[c], in commit order
  outbox,    \* outbox_events: requests whose event row is committed
  audit,     \* audit_logs: requests whose audit row is committed
  raced      \* history variable: documents on which two transitions overlapped

vars == <<pc, number, move, tx, status, lines, history, outbox, audit, raced>>

tables == <<status, lines, history, outbox, audit>>

-----------------------------------------------------------------------------
(* Workflow rules.                                                         *)

validTransitions ==
  {<<"draft", "submitted">>, <<"draft", "cancelled">>,
   <<"submitted", "approved">>, <<"submitted", "rejected">>,
   <<"submitted", "draft">>,
   <<"approved", "posted">>, <<"approved", "cancelled">>,
   <<"posted", "completed">>, <<"posted", "cancelled">>}

IsValidTransition(from, to) == <<from, to>> \in validTransitions

\* Mutant: only the self transition is refused.
ValidateTransitionLax(from, to) == from # to

\* ValidateTransition returns nil.
ValidateTransition(from, to) == from # to /\ IsValidTransition(from, to)

-----------------------------------------------------------------------------
(* Requests, transactions and locks.                                       *)

Tables == {"documents", "lines", "transitions", "outbox", "audit"}

MoveCommand == [doc : Creates, from : Statuses, to : Statuses]

PCs == {"idle", "check", "insert", "lines", "update", "record",
        "outbox", "audit", "commit", "refresh", "ok", "error"}

Answered == {"ok", "error"}

\* m has read c and has not committed or given up.
Transitioning(m, c) ==
  /\ pc[m] \in {"update", "record", "outbox", "audit", "commit"}
  /\ move[m].doc = c

\* An open transaction other than m's has updated the row of m's document.
RowLocked(m) ==
  \E n \in Moves \ {m} : "documents" \in tx[n] /\ move[n].doc = move[m].doc

\* An open transaction other than c's has inserted c's number.
KeyLocked(c) ==
  \E d \in Creates \ {c} : "documents" \in tx[d] /\ number[d] = number[c]

\* uq_documents_tenant_type_number already holds c's number.
KeyTaken(c) == \E d \in Creates : status[d] # Absent /\ number[d] = number[c]

\* Mutant: the deferred Rollback is missing, the transaction stays open.
GiveUpNoRollback(r) ==
  /\ pc' = [pc EXCEPT ![r] = "error"]
  /\ UNCHANGED tx

\* The request leaves: an early return, or an error inside WithTx, whose
\* deferred Rollback drops the transaction.
GiveUp(r) ==
  /\ pc' = [pc EXCEPT ![r] = "error"]
  /\ tx' = [tx EXCEPT ![r] = {}]

\* One repository call on the transaction: table t is written, control moves on.
Write(r, t, next) ==
  /\ tx' = [tx EXCEPT ![r] = @ \cup {t}]
  /\ pc' = [pc EXCEPT ![r] = next]
  /\ UNCHANGED <<number, move, tables, raced>>

-----------------------------------------------------------------------------
Init ==
  /\ pc = [r \in Requests |-> "idle"]
  /\ number = [c \in Creates |-> None]
  /\ move = [m \in Moves |-> None]
  /\ tx = [r \in Requests |-> {}]
  /\ status = [c \in Creates |-> Absent]
  /\ lines = {}
  /\ history = [c \in Creates |-> <<>>]
  /\ outbox = {}
  /\ audit = {}
  /\ raced = {}

(* CreateDocument.  The number is typed by the client, acquired from the    *)
(* sequence engine (a transaction of its own, already committed) or the     *)
(* dated fallback: any number, a number in use included.                    *)
StartCreate(c) ==
  /\ pc[c] = "idle"
  /\ \E n \in Numbers : number' = [number EXCEPT ![c] = n]
  /\ pc' = [pc EXCEPT ![c] = "check"]
  /\ UNCHANGED <<move, tx, tables, raced>>

\* GetDocumentByNumber on the pool, then the validation of the lines: the
\* request stops if the number is used or a line is refused.
CheckNumber(c) ==
  /\ pc[c] = "check"
  /\ \/ /\ ~ KeyTaken(c)
        /\ pc' = [pc EXCEPT ![c] = "insert"]
        /\ UNCHANGED tx
     \/ GiveUp(c)
  /\ UNCHANGED <<number, move, tables, raced>>

\* Mutant: no unique index behind the check in CreateDocument.
InsertDocumentNoIndex(c) ==
  /\ pc[c] = "insert"
  /\ Write(c, "documents", "lines")

InsertDocument(c) ==
  /\ pc[c] = "insert"
  /\ ~ KeyLocked(c)
  /\ \/ ~ KeyTaken(c) /\ Write(c, "documents", "lines")
     \/ KeyTaken(c) /\ GiveUp(c) /\ UNCHANGED <<number, move, tables, raced>>

CreateLines(c) ==
  /\ pc[c] = "lines"
  /\ Write(c, "lines", "outbox")

(* TransitionDocument.  The document is read, and the transition validated *)
(* against what was read, before the transaction begins.                   *)
LoadDocument(m) ==
  /\ pc[m] = "idle"
  /\ \E c \in Creates, to \in Statuses :
       \/ /\ status[c] # Absent
          /\ ValidateTransition(status[c], to)
          /\ move' = [move EXCEPT ![m] = [doc |-> c, from |-> status[c], to |-> to]]
          /\ raced' = IF \E n \in Moves \ {m} : Transitioning(n, c)
                        THEN raced \cup {c} ELSE raced
          /\ pc' = [pc EXCEPT ![m] = "update"]
          /\ UNCHANGED <<number, tx, tables>>
       \/ /\ status[c] # Absent => ~ ValidateTransition(status[c], to)
          /\ GiveUp(m)
          /\ UNCHANGED <<number, move, tables, raced>>

\* UPDATE documents SET status = to WHERE id = doc: no condition on the status
\* the request has validated.
UpdateDocumentStatus(m) ==
  /\ pc[m] = "update"
  /\ ~ RowLocked(m)
  /\ Write(m, "documents", "record")

\* Mutant: the transition row goes to the wrong table.
RecordTransitionAsLine(m) ==
  /\ pc[m] = "record"
  /\ Write(m, "lines", "outbox")

RecordTransition(m) ==
  /\ pc[m] = "record"
  /\ Write(m, "transitions", "outbox")

(* Both usecases end the transaction with the outbox and the audit row.    *)
CreateOutboxEvent(r) ==
  /\ pc[r] = "outbox"
  /\ Write(r, "outbox", "audit")

\* Mutant: the audit write is best effort, its error is dropped.
CreateAuditLogBestEffort(r) ==
  /\ pc[r] = "audit"
  /\ \/ Write(r, "audit", "commit")
     \/ pc' = [pc EXCEPT ![r] = "commit"] /\ UNCHANGED <<number, move, tx, tables, raced>>

CreateAuditLog(r) ==
  /\ pc[r] = "audit"
  /\ Write(r, "audit", "commit")

\* What the transaction of r makes visible.
ApplyTx(r) ==
  /\ status' = [c \in Creates |->
       IF "documents" \in tx[r] /\ r = c THEN "draft"
       ELSE IF "documents" \in tx[r] /\ r \in Moves /\ move[r].doc = c
              THEN move[r].to
              ELSE status[c]]
  /\ lines' = IF "lines" \in tx[r] THEN lines \cup {r} ELSE lines
  /\ history' = [c \in Creates |->
       IF "transitions" \in tx[r] /\ r \in Moves /\ move[r].doc = c
         THEN Append(history[c], r) ELSE history[c]]
  /\ outbox' = IF "outbox" \in tx[r] THEN outbox \cup {r} ELSE outbox
  /\ audit' = IF "audit" \in tx[r] THEN audit \cup {r} ELSE audit

\* The commit takes effect.  Its answer may be lost on the way back, and the
\* caller then gets an error for a mutation that is durable.
Commit(r) ==
  /\ pc[r] = "commit"
  /\ ApplyTx(r)
  /\ tx' = [tx EXCEPT ![r] = {}]
  /\ \E answer \in {IF r \in Moves THEN "refresh" ELSE "ok", "error"} :
       pc' = [pc EXCEPT ![r] = answer]
  /\ UNCHANGED <<number, move, raced>>

\* TransitionDocument reads the document again for its answer.
Refresh(m) ==
  /\ pc[m] = "refresh"
  /\ pc' = [pc EXCEPT ![m] = "ok"]
  /\ UNCHANGED <<number, move, tx, tables, raced>>

\* A query fails, the client goes away, or the process dies: the request ends
\* with an error and the database rolls its transaction back.
Fail(r) ==
  /\ pc[r] \notin Answered \cup {"idle"}
  /\ GiveUp(r)
  /\ UNCHANGED <<number, move, tables, raced>>

CreateStep(c) == CheckNumber(c) \/ InsertDocument(c) \/ CreateLines(c)

MoveStep(m) == UpdateDocumentStatus(m) \/ RecordTransition(m) \/ Refresh(m)

TxStep(r) == CreateOutboxEvent(r) \/ CreateAuditLog(r) \/ Commit(r)

\* Every request has been answered.
Finished ==
  /\ \A r \in Requests : pc[r] \in Answered
  /\ UNCHANGED vars

Next ==
  \/ \E c \in Creates : StartCreate(c) \/ CreateStep(c)
  \/ \E m \in Moves : LoadDocument(m) \/ MoveStep(m)
  \/ \E r \in Requests : TxStep(r) \/ Fail(r)
  \/ Finished

\* A handler goroutine that can run does run; PostgreSQL grants a lock that
\* is free.
Fairness ==
  /\ \A c \in Creates : WF_vars(CreateStep(c))
  /\ \A m \in Moves : WF_vars(MoveStep(m))
  /\ \A r \in Requests : WF_vars(TxStep(r))

Spec == Init /\ [][Next]_vars

FairSpec == Spec /\ Fairness

-----------------------------------------------------------------------------
(* Properties.                                                             *)

\* Every variable has its type.
TypeOK ==
  /\ pc \in [Requests -> PCs]
  /\ number \in [Creates -> Numbers \cup {None}]
  /\ move \in [Moves -> MoveCommand \cup {None}]
  /\ tx \in [Requests -> SUBSET Tables]
  /\ status \in [Creates -> Statuses \cup {Absent}]
  /\ lines \subseteq Creates
  /\ history \in [Creates -> Seq(Moves)]
  /\ outbox \subseteq Requests
  /\ audit \subseteq Requests
  /\ raced \subseteq Creates

\* The aggregate change of request r is visible.
Visible(r) ==
  \/ r \in Creates /\ status[r] # Absent
  \/ r \in Moves /\ \E c \in Creates : \E i \in DOMAIN history[c] : history[c][i] = r

\* The state change, the outbox event and the audit entry of a request are
\* visible together or not at all, whatever fails on the way, a document never
\* appears without its lines, and a request answered "ok" is durable (WithTx
\* around every write of CreateDocument and TransitionDocument).
AtomicallyCoupled ==
  \A r \in Requests :
    /\ Visible(r) <=> r \in outbox
    /\ r \in outbox <=> r \in audit
    /\ r \in Creates => (Visible(r) <=> r \in lines)
    /\ pc[r] \in {"ok", "refresh"} => Visible(r)

\* Two documents never share a number: the check in CreateDocument races with
\* other requests, the unique index does not.
UniqueNumbers ==
  \A c, d \in Creates :
    status[c] # Absent /\ status[d] # Absent /\ number[c] = number[d] => c = d

\* The stored history of c is a path of the workflow that starts at draft and
\* ends at the current status.
HistoryIsPath(c) ==
  LET h == history[c] IN
  /\ \A i \in DOMAIN h :
       /\ IsValidTransition(move[h[i]].from, move[h[i]].to)
       /\ move[h[i]].from = (IF i = 1 THEN "draft" ELSE move[h[i - 1]].to)
  /\ status[c] = (IF h = <<>> THEN "draft" ELSE move[h[Len(h)]].to)

\* A document on which no two TransitionDocument requests ever overlapped has
\* followed the workflow: overlap of the read with another request's commit is
\* the only way out of the lifecycle.
PathUnlessRaced ==
  \A c \in Creates : status[c] # Absent /\ c \notin raced => HistoryIsPath(c)

\* The lifecycle the documentation states: a committed document changes status
\* only along validTransitions.
StrictLifecycle ==
  [][\A c \in Creates :
       status[c] # Absent /\ status'[c] # status[c]
         => IsValidTransition(status[c], status'[c])]_vars

\* Every request in flight is answered: lock waits end because no transaction
\* waits for a second row.
EveryRequestAnswered ==
  \A r \in Requests : pc[r] # "idle" ~> pc[r] \in Answered
=============================================================================
