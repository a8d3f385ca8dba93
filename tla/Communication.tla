---------------------------- MODULE Communication ----------------------------
(***************************************************************************)
(* Comments, the notifications of the users they mention, and the unified  *)
(* timeline of an entity, which also reads the attachments and the audit   *)
(* log.  One tenant; wording, pins and metadata are left out.              *)
(***************************************************************************)
EXTENDS Attachments, Sequences, SequencesExt

CONSTANTS
  Comments,   \* calls of CreateComment, and the comments they create
  Removers,   \* calls of DeleteComment
  Readers,    \* calls that list, mark or assemble a timeline
  Users, Ghosts,  \* ids with a row of table users, and ids without one
  Posts,      \* requests of CreateComment; listed and written are the ids they mention
  Changes,    \* audit entries that other usecases write about entities
  PageSize,   \* the limit of ListNotifications if none is asked for (20)
  LargestPage, MaxOffset,  \* the largest limit (100), and a bound on offsets
  AuditLimit  \* how many audit entries a timeline reads (100)

ASSUME CommentCallersDisjoint ==
  /\ Comments \cap (Removers \cup Readers) = {} /\ Removers \cap Readers = {}
ASSUME PostsAreRequests ==
  Posts \subseteq [entity : Reference, author : Users \cup Ghosts, parent : Comments \cup {Void},
                  listed : SUBSET (Users \cup Ghosts), written : SUBSET (Users \cup Ghosts)]
ASSUME PeopleFinite == IsFiniteSet(Users \cup Ghosts)
ASSUME PagesAreSome == /\ PageSize \in Nat \ {0} /\ AuditLimit \in Nat \ {0}
                       /\ LargestPage \in Nat \ {0} /\ MaxOffset \in Nat

VARIABLES
  cpc, carg,
  staged,     \* the open transaction of each CreateComment
  comment,    \* table comments
  notes,      \* table notifications
  events,     \* table outbox: comments with an event comment.created
  logged,     \* table audit_logs: comments with an entry
  changed,    \* table audit_logs: entries about entities, oldest first
  removedBy,  \* history: who deleted each comment
  known       \* history: what there was when each reader started, and what it missed

tables == <<comment, notes, events, logged, changed>>
commentVars == <<cpc, carg, staged, tables, removedBy, known>>

CommentCallers == Comments \cup Removers \cup Readers
CommentLabels == {"idle", "insert", "notify", "outbox", "audit", "commit", "delete",
                  "count", "logs", "files", "ok", "refused"}
People == Users \cup Ghosts

CommentRow == [entity : Reference, author : Users, parent : Comments \cup {Void},
               mentions : SUBSET People, status : {"live", "deleted"}]
ASSUME ItemsDiffer ==
  /\ Void \notin Comments \cup Removers \cup CommentRow
  /\ Comments \cap Links = {} /\ (Comments \cup Links) \cap (Changes \X Entities) = {}

NoteRow == [comment : Comments, number : 1..2 * Cardinality(People), user : Users, read : BOOLEAN]
NoStage == [row |-> Void, mentions |-> <<>>, next |-> 1, notes |-> {}, event |-> FALSE, log |-> FALSE]
NoCommentArgs == [comment |-> Void, user |-> Void, entity |-> Void, exact |-> FALSE,
                  page |-> Void, items |-> {}, total |-> Void]
NothingKnown == [items |-> {}, missed |-> FALSE, raced |-> FALSE]

CommentInit ==
  /\ cpc = [c \in CommentCallers |-> "idle"]
  /\ carg = [c \in Removers \cup Readers |-> NoCommentArgs]
  /\ staged = [c \in Comments |-> NoStage]
  /\ comment = [c \in Comments |-> Void]
  /\ notes = {} /\ events = {} /\ logged = {}
  /\ changed = <<>>
  /\ removedBy = [c \in Comments |-> Void]
  /\ known = [r \in Readers |-> NothingKnown]

CommentGoTo(c, label) == cpc' = [cpc EXCEPT ![c] = label]

Live(c) == comment[c] # Void /\ comment[c].status = "live"

\* Notifications of these users change: their readers that are between the
\* page and the total will see it in one and not in the other.
Race(users) ==
  known' = [r \in Readers |-> IF cpc[r] = "count" /\ carg[r].user \in users
                               THEN [known[r] EXCEPT !.raced = TRUE] ELSE known[r]]

-----------------------------------------------------------------------------
(* CreateComment: one transaction, invisible to the others until it        *)
(* commits.                                                                *)

\* The ids the request lists and the text mentions, once each.
AllMentions(listed, written) == SetToSeq(listed \cup written)

\* INSERT INTO comments.
NewComment(p) == [entity |-> ToLower(p.entity), author |-> p.author, parent |-> p.parent,
                  mentions |-> p.listed \cup p.written, status |-> "live"]

CreateComment(c) ==
  /\ cpc[c] = "idle"
  /\ \/ CommentGoTo(c, "refused") /\ UNCHANGED staged   \* the input is not valid
     \/ \E p \in Posts :
          /\ p.parent # c
          /\ staged' = [staged EXCEPT ![c] = [NoStage EXCEPT
               !.row = NewComment(p),
               !.mentions = AllMentions(p.listed, p.written)]]
          /\ CommentGoTo(c, "insert")
  /\ UNCHANGED <<carg, tables, removedBy, known>>

Rollback(c) == staged' = [staged EXCEPT ![c] = NoStage] /\ CommentGoTo(c, "refused")

\* Mutant: parent_id has no foreign key.
InsertCommentAnywhere(c) ==
  /\ cpc[c] = "insert"
  /\ IF staged[c].row.author \in Users THEN CommentGoTo(c, "notify") /\ UNCHANGED staged ELSE Rollback(c)
  /\ UNCHANGED <<carg, tables, removedBy, known>>

\* The INSERT of the comment: its foreign keys want a user for an author and,
\* locking it, a parent that is there.
InsertComment(c) ==
  LET row == staged[c].row IN
  /\ cpc[c] = "insert"
  /\ IF row.author \in Users /\ (row.parent # Void => Live(row.parent))
       THEN CommentGoTo(c, "notify") /\ UNCHANGED staged
       ELSE Rollback(c)
  /\ UNCHANGED <<carg, tables, removedBy, known>>

\* INSERT INTO notifications.
NewNote(c, n, user) == [comment |-> c, number |-> n, user |-> user, read |-> FALSE]

\* One notification per user mentioned, except the author; a mentioned id
\* that is no user makes the foreign key refuse the whole comment.
NotifyMentioned(c) ==
  LET s == staged[c]
      user == s.mentions[s.next] IN
  /\ cpc[c] = "notify"
  /\ \/ /\ s.next > Len(s.mentions)
        /\ CommentGoTo(c, "outbox") /\ UNCHANGED staged
     \/ /\ s.next <= Len(s.mentions)
        /\ IF user \notin Users THEN Rollback(c)
           ELSE /\ staged' = [staged EXCEPT ![c].next = @ + 1,
                     ![c].notes = IF user = s.row.author THEN @
                                  ELSE @ \cup {NewNote(c, s.next, user)}]
                /\ UNCHANGED cpc
  /\ UNCHANGED <<carg, tables, removedBy, known>>

\* Mutant: the event is written outside of the transaction.
WriteOutboxAtOnce(c) ==
  /\ cpc[c] = "outbox"
  /\ staged' = [staged EXCEPT ![c].event = TRUE]
  /\ events' = events \cup {c}
  /\ CommentGoTo(c, "audit")
  /\ UNCHANGED <<carg, comment, notes, logged, changed, removedBy, known, breaks>>

WriteOutbox(c) ==
  /\ cpc[c] = "outbox"
  /\ \/ Works /\ staged' = [staged EXCEPT ![c].event = TRUE] /\ CommentGoTo(c, "audit")
     \/ Breaks /\ Rollback(c)
  /\ UNCHANGED <<carg, tables, removedBy, known>>

WriteAudit(c) ==
  /\ cpc[c] = "audit"
  /\ \/ Works /\ staged' = [staged EXCEPT ![c].log = TRUE] /\ CommentGoTo(c, "commit")
     \/ Breaks /\ Rollback(c)
  /\ UNCHANGED <<carg, tables, removedBy, known>>

\* WithTx: COMMIT makes all of it visible at once.
CommitComment(c) ==
  LET s == staged[c] IN
  /\ cpc[c] = "commit"
  /\ comment' = [comment EXCEPT ![c] = s.row]
  /\ notes' = notes \cup s.notes
  /\ events' = IF s.event THEN events \cup {c} ELSE events
  /\ logged' = IF s.log THEN logged \cup {c} ELSE logged
  /\ staged' = [staged EXCEPT ![c] = NoStage]
  /\ Race({n.user : n \in s.notes})
  /\ CommentGoTo(c, "ok")
  /\ UNCHANGED <<carg, changed, removedBy>>

\* The process dies: open transactions are rolled back.
CommentCrash ==
  LET dead == {c \in CommentCallers : cpc[c] \notin {"idle", "ok", "refused"}} IN
  /\ dead # {} /\ Breaks
  /\ cpc' = [c \in CommentCallers |-> IF c \in dead THEN "refused" ELSE cpc[c]]
  /\ staged' = [c \in Comments |-> NoStage]
  /\ UNCHANGED <<carg, tables, removedBy, known>>

-----------------------------------------------------------------------------
(* DeleteComment.                                                          *)

\* A caller without a user (no claims) is not checked.
MayDelete(user, c) == user = Void \/ comment[c].author = user

CheckAuthor(d) ==
  /\ cpc[d] = "idle"
  /\ \E c \in Comments, user \in Users \cup {Void} :
       /\ CommentGoTo(d, IF Live(c) /\ MayDelete(user, c) THEN "delete" ELSE "refused")
       /\ carg' = [carg EXCEPT ![d].comment = c, ![d].user = user]
  /\ UNCHANGED <<staged, tables, removedBy, known>>

\* The comment c and the comments below it: what every set has that has c and
\* the answers to its members.
AnswersWithin(S) == \A d \in Comments : comment[d] # Void /\ comment[d].parent \in S => d \in S
Below(c) == {d \in Comments : \A S \in SUBSET Comments : c \in S /\ AnswersWithin(S) => d \in S}

\* What the foreign key deletes with c.
Thread(c) == {d \in Below(c) : Live(d)}

\* Comments that an open INSERT has locked by its foreign key.
Locked == {staged[c].row.parent : c \in {x \in Comments :
             cpc[x] \in {"notify", "outbox", "audit", "commit"}}} \ {Void}

\* The DELETE waits for the open answers; no row is no error.
DeleteComment(d) ==
  LET gone == Thread(carg[d].comment) IN
  /\ cpc[d] = "delete"
  /\ gone \cap Locked = {}
  /\ comment' = [x \in Comments |->
                   IF x \in gone THEN [comment[x] EXCEPT !.status = "deleted"] ELSE comment[x]]
  /\ removedBy' = [x \in Comments |-> IF x \in gone THEN d ELSE removedBy[x]]
  /\ CommentGoTo(d, "ok")
  /\ UNCHANGED <<carg, staged, notes, events, logged, changed, known>>

-----------------------------------------------------------------------------
(* Notifications.                                                          *)

NotesOf(user) == {n \in notes : n.user = user}
Unread(user) == {n \in NotesOf(user) : ~n.read}

MarkNotificationRead(r) ==
  /\ cpc[r] = "idle"
  /\ \E user \in Users : \E n \in NotesOf(user) :
       /\ notes' = (notes \ {n}) \cup {[n EXCEPT !.read = TRUE]}
       /\ Race({user})
  /\ CommentGoTo(r, "ok")
  /\ UNCHANGED <<carg, staged, comment, events, logged, changed, removedBy>>

MarkAllNotificationsRead(r) ==
  /\ cpc[r] = "idle"
  /\ \E user \in Users :
       /\ notes' = (notes \ Unread(user)) \cup {[n EXCEPT !.read = TRUE] : n \in Unread(user)}
       /\ Race({user})
  /\ CommentGoTo(r, "ok")
  /\ UNCHANGED <<carg, staged, comment, events, logged, changed, removedBy>>

\* What ListNotificationsByUser selects from, and how many of n rows LIMIT and
\* OFFSET leave of it.
ListNotificationsByUser(user, unread) == IF unread THEN Unread(user) ELSE NotesOf(user)
PageLength(n, page) ==
  IF n <= page.offset THEN 0
  ELSE IF n - page.offset < page.limit THEN n - page.offset ELSE page.limit

\* The limit a request gets that asks for this one.
NormalLimit(asked) ==
  IF asked = 0 THEN PageSize ELSE IF asked > LargestPage THEN LargestPage ELSE asked

\* The page of ListNotifications: of all notifications, or of the unread ones.
\* An offset that does not fit its 32 bits comes out negative and is refused.
ListNotifications(r) ==
  /\ cpc[r] = "idle"
  /\ \/ \E user \in Users, unread \in BOOLEAN, asked \in 0..LargestPage + 1, offset \in 0..MaxOffset :
          LET rows == ListNotificationsByUser(user, unread)
              page == [unread |-> unread, limit |-> NormalLimit(asked), offset |-> offset] IN
          \E items \in SUBSET rows :
            /\ Cardinality(items) = PageLength(Cardinality(rows), page)
            /\ carg' = [carg EXCEPT ![r].user = user, ![r].page = page, ![r].items = items]
            /\ CommentGoTo(r, "count")
     \/ CommentGoTo(r, "refused") /\ UNCHANGED carg
  /\ UNCHANGED <<staged, tables, removedBy, known>>

\* Mutant: the query counts the notifications that were read too.
CountEveryNotification(user) == Cardinality(NotesOf(user))

\* The total counts the unread notifications, whatever the page is taken from.
CountUnreadNotifications(user) == Cardinality(Unread(user))

CountNotifications(r) ==
  /\ cpc[r] = "count"
  /\ carg' = [carg EXCEPT ![r].total = CountUnreadNotifications(carg[r].user)]
  /\ CommentGoTo(r, "ok")
  /\ UNCHANGED <<staged, tables, removedBy, known>>

-----------------------------------------------------------------------------
(* GetUnifiedTimeline and the two lists: reads without a transaction.      *)

ListCommentsByEntity(ref) == {c \in Comments : Live(c) /\ comment[c].entity = ref}
ListAttachmentsByEntity(ref) == {a \in Attached : link[a].entity = ref}

\* The newest entries about the entity, whose type the writers spell in lower case.
About(ref) == {i \in DOMAIN changed : <<changed[i][2], "lower">> = ref}
ListAudit(ref) ==
  {changed[i] : i \in {n \in About(ref) : Cardinality({m \in About(ref) : m > n}) < AuditLimit}}

\* What there is about an entity, however its type was spelled.
OnEntity(e) == {c \in Comments : Live(c) /\ comment[c].entity[1] = e}
               \cup {a \in Attached : link[a].entity[1] = e} \cup ListAudit(<<e, "lower">>)

\* ListEntityComments and ListEntityAttachments fold the entity type.
ListEntity(r) ==
  /\ cpc[r] = "idle"
  /\ \E ref \in Reference :
     \E items \in {ListCommentsByEntity(ToLower(ref)), ListAttachmentsByEntity(ToLower(ref))} :
       carg' = [carg EXCEPT ![r].entity = ref, ![r].items = items]
  /\ CommentGoTo(r, "ok")
  /\ UNCHANGED <<staged, tables, removedBy, known>>

\* GetUnifiedTimeline passes it on as it comes: the comments ...
TimelineComments(r) ==
  /\ cpc[r] = "idle"
  /\ \E ref \in Reference :
     \E failed \in BOOLEAN :
       /\ IF failed THEN Breaks ELSE Works
       /\ carg' = [carg EXCEPT ![r].entity = ref, ![r].exact = TRUE,
                     ![r].items = IF failed THEN {} ELSE ListCommentsByEntity(ref)]
       /\ known' = [known EXCEPT ![r].items = OnEntity(ref[1]), ![r].missed = failed]
  /\ CommentGoTo(r, "logs")
  /\ UNCHANGED <<staged, tables, removedBy>>

\* A further source of the timeline; its error is swallowed like the first one's.
TimelineAdd(r, items, next) ==
  /\ \/ /\ Works /\ UNCHANGED known
        /\ carg' = [carg EXCEPT ![r].items = @ \cup items]
     \/ Breaks /\ known' = [known EXCEPT ![r].missed = TRUE] /\ UNCHANGED carg
  /\ CommentGoTo(r, next)
  /\ UNCHANGED <<staged, tables, removedBy>>

\* ... the audit log ...
TimelineLogs(r) ==
  cpc[r] = "logs" /\ TimelineAdd(r, ListAudit(carg[r].entity), "files")

\* ... and the attachments.
TimelineFiles(r) ==
  cpc[r] = "files" /\ TimelineAdd(r, ListAttachmentsByEntity(carg[r].entity), "ok")

\* Another usecase writes an audit entry about the entity.
LogChange(x) ==
  /\ \A i \in DOMAIN changed : changed[i][1] # x
  /\ \E e \in Entities : changed' = Append(changed, <<x, e>>)
  /\ UNCHANGED <<cpc, carg, staged, comment, notes, events, logged, removedBy, known>>

\* The steps a fault of a store can end.
FaultyStep == \/ \E c \in Comments : WriteOutbox(c) \/ WriteAudit(c)
              \/ \E r \in Readers : TimelineComments(r) \/ TimelineLogs(r) \/ TimelineFiles(r)
              \/ CommentCrash
CommentStep(c) == \/ CreateComment(c) \/ InsertComment(c) \/ NotifyMentioned(c)
                  \/ CommitComment(c)
ReaderStep(r) == \/ MarkNotificationRead(r) \/ MarkAllNotificationsRead(r)
                 \/ ListNotifications(r) \/ CountNotifications(r)
                 \/ ListEntity(r)

CommentNext ==
  \/ FaultyStep
  \/ Works /\ \/ \E c \in Comments : CommentStep(c)
              \/ \E d \in Removers : CheckAuthor(d) \/ DeleteComment(d)
              \/ \E r \in Readers : ReaderStep(r)
              \/ \E x \in Changes : LogChange(x)

-----------------------------------------------------------------------------
(* Properties.                                                             *)

\* Every variable has its type: comments and notifications are rows of the
\* tables, written by users that exist.
CommentTypeOK ==
  /\ cpc \in [CommentCallers -> CommentLabels]
  /\ comment \in [Comments -> CommentRow \cup {Void}]
  /\ notes \subseteq NoteRow
  /\ events \subseteq Comments /\ logged \subseteq Comments
  /\ changed \in Seq(Changes \X Entities)
  /\ removedBy \in [Comments -> Removers \cup {Void}]

\* A comment, its event, its audit entry and the notifications of the users
\* it mentions are there together or not at all, whatever fails; nobody is
\* notified twice, and the author not at all.
PostedTogether ==
  \A c \in Comments :
    LET mine == {n \in notes : n.comment = c} IN
    IF comment[c] = Void
      THEN mine = {} /\ c \notin events \cup logged
      ELSE /\ c \in events /\ c \in logged
           /\ {n.user : n \in mine} = comment[c].mentions \ {comment[c].author}
           /\ Cardinality(mine) = Cardinality({n.user : n \in mine})

\* The comment an answer answers is there, also when its deletion raced the
\* answer.
AnswersHaveParents ==
  \A c \in Comments : Live(c) /\ comment[c].parent # Void => Live(comment[c].parent)

\* A comment was deleted by its author, by the author of a comment above it,
\* or by a caller without claims: DeleteComment refuses everybody else, an
\* administrator too, although docs/communication-and-notifications.md:128 lets
\* "users with administrative permissions" delete any comment.
DeletedByAuthors ==
  \A c \in Comments : removedBy[c] # Void =>
    LET user == carg[removedBy[c]].user IN
    \/ user = Void
    \/ \E a \in Comments : comment[a] # Void /\ c \in Below(a) /\ comment[a].author = user

\* A page of ListNotifications fits its total.  Of the unread notifications it
\* has as many as limit and offset leave of the total.  Taken from all of them
\* its length says nothing of the total; but it shows no more unread ones than the
\* total counts, and all of them if it is the first page and not full.
PageFits(answer, total) ==
  LET shown == {n \in answer.items : ~n.read} IN
  /\ answer.page.unread => Cardinality(answer.items) = PageLength(total, answer.page)
  /\ Cardinality(shown) <= total
  /\ (answer.page.offset = 0 /\ Cardinality(answer.items) < answer.page.limit)
       => Cardinality(shown) = total

\* The page and the total of ListNotifications fit, unless a call marked
\* notifications of the user, or a comment mentioned them, between the queries.
PageAgreesWithTotal ==
  \A r \in Readers : carg[r].total # Void /\ ~known[r].raced => PageFits(carg[r], carg[r].total)

\* A timeline asked for in lower case has everything that was there from its
\* start to now, unless the error of a source was swallowed; and nothing that
\* was never there.
TimelineIsTrue ==
  \A r \in Readers : cpc[r] = "ok" /\ carg[r].exact =>
    /\ carg[r].entity[2] = "lower" /\ ~known[r].missed
         => known[r].items \cap OnEntity(carg[r].entity[1]) \subseteq carg[r].items
    /\ \A c \in Comments \cap carg[r].items : comment[c] # Void

\* Threads stay whole: deletions take the answers along, and only authors delete,
\* which is what the code does and less than the documentation promises.
ThreadsSound == AnswersHaveParents /\ DeletedByAuthors

\* Answers put together from several queries are true unless somebody wrote in
\* between (ListNotifications, GetUnifiedTimeline).
AnswersAreTrue == PageAgreesWithTotal /\ TimelineIsTrue
=============================================================================
