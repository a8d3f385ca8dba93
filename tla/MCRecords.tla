------------------------------ MODULE MCRecords ------------------------------
(* One run over files and comments.  A behaviour is about files and their  *)
(* attachments, about mentions and notifications, about threads and their  *)
(* deletion, or about the timeline of an entity.                           *)
EXTENDS Communication

VARIABLE scene

\* The casts: which calls take part in each scene.
Begun(S) == {c \in S : cpc[c] # "idle"}
FilesBegun == {c \in FileCallers : fpc[c] # "idle"}
Writing == {c \in Comments : staged[c].row # Void}
Alone == \A c \in Writing : staged[c].row.parent = Void
Silent == \A c \in Writing : staged[c].mentions = <<>>
MentionCast ==
  /\ Alone /\ Begun(Removers) = {} /\ changed = <<>>
  /\ \A c \in Writing : staged[c].mentions # <<>>
  /\ Cardinality(Begun(Comments)) <= 2
  /\ \A r \in Readers : carg[r].entity = Void
  /\ Cardinality({r \in Readers : carg[r].page # Void}) <= 1 /\ breaks <= 1
ThreadCast == Silent /\ Begun(Readers) = {} /\ changed = <<>>
TimelineCast ==
  /\ Alone /\ Silent
  /\ Cardinality(Begun(Comments)) <= 1 /\ Cardinality(Begun(Readers)) <= 1
  /\ \A r \in Begun(Readers) : carg[r].entity # Void
  /\ FilesBegun = {} \/ Begun(Comments \cup Removers) = {}
  /\ Cardinality(FilesBegun \cap FileCalls) <= 1
  /\ \A u \in Uploads : fpc[u] # "refused" /\ farg[u].size \in {1, Void}
  /\ \A c \in FileCalls : farg[c].size = Void

\* Requests that answer and mention nobody, and requests that mention and
\* answer nothing.
MCPosts ==
  {[entity |-> ref, author |-> a, parent |-> p, listed |-> {}, written |-> {}] :
     ref \in Reference, a \in People, p \in Comments \cup {Void}} \cup
  {[entity |-> ToLower(ref), author |-> a, parent |-> Void, listed |-> {p}, written |-> {q}] :
     ref \in Reference, a \in Users, p \in Users, q \in People}

MCInit == AttachInit /\ CommentInit /\ scene \in {"files", "mention", "thread", "timeline"}
FilesIdle == UNCHANGED <<fpc, farg, stores, cut>>

\* Files and comments together, with any cast.
RecordsNext == (AttachNext /\ UNCHANGED commentVars) \/ (CommentNext /\ FilesIdle)
RecordsSpec == AttachInit /\ CommentInit /\ [][RecordsNext]_<<attachVars, commentVars>>

MCNext ==
  /\ UNCHANGED scene
  /\ \/ scene = "files" /\ AttachNext /\ UNCHANGED commentVars
     \/ scene = "mention" /\ CommentNext /\ MentionCast' /\ FilesIdle
     \/ scene = "thread" /\ CommentNext /\ ThreadCast' /\ FilesIdle
     \/ scene = "timeline" /\ CommentNext /\ FilesIdle /\ TimelineCast'
     \/ scene = "timeline" /\ AttachNext /\ UNCHANGED commentVars /\ TimelineCast'
MCSpec == MCInit /\ [][MCNext]_<<attachVars, commentVars, scene>>

Symmetry ==
  Permutations(Users) \cup Permutations(Comments) \cup Permutations(Readers) \cup Permutations(FileCalls)

\* Types, the largest file size, and the reference of an attachment to its file,
\* which AttachFile checks before it inserts.
RecordsSchema == AttachTypeOK /\ AttachmentsHaveFiles /\ CommentTypeOK
=============================================================================
