----------------------------- MODULE Attachments -----------------------------
(***************************************************************************)
(* Files and attachments.  A file is content in the storage driver and a   *)
(* row of table files: no transaction spans the two, so every call is a    *)
(* series of steps in one store or the other that a fault or a crash may   *)
(* cut short.  One tenant; names, hashes and titles are left out.          *)
(***************************************************************************)
EXTENDS Naturals, FiniteSets

CONSTANTS
  Uploads,      \* calls of UploadFile, and the files they create
  FileCalls,    \* calls of GetFile, GetFileMetadata, DeleteFile, DetachFile
  Links,        \* calls of AttachFile, and the attachments they create
  Entities,     \* the entities a file or a comment may hang on
  MaxFileSize,
  MaxBody,      \* bound on the bytes a request body has, whatever size it announces
  MaxBreaks,    \* bound on faults and crashes
  Void

ASSUME FileCallsDisjoint ==
  /\ Uploads \cap (FileCalls \cup Links) = {} /\ FileCalls \cap Links = {}
ASSUME SizeBound == MaxFileSize \in Nat /\ MaxBody \in Nat /\ MaxBreaks \in Nat
ASSUME VoidIsNothing == Void \notin Uploads \cup Links \cup Entities \cup Nat

VARIABLES
  fpc, farg,
  content,      \* storage driver: bytes under the path of each file
  temp,         \* storage driver: uploads with a temporary file
  file,         \* table files: the size_bytes of each row
  link,         \* table entity_attachments
  breaks,
  cut           \* history: files on which a call was cut short

stores == <<content, temp, file, link>>
attachVars == <<fpc, farg, stores, breaks, cut>>

FileCallers == Uploads \cup FileCalls \cup Links
FileLabels == {"idle", "put", "copy", "rename", "record", "compensate", "open", "unlink",
               "drop", "attach", "ok", "refused"}

\* An entity as a request names it: strings.ToLower folds the entity type.
Reference == Entities \X {"lower", "mixed"}

ToLower(ref) == <<ref[1], "lower">>

LinkRow == [file : Uploads, entity : Reference]
ASSUME VoidIsNoRow == Void \notin LinkRow

NoFileArgs == [file |-> Void, size |-> Void, entity |-> Void, body |-> Void]

AttachInit ==
  /\ fpc = [c \in FileCallers |-> "idle"]
  /\ farg = [c \in FileCallers |-> NoFileArgs]
  /\ content = [f \in Uploads |-> Void] /\ temp = {}
  /\ file = [f \in Uploads |-> Void]
  /\ link = [a \in Links |-> Void]
  /\ breaks = 0 /\ cut = {}

StepTo(c, label, r) ==
  /\ fpc' = [fpc EXCEPT ![c] = label]
  /\ farg' = [farg EXCEPT ![c] = r]

FileGoTo(c, label) == StepTo(c, label, farg[c])

\* A store reports an error.
Breaks == breaks < MaxBreaks /\ breaks' = breaks + 1
Works == UNCHANGED breaks

HasRow(f) == file[f] \in Nat
HasContent(f) == content[f] # Void
\* The rows of entity_attachments that are there.
Attached == {a \in Links : link[a] \in LinkRow}

-----------------------------------------------------------------------------
(* UploadFile: the content first, then the row.                            *)

Acceptable(size, allowed) == size <= MaxFileSize /\ allowed

UploadFile(u) ==
  /\ fpc[u] = "idle"
  /\ \E s \in 0..MaxFileSize + 1, allowed \in BOOLEAN :
       StepTo(u, IF Acceptable(s, allowed) THEN "put" ELSE "refused",
              [NoFileArgs EXCEPT !.size = s])
  /\ UNCHANGED <<stores, breaks, cut>>

\* Put: the temporary file ...
CreateTemp(u) ==
  /\ fpc[u] = "put"
  /\ \/ Works /\ temp' = temp \cup {u} /\ FileGoTo(u, "copy")
     \/ Breaks /\ FileGoTo(u, "refused") /\ UNCHANGED temp
  /\ UNCHANGED <<content, file, link, cut>>

\* A size of 0 is taken for "not known" and not compared.
SizeMismatch(size, written) == size > 0 /\ written # size

\* ... the copy of the body, as long as it is ...
CopyContent(u) ==
  /\ fpc[u] = "copy"
  /\ \/ \E written \in 0..MaxBody :
          /\ Works
          /\ IF SizeMismatch(farg[u].size, written)
               THEN FileGoTo(u, "refused") /\ temp' = temp \ {u}
               ELSE StepTo(u, "rename", [farg[u] EXCEPT !.body = written]) /\ UNCHANGED temp
     \/ Breaks /\ FileGoTo(u, "refused") /\ temp' = temp \ {u}
  /\ UNCHANGED <<content, file, link, cut>>

\* ... and the rename; the deferred function removes what is left.
RenameTemp(u) ==
  /\ fpc[u] = "rename"
  /\ temp' = temp \ {u}
  /\ \/ Works /\ content' = [content EXCEPT ![u] = farg[u].body] /\ FileGoTo(u, "record")
     \/ Breaks /\ FileGoTo(u, "refused") /\ UNCHANGED content
  /\ UNCHANGED <<file, link, cut>>

\* INSERT INTO files, INSERT INTO entity_attachments.
InsertFile(u, size) == file' = [file EXCEPT ![u] = size]
InsertLink(a, f, e) == link' = [link EXCEPT ![a] = [file |-> f, entity |-> e]]

\* CreateFile: an error sends the call to the compensation.  The INSERT may
\* have been committed all the same, when only its answer was lost.
CreateFile(u) ==
  /\ fpc[u] = "record"
  /\ \/ Works /\ InsertFile(u, farg[u].size) /\ FileGoTo(u, "ok") /\ UNCHANGED cut
     \/ Breaks /\ FileGoTo(u, "compensate") /\ UNCHANGED <<file, cut>>
     \/ Breaks /\ FileGoTo(u, "compensate") /\ InsertFile(u, farg[u].size) /\ cut' = cut \cup {u}
  /\ UNCHANGED <<content, temp, link>>

\* Delete of the driver: a file that is not there is no error, and the
\* callers ignore the others.
DeleteContent(f) ==
  \/ Works /\ content' = [content EXCEPT ![f] = Void] /\ UNCHANGED cut
  \/ Breaks /\ cut' = cut \cup {f} /\ UNCHANGED content

Compensate(u) ==
  /\ fpc[u] = "compensate"
  /\ DeleteContent(u)
  /\ FileGoTo(u, "refused")
  /\ UNCHANGED <<temp, file, link>>

UploadStep(u) == \/ UploadFile(u) \/ CreateTemp(u) \/ CopyContent(u) \/ RenameTemp(u)
                 \/ CreateFile(u) \/ Compensate(u)

-----------------------------------------------------------------------------
(* GetFile, DeleteFile, AttachFile, DetachFile.                            *)

\* GetFileByID: the row, or ErrNotFound.
GetFileByID(c, f, next, r) == StepTo(c, IF HasRow(f) THEN next ELSE "refused", r)

\* GetFileMetadata, and GetFile up to the driver.
ReadForDownload(c) ==
  /\ fpc[c] = "idle"
  /\ \E f \in Uploads, next \in {"ok", "open"} :
       GetFileByID(c, f, next, [NoFileArgs EXCEPT !.file = f, !.size = file[f]])
  /\ UNCHANGED <<stores, breaks, cut>>

\* Get of the driver.
OpenContent(c) ==
  LET f == farg[c].file IN
  /\ fpc[c] = "open"
  /\ IF HasContent(f)
       THEN StepTo(c, "ok", [farg[c] EXCEPT !.body = content[f]])
       ELSE FileGoTo(c, "refused")
  /\ UNCHANGED <<stores, breaks, cut>>

DownloadStep(c) == ReadForDownload(c) \/ OpenContent(c)

ReadForDelete(c) ==
  /\ fpc[c] = "idle"
  /\ \E f \in Uploads : GetFileByID(c, f, "unlink", [NoFileArgs EXCEPT !.file = f])
  /\ UNCHANGED <<stores, breaks, cut>>

\* Mutant: the row is kept.
UnlinkOnly(c) ==
  /\ fpc[c] = "unlink"
  /\ DeleteContent(farg[c].file)
  /\ FileGoTo(c, "ok")
  /\ UNCHANGED <<temp, file, link>>

Unlink(c) ==
  /\ fpc[c] = "unlink"
  /\ DeleteContent(farg[c].file)
  /\ FileGoTo(c, "drop")
  /\ UNCHANGED <<temp, file, link>>

\* The DELETE, which cascades; no row is no error.
DropRow(c) ==
  LET f == farg[c].file IN
  /\ fpc[c] = "drop"
  /\ \/ /\ Works
        /\ file' = [file EXCEPT ![f] = Void]
        /\ link' = [a \in Links |-> IF a \in Attached /\ link[a].file = f THEN Void ELSE link[a]]
        /\ FileGoTo(c, "ok") /\ UNCHANGED cut
     \/ /\ Breaks
        /\ cut' = cut \cup {f}
        /\ FileGoTo(c, "refused") /\ UNCHANGED <<file, link>>
  /\ UNCHANGED <<content, temp>>

DeleteFileStep(c) == ReadForDelete(c) \/ Unlink(c) \/ DropRow(c)

AttachFile(a) ==
  /\ fpc[a] = "idle"
  /\ \E f \in Uploads, ref \in Reference :
       GetFileByID(a, f, "attach", [NoFileArgs EXCEPT !.file = f, !.entity = ToLower(ref)])
  /\ UNCHANGED <<stores, breaks, cut>>

\* Mutant: no foreign key to files.
CreateAttachmentNoReference(a) ==
  /\ fpc[a] = "attach"
  /\ InsertLink(a, farg[a].file, farg[a].entity)
  /\ FileGoTo(a, "ok")
  /\ UNCHANGED <<content, temp, file, breaks, cut>>

\* The INSERT: the foreign key refuses a file whose row has gone.
CreateAttachment(a) ==
  /\ fpc[a] = "attach"
  /\ IF HasRow(farg[a].file)
       THEN /\ InsertLink(a, farg[a].file, farg[a].entity)
            /\ FileGoTo(a, "ok")
       ELSE FileGoTo(a, "refused") /\ UNCHANGED link
  /\ UNCHANGED <<content, temp, file, breaks, cut>>

AttachStep(a) == AttachFile(a) \/ CreateAttachment(a)

DetachFile(c) ==
  /\ fpc[c] = "idle"
  /\ \E a \in Attached : link' = [link EXCEPT ![a] = Void]
  /\ FileGoTo(c, "ok")
  /\ UNCHANGED <<content, temp, file, breaks, cut>>

\* The process dies: the calls under way end where they are.  A temporary
\* file stays, since the deferred function does not run.
AttachCrash ==
  LET dead == {c \in FileCallers : fpc[c] \notin {"idle", "ok", "refused"}} IN
  /\ dead # {} /\ Breaks
  /\ fpc' = [c \in FileCallers |-> IF c \in dead THEN "refused" ELSE fpc[c]]
  /\ cut' = cut \cup (dead \cap Uploads) \cup
              {farg[c].file : c \in {d \in dead : fpc[d] \in {"unlink", "drop"}}}
  /\ UNCHANGED <<farg, stores>>

AttachNext ==
  \/ \E u \in Uploads : UploadStep(u)
  \/ \E c \in FileCalls : DownloadStep(c) \/ DeleteFileStep(c) \/ DetachFile(c)
  \/ \E a \in Links : AttachStep(a)
  \/ AttachCrash

-----------------------------------------------------------------------------
(* Properties.                                                             *)

\* Type invariant; a row never records more than the largest size allowed, while
\* content that came with the size 0 has no limit.
AttachTypeOK ==
  /\ fpc \in [FileCallers -> FileLabels]
  /\ content \in [Uploads -> 0..MaxBody \cup {Void}] /\ temp \subseteq Uploads
  /\ file \in [Uploads -> 0..MaxFileSize \cup {Void}]
  /\ link \in [Links -> LinkRow \cup {Void}]
  /\ breaks \in 0..MaxBreaks /\ cut \subseteq Uploads

\* An attachment is attached to a file whose row is there: DeleteFile, which
\* looks at no reference, races the check of AttachFile.
AttachmentsHaveFiles == \A a \in Attached : HasRow(link[a].file)

\* A row has its content, unless a DeleteFile of the file is under way or was
\* cut short, or the answer to its INSERT was lost.
RowHasContent ==
  \A f \in Uploads :
    HasRow(f) /\ ~HasContent(f)
      => f \in cut \/ \E c \in FileCalls : fpc[c] = "drop" /\ farg[c].file = f

\* Content or a temporary file has its row, unless the upload of the file is
\* under way, or it or a DeleteFile was cut short.
ContentHasRow ==
  \A f \in Uploads :
    /\ HasContent(f) /\ ~HasRow(f) => f \in cut \/ fpc[f] \in {"record", "compensate"}
    /\ f \in temp => f \in cut \/ fpc[f] \in {"copy", "rename"}

\* A download that succeeds serves the body that the upload copied, and hashed
\* for the row, whole; as many bytes as the row recorded, unless it recorded 0.
ServedAsRecorded ==
  \A c \in FileCalls : farg[c].body # Void =>
    /\ farg[c].body = farg[farg[c].file].body
    /\ farg[c].size > 0 => farg[c].body = farg[c].size

\* Table and file store agree, except about files on which a call is under way or
\* was cut short: UploadFile and DeleteFile write to both without a transaction.
StoresAgree == RowHasContent /\ ContentHasRow /\ ServedAsRecorded
=============================================================================
