---------------------------- MODULE RecordsProofs ----------------------------
(***************************************************************************)
(* Proofs about files, attachments and comments, for any number of calls.  *)
(***************************************************************************)
EXTENDS MCRecords, FiniteSetTheorems, SequenceTheorems, TLAPS

-----------------------------------------------------------------------------
(* Files and attachments.                                                  *)

FileArgs == [file : Uploads \cup {Void}, size : Nat \cup {Void},
             entity : Reference \cup {Void}, body : Nat \cup {Void}]

FilesTyped == AttachTypeOK /\ farg \in [FileCallers -> FileArgs]

\* What an upload has done where it stands, and what is left of it.
UploadOk(u) ==
  /\ fpc[u] \in {"idle", "put", "copy", "rename", "record", "compensate", "ok", "refused"}
  /\ fpc[u] \in {"put", "copy", "rename", "record", "compensate"} => farg[u].size \in 0..MaxFileSize
  /\ fpc[u] = "rename" => farg[u].body \in 0..MaxBody /\ ~ SizeMismatch(farg[u].size, farg[u].body)
  /\ fpc[u] \in {"idle", "put", "copy", "rename"} => content[u] = Void
  /\ fpc[u] \in {"idle", "put", "copy", "rename", "record"} => file[u] = Void
  /\ fpc[u] = "record" => content[u] # Void
  /\ fpc[u] = "compensate" /\ file[u] # Void => u \in cut
  /\ content[u] # Void => content[u] = farg[u].body /\ ~ SizeMismatch(farg[u].size, farg[u].body)
  /\ file[u] # Void => file[u] = farg[u].size
  /\ u \in temp => u \in cut \/ fpc[u] \in {"copy", "rename"}
  /\ content[u] # Void /\ file[u] = Void => u \in cut \/ fpc[u] \in {"record", "compensate"}

\* What a call that has found the row of a file may count on.
CallOk(c) ==
  /\ fpc[c] \in {"idle", "open", "unlink", "drop", "ok", "refused"}
  /\ fpc[c] \in {"open", "unlink", "drop"} =>
       /\ farg[c].file \in Uploads
       /\ fpc[farg[c].file] \in {"compensate", "ok", "refused"}
  /\ fpc[c] = "drop" => content[farg[c].file] = Void \/ farg[c].file \in cut
  /\ fpc[c] = "open" => farg[c].size = farg[farg[c].file].size
  /\ farg[c].body # Void =>
       /\ farg[c].file \in Uploads
       /\ fpc[farg[c].file] \in {"compensate", "ok", "refused"}
       /\ farg[c].body = farg[farg[c].file].body
       /\ ~ SizeMismatch(farg[c].size, farg[c].body)

LinkOk(a) ==
  /\ fpc[a] \in {"idle", "attach", "ok", "refused"}
  /\ fpc[a] = "attach" => farg[a].file \in Uploads /\ farg[a].entity \in Reference
  /\ link[a] # Void => link[a] \in LinkRow /\ file[link[a].file] # Void

Missed(f) == file[f] # Void /\ content[f] = Void
DropPending(f) == \E c \in FileCalls : fpc[c] = "drop" /\ farg[c].file = f

\* The inductive invariant of Attachments.
AttachInv ==
  /\ FilesTyped
  /\ \A u \in Uploads : UploadOk(u)
  /\ \A c \in FileCalls : CallOk(c)
  /\ \A a \in Links : LinkOk(a)
  /\ \A f \in Uploads : Missed(f) => f \in cut \/ DropPending(f)

LEMMA VoidFacts == Void \notin Nat /\ Void \notin Uploads /\ Void \notin LinkRow
                   /\ \A n \in Nat : \A i \in 0..n : i \in Nat /\ i # Void
BY VoidIsNothing, VoidIsNoRow

LEMMA CallersDiffer ==
  /\ \A u \in Uploads : u \in FileCallers /\ u \notin FileCalls /\ u \notin Links
  /\ \A c \in FileCalls : c \in FileCallers /\ c \notin Uploads /\ c \notin Links
  /\ \A a \in Links : a \in FileCallers /\ a \notin Uploads /\ a \notin FileCalls
BY FileCallsDisjoint DEF FileCallers

LEMMA RowIsThere ==
  ASSUME FilesTyped
  PROVE  \A f \in Uploads : /\ HasRow(f) <=> file[f] # Void
                            /\ HasRow(f) => file[f] \in Nat
BY VoidFacts, SizeBound DEF FilesTyped, AttachTypeOK, HasRow

LEMMA AttachInitInv ==
  ASSUME AttachInit
  PROVE  AttachInv
<1> USE DEF AttachInit
<1>1. NoFileArgs \in FileArgs /\ NoFileArgs.body = Void BY DEF NoFileArgs, FileArgs
<1>2. farg \in [FileCallers -> FileArgs] BY <1>1
<1>3. fpc \in [FileCallers -> FileLabels] BY DEF FileLabels
<1>4. AttachTypeOK BY <1>3, SizeBound DEF AttachTypeOK
<1>5. \A u \in Uploads : UploadOk(u) BY CallersDiffer DEF UploadOk
<1>6. \A c \in FileCalls : CallOk(c) BY <1>1, CallersDiffer DEF CallOk
<1>7. \A a \in Links : LinkOk(a) BY CallersDiffer DEF LinkOk
<1>8. \A f \in Uploads : ~ Missed(f) BY DEF Missed
<1> QED BY <1>2, <1>4, <1>5, <1>6, <1>7, <1>8 DEF AttachInv, FilesTyped

\* The step of a caller: what the others have stays.
LEMMA StepPlaces ==
  ASSUME FilesTyped, NEW c \in FileCallers, NEW l \in FileLabels, NEW r \in FileArgs, StepTo(c, l, r)
  PROVE  /\ fpc' \in [FileCallers -> FileLabels] /\ farg' \in [FileCallers -> FileArgs]
         /\ fpc'[c] = l /\ farg'[c] = r
         /\ \A d \in FileCallers : d # c => fpc'[d] = fpc[d] /\ farg'[d] = farg[d]
BY DEF FilesTyped, AttachTypeOK, StepTo

LEMMA BreaksTyped ==
  ASSUME FilesTyped, Breaks \/ Works
  PROVE  breaks' \in 0..MaxBreaks
BY SizeBound DEF FilesTyped, AttachTypeOK, Breaks, Works

\* A step of an upload that leaves the table of links alone and, while anybody has
\* found its row, the sizes.
LEMMA UploadMoves ==
  ASSUME AttachInv, NEW u \in Uploads, NEW l \in FileLabels, NEW r \in FileArgs, StepTo(u, l, r),
         breaks' \in 0..MaxBreaks, UNCHANGED link,
         content' \in [Uploads -> 0..MaxBody \cup {Void}],
         file' \in [Uploads -> 0..MaxFileSize \cup {Void}], temp' \subseteq Uploads,
         cut' \subseteq Uploads, cut \subseteq cut',
         \A v \in Uploads : v # u => /\ content'[v] = content[v] /\ file'[v] = file[v]
                                     /\ v \in temp' => v \in temp,
         UploadOk(u)',
         file[u] # Void => file'[u] # Void,
         content[u] = Void => content'[u] = Void \/ fpc[u] = "rename",
         Missed(u)' => u \in cut' \/ Missed(u),
         fpc[u] \in {"compensate", "ok", "refused"} =>
           l \in {"compensate", "ok", "refused"} /\ r.size = farg[u].size /\ r.body = farg[u].body
  PROVE  AttachInv'
<1>1. FilesTyped BY DEF AttachInv
<1>2. /\ fpc' \in [FileCallers -> FileLabels] /\ farg' \in [FileCallers -> FileArgs]
      /\ fpc'[u] = l /\ farg'[u] = r
      /\ \A d \in FileCallers : d # u => fpc'[d] = fpc[d] /\ farg'[d] = farg[d]
  BY <1>1, StepPlaces, CallersDiffer
<1>3. FilesTyped' BY <1>1, <1>2 DEF FilesTyped, AttachTypeOK
<1>4. \A v \in Uploads : UploadOk(v)'
  <2>1. SUFFICES ASSUME NEW v \in Uploads, v # u PROVE UploadOk(v)' OBVIOUS
  <2>2. UploadOk(v) BY DEF AttachInv
  <2>3. fpc'[v] = fpc[v] /\ farg'[v] = farg[v] BY <1>2, <2>1, CallersDiffer
  <2> QED BY <2>1, <2>2, <2>3 DEF UploadOk
<1>5. \A c \in FileCalls : CallOk(c)'
  <2>1. SUFFICES ASSUME NEW c \in FileCalls PROVE CallOk(c)' OBVIOUS
  <2>2. CallOk(c) BY DEF AttachInv
  <2>3. fpc'[c] = fpc[c] /\ farg'[c] = farg[c] BY <1>2, CallersDiffer
  <2>4. ASSUME NEW f \in Uploads, fpc[f] \in {"compensate", "ok", "refused"}
        PROVE  /\ fpc'[f] \in {"compensate", "ok", "refused"} /\ farg'[f].size = farg[f].size
               /\ farg'[f].body = farg[f].body
               /\ content[f] = Void => content'[f] = Void
    <3>1. CASE f = u BY <1>2, <2>4, <3>1
    <3>2. CASE f # u BY <1>2, <2>4, <3>2, CallersDiffer
    <3> QED BY <3>1, <3>2
  <2> QED BY <2>2, <2>3, <2>4 DEF CallOk
<1>6. \A a \in Links : LinkOk(a)'
  <2>1. SUFFICES ASSUME NEW a \in Links PROVE LinkOk(a)' OBVIOUS
  <2>2. LinkOk(a) BY DEF AttachInv
  <2>3. fpc'[a] = fpc[a] /\ farg'[a] = farg[a] BY <1>2, CallersDiffer
  <2>4. \A f \in Uploads : file[f] # Void => file'[f] # Void OBVIOUS
  <2> QED BY <2>2, <2>3, <2>4 DEF LinkOk, LinkRow
<1>7. ASSUME NEW f \in Uploads, Missed(f)' PROVE f \in cut' \/ DropPending(f)'
  <2>1. f \in cut' \/ Missed(f) BY <1>7 DEF Missed
  <2>2. Missed(f) => f \in cut \/ DropPending(f) BY DEF AttachInv
  <2>3. DropPending(f) => DropPending(f)' BY <1>2, CallersDiffer DEF DropPending
  <2> QED BY <2>1, <2>2, <2>3
<1> QED BY <1>3, <1>4, <1>5, <1>6, <1>7 DEF AttachInv

LEMMA UploadTyped ==
  ASSUME AttachInv, NEW u \in FileCallers
  PROVE  /\ FilesTyped /\ farg[u] \in FileArgs
         /\ content \in [Uploads -> 0..MaxBody \cup {Void}]
         /\ file \in [Uploads -> 0..MaxFileSize \cup {Void}]
         /\ temp \subseteq Uploads /\ cut \subseteq Uploads /\ breaks \in 0..MaxBreaks
BY DEF AttachInv, FilesTyped, AttachTypeOK

LEMMA UploadFileKeeps ==
  ASSUME AttachInv, NEW u \in Uploads, UploadFile(u)
  PROVE  AttachInv'
<1>1. fpc[u] = "idle" /\ UNCHANGED <<content, temp, file, link, breaks, cut>>
  BY DEF UploadFile, stores
<1>2. PICK s \in 0..MaxFileSize + 1, allowed \in BOOLEAN :
        StepTo(u, IF Acceptable(s, allowed) THEN "put" ELSE "refused", [NoFileArgs EXCEPT !.size = s])
  BY DEF UploadFile
<1>3. PICK l \in FileLabels : /\ l = IF Acceptable(s, allowed) THEN "put" ELSE "refused"
                              /\ l \in {"put", "refused"}
  BY DEF FileLabels
<1>4. PICK r : r = [NoFileArgs EXCEPT !.size = s] OBVIOUS
<1>5. r \in FileArgs /\ r.size = s BY <1>4, SizeBound DEF NoFileArgs, FileArgs
<1>6. l = "put" => s \in 0..MaxFileSize BY <1>3, SizeBound DEF Acceptable
<1>7. StepTo(u, l, r) BY <1>2, <1>3, <1>4
<1>8. u \in FileCallers /\ FilesTyped BY CallersDiffer DEF AttachInv
<1>9. fpc'[u] = l /\ farg'[u] = r BY <1>5, <1>7, <1>8, StepPlaces
<1>10. UploadOk(u) BY DEF AttachInv
<1>11. UploadOk(u)' BY <1>1, <1>3, <1>5, <1>6, <1>9, <1>10 DEF UploadOk
<1> QED BY <1>1, <1>5, <1>7, <1>8, <1>11, UploadMoves, UploadTyped DEF Missed

LEMMA CreateTempKeeps ==
  ASSUME AttachInv, NEW u \in Uploads, CreateTemp(u)
  PROVE  AttachInv'
<1>1. fpc[u] = "put" /\ UNCHANGED <<content, file, link, cut>> BY DEF CreateTemp
<1>2. PICK l \in {"copy", "refused"} : /\ StepTo(u, l, farg[u]) /\ (Works \/ Breaks)
                                       /\ \/ l = "copy" /\ temp' = temp \cup {u}
                                          \/ l = "refused" /\ temp' = temp
  BY DEF CreateTemp, FileGoTo
<1>3. u \in FileCallers /\ l \in FileLabels BY CallersDiffer DEF FileLabels
<1>4. breaks' \in 0..MaxBreaks BY <1>2, <1>3, UploadTyped, BreaksTyped
<1>5. fpc'[u] = l /\ farg'[u] = farg[u] BY <1>2, <1>3, StepPlaces, UploadTyped
<1>6. UploadOk(u) BY DEF AttachInv
<1>7. UploadOk(u)' BY <1>1, <1>2, <1>5, <1>6 DEF UploadOk
<1>8. temp' \subseteq Uploads /\ \A v \in Uploads : v # u => (v \in temp' => v \in temp)
  BY <1>2, <1>3, UploadTyped
<1> QED BY <1>1, <1>2, <1>3, <1>4, <1>7, <1>8, UploadMoves, UploadTyped DEF Missed

LEMMA CopyContentKeeps ==
  ASSUME AttachInv, NEW u \in Uploads, CopyContent(u)
  PROVE  AttachInv'
<1>1. fpc[u] = "copy" /\ UNCHANGED <<content, file, link, cut>> BY DEF CopyContent
<1>2. u \in FileCallers /\ UploadOk(u) BY CallersDiffer DEF AttachInv
<1>3. farg[u].size \in 0..MaxFileSize /\ farg[u].size \in Nat BY <1>1, <1>2, SizeBound DEF UploadOk
<1>4. PICK l \in {"rename", "refused"}, r \in FileArgs :
        /\ StepTo(u, l, r) /\ (Works \/ Breaks) /\ r.size = farg[u].size
        /\ \/ l = "rename" /\ temp' = temp /\ r.body \in 0..MaxBody /\ ~ SizeMismatch(r.size, r.body)
           \/ l = "refused" /\ temp' = temp \ {u}
  <2>1. farg[u] \in FileArgs BY <1>2, UploadTyped
  <2>2. CASE Breaks /\ FileGoTo(u, "refused") /\ temp' = temp \ {u} BY <2>1, <2>2 DEF FileGoTo
  <2>3. ASSUME NEW written \in 0..MaxBody, Works, SizeMismatch(farg[u].size, written),
               FileGoTo(u, "refused") /\ temp' = temp \ {u}
        PROVE  StepTo(u, "refused", farg[u]) /\ Works /\ temp' = temp \ {u}
    BY <2>3 DEF FileGoTo
  <2>4. ASSUME NEW written \in 0..MaxBody, Works, ~ SizeMismatch(farg[u].size, written),
               StepTo(u, "rename", [farg[u] EXCEPT !.body = written]) /\ UNCHANGED temp
        PROVE  \E r \in FileArgs : /\ StepTo(u, "rename", r) /\ r.size = farg[u].size
                                   /\ r.body \in 0..MaxBody /\ ~ SizeMismatch(r.size, r.body)
    <3>1. PICK r : r = [farg[u] EXCEPT !.body = written] OBVIOUS
    <3>2. written \in Nat BY SizeBound
    <3>3. r \in FileArgs /\ r.body = written /\ r.size = farg[u].size BY <2>1, <3>1, <3>2 DEF FileArgs
    <3> QED BY <2>4, <3>1, <3>3
  <2>5. CASE \E written \in 0..MaxBody :
               /\ Works
               /\ IF SizeMismatch(farg[u].size, written)
                    THEN FileGoTo(u, "refused") /\ temp' = temp \ {u}
                    ELSE StepTo(u, "rename", [farg[u] EXCEPT !.body = written]) /\ UNCHANGED temp
    <3>1. PICK written \in 0..MaxBody :
               /\ Works
               /\ IF SizeMismatch(farg[u].size, written)
                    THEN FileGoTo(u, "refused") /\ temp' = temp \ {u}
                    ELSE StepTo(u, "rename", [farg[u] EXCEPT !.body = written]) /\ UNCHANGED temp
      BY <2>5
    <3>2. CASE SizeMismatch(farg[u].size, written) BY <2>1, <2>3, <3>1, <3>2
    <3>3. CASE ~ SizeMismatch(farg[u].size, written) BY <2>4, <3>1, <3>3
    <3> QED BY <3>2, <3>3
  <2> QED BY <2>2, <2>5 DEF CopyContent
<1>5. l \in FileLabels BY DEF FileLabels
<1>6. breaks' \in 0..MaxBreaks BY <1>2, <1>4, UploadTyped, BreaksTyped
<1>7. fpc'[u] = l /\ farg'[u] = r BY <1>2, <1>4, <1>5, StepPlaces, UploadTyped
<1>8. UploadOk(u)' BY <1>1, <1>2, <1>4, <1>7 DEF UploadOk
<1>9. temp' \subseteq Uploads /\ \A v \in Uploads : v # u => (v \in temp' => v \in temp)
  BY <1>2, <1>4, UploadTyped
<1> QED BY <1>1, <1>2, <1>4, <1>5, <1>6, <1>8, <1>9, UploadMoves, UploadTyped DEF Missed

LEMMA RenameTempKeeps ==
  ASSUME AttachInv, NEW u \in Uploads, RenameTemp(u)
  PROVE  AttachInv'
<1>1. fpc[u] = "rename" /\ UNCHANGED <<file, link, cut>> /\ temp' = temp \ {u} BY DEF RenameTemp
<1>2. u \in FileCallers /\ UploadOk(u) BY CallersDiffer DEF AttachInv
<1>3. /\ farg[u].body \in 0..MaxBody /\ ~ SizeMismatch(farg[u].size, farg[u].body)
      /\ farg[u].size \in 0..MaxFileSize /\ farg[u].body # Void
  BY <1>1, <1>2, SizeBound, VoidFacts DEF UploadOk
<1>4. PICK l \in {"record", "refused"} :
        /\ StepTo(u, l, farg[u]) /\ (Works \/ Breaks)
        /\ \/ l = "record" /\ content' = [content EXCEPT ![u] = farg[u].body]
           \/ l = "refused" /\ content' = content
  BY DEF RenameTemp, FileGoTo
<1>5. l \in FileLabels BY DEF FileLabels
<1>6. breaks' \in 0..MaxBreaks BY <1>2, <1>4, UploadTyped, BreaksTyped
<1>7. fpc'[u] = l /\ farg'[u] = farg[u] BY <1>2, <1>4, <1>5, StepPlaces, UploadTyped
<1>8. /\ content' \in [Uploads -> 0..MaxBody \cup {Void}]
      /\ \A v \in Uploads : v # u => content'[v] = content[v]
      /\ content'[u] = (IF l = "record" THEN farg[u].body ELSE content[u])
  BY <1>2, <1>3, <1>4, UploadTyped
<1>9. UploadOk(u)' BY <1>1, <1>2, <1>3, <1>4, <1>7, <1>8 DEF UploadOk
<1>10. temp' \subseteq Uploads /\ \A v \in Uploads : v # u => (v \in temp' => v \in temp)
  BY <1>1, <1>2, UploadTyped
<1>11. ~ Missed(u)' BY <1>1, <1>2 DEF Missed, UploadOk
<1> QED BY <1>1, <1>2, <1>4, <1>5, <1>6, <1>8, <1>9, <1>10, <1>11, UploadMoves, UploadTyped

LEMMA CreateFileKeeps ==
  ASSUME AttachInv, NEW u \in Uploads, CreateFile(u)
  PROVE  AttachInv'
<1>1. fpc[u] = "record" /\ UNCHANGED <<content, temp, link>> BY DEF CreateFile
<1>2. u \in FileCallers /\ UploadOk(u) BY CallersDiffer DEF AttachInv
<1>3. farg[u].size \in 0..MaxFileSize /\ farg[u].size # Void
  BY <1>1, <1>2, SizeBound, VoidFacts DEF UploadOk
<1>4. PICK l \in {"ok", "compensate"} :
        /\ StepTo(u, l, farg[u]) /\ (Works \/ Breaks)
        /\ \/ l = "ok" /\ file' = [file EXCEPT ![u] = farg[u].size] /\ cut' = cut
           \/ l = "compensate" /\ file' = file /\ cut' = cut
           \/ l = "compensate" /\ file' = [file EXCEPT ![u] = farg[u].size] /\ cut' = cut \cup {u}
  BY DEF CreateFile, FileGoTo, InsertFile
<1>5. l \in FileLabels BY DEF FileLabels
<1>6. breaks' \in 0..MaxBreaks BY <1>2, <1>4, UploadTyped, BreaksTyped
<1>7. fpc'[u] = l /\ farg'[u] = farg[u] BY <1>2, <1>4, <1>5, StepPlaces, UploadTyped
<1>8. /\ file' \in [Uploads -> 0..MaxFileSize \cup {Void}]
      /\ \A v \in Uploads : v # u => file'[v] = file[v]
      /\ file'[u] \in {file[u], farg[u].size} /\ (l = "ok" => file'[u] = farg[u].size)
      /\ (file'[u] # file[u] => file'[u] = farg[u].size)
      /\ l = "compensate" => file'[u] = file[u] \/ u \in cut'
      /\ cut' \subseteq Uploads /\ cut \subseteq cut'
  BY <1>2, <1>3, <1>4, UploadTyped
<1>9. UploadOk(u)' BY <1>1, <1>2, <1>3, <1>4, <1>7, <1>8 DEF UploadOk
<1>10. ~ Missed(u)' BY <1>1, <1>2 DEF Missed, UploadOk
<1>11. file[u] # Void => file'[u] # Void BY <1>3, <1>8
<1> QED BY <1>1, <1>2, <1>4, <1>5, <1>6, <1>8, <1>9, <1>10, <1>11, UploadMoves, UploadTyped

LEMMA CompensateKeeps ==
  ASSUME AttachInv, NEW u \in Uploads, Compensate(u)
  PROVE  AttachInv'
<1>1. fpc[u] = "compensate" /\ UNCHANGED <<temp, file, link>> /\ StepTo(u, "refused", farg[u])
  BY DEF Compensate, FileGoTo
<1>2. u \in FileCallers /\ UploadOk(u) BY CallersDiffer DEF AttachInv
<1>3. /\ Works \/ Breaks
      /\ \/ content' = [content EXCEPT ![u] = Void] /\ cut' = cut
         \/ content' = content /\ cut' = cut \cup {u}
  BY DEF Compensate, DeleteContent
<1>4. "refused" \in FileLabels BY DEF FileLabels
<1>5. breaks' \in 0..MaxBreaks BY <1>2, <1>3, UploadTyped, BreaksTyped
<1>6. fpc'[u] = "refused" /\ farg'[u] = farg[u] BY <1>1, <1>2, <1>4, StepPlaces, UploadTyped
<1>7. /\ content' \in [Uploads -> 0..MaxBody \cup {Void}]
      /\ \A v \in Uploads : v # u => content'[v] = content[v]
      /\ content'[u] = Void \/ (content'[u] = content[u] /\ u \in cut')
      /\ cut' \subseteq Uploads /\ cut \subseteq cut'
  BY <1>2, <1>3, UploadTyped
<1>8. UploadOk(u)' BY <1>1, <1>2, <1>6, <1>7 DEF UploadOk
<1>9. Missed(u)' => u \in cut' BY <1>1, <1>2, <1>7 DEF Missed, UploadOk
<1> QED BY <1>1, <1>2, <1>4, <1>5, <1>7, <1>8, <1>9, UploadMoves, UploadTyped

\* A step of a caller that is no upload: uploads stay where they are.
LEMMA OthersMove ==
  ASSUME AttachInv, NEW c \in FileCalls \cup Links, NEW l \in FileLabels, NEW r \in FileArgs,
         StepTo(c, l, r), breaks' \in 0..MaxBreaks, UNCHANGED temp,
         content' \in [Uploads -> 0..MaxBody \cup {Void}],
         file' \in [Uploads -> 0..MaxFileSize \cup {Void}],
         link' \in [Links -> LinkRow \cup {Void}],
         cut' \subseteq Uploads, cut \subseteq cut',
         \A f \in Uploads : /\ content'[f] = content[f] \/ content'[f] = Void
                            /\ file'[f] = file[f] \/ file'[f] = Void
                            /\ content'[f] # content[f] \/ file'[f] # file[f]
                                 => fpc[f] \in {"compensate", "ok", "refused"}
                            /\ file'[f] # file[f] => content'[f] = Void \/ f \in cut'
                            /\ Missed(f)' => f \in cut' \/ DropPending(f)',
         c \in FileCalls => CallOk(c)',
         \A a \in Links : link'[a] # Void => link'[a] \in LinkRow /\ file'[link'[a].file] # Void,
         c \in Links => /\ l \in {"attach", "ok", "refused"}
                        /\ l = "attach" => r.file \in Uploads /\ r.entity \in Reference
  PROVE  AttachInv'
<1>1. FilesTyped BY DEF AttachInv
<1>2. c \in FileCallers /\ c \notin Uploads BY CallersDiffer
<1>3. /\ fpc' \in [FileCallers -> FileLabels] /\ farg' \in [FileCallers -> FileArgs]
      /\ fpc'[c] = l /\ farg'[c] = r
      /\ \A d \in FileCallers : d # c => fpc'[d] = fpc[d] /\ farg'[d] = farg[d]
  BY <1>1, <1>2, StepPlaces
<1>4. FilesTyped' BY <1>1, <1>3 DEF FilesTyped, AttachTypeOK
<1>5. \A u \in Uploads : fpc'[u] = fpc[u] /\ farg'[u] = farg[u] BY <1>2, <1>3, CallersDiffer
<1>6. \A u \in Uploads : UploadOk(u)'
  <2>1. SUFFICES ASSUME NEW u \in Uploads PROVE UploadOk(u)' OBVIOUS
  <2>2. UploadOk(u) BY DEF AttachInv
  <2> QED BY <1>5, <2>2 DEF UploadOk
<1>7. \A d \in FileCalls : CallOk(d)'
  <2>1. SUFFICES ASSUME NEW d \in FileCalls, d # c PROVE CallOk(d)' OBVIOUS
  <2>2. CallOk(d) /\ fpc'[d] = fpc[d] /\ farg'[d] = farg[d]
    BY <1>3, <2>1, CallersDiffer DEF AttachInv
  <2> QED BY <1>5, <2>2 DEF CallOk
<1>8. \A a \in Links : LinkOk(a)'
  <2>1. SUFFICES ASSUME NEW a \in Links PROVE LinkOk(a)' OBVIOUS
  <2>2. LinkOk(a) /\ (a # c => fpc'[a] = fpc[a] /\ farg'[a] = farg[a])
    BY <1>3, CallersDiffer DEF AttachInv
  <2> QED BY <1>3, <2>2 DEF LinkOk
<1> QED BY <1>4, <1>6, <1>7, <1>8 DEF AttachInv

\* A step that only moves a caller.
LEMMA OnlyMoves ==
  ASSUME AttachInv, NEW c \in FileCalls \cup Links, NEW l \in FileLabels, NEW r \in FileArgs,
         StepTo(c, l, r), UNCHANGED <<content, temp, file, link, breaks, cut>>,
         fpc[c] # "drop", c \in FileCalls => CallOk(c)',
         c \in Links => /\ l \in {"attach", "ok", "refused"}
                        /\ l = "attach" => r.file \in Uploads /\ r.entity \in Reference
  PROVE  AttachInv'
<1>1. FilesTyped /\ c \in FileCallers BY CallersDiffer DEF AttachInv
<1>2. \A d \in FileCallers : d # c => fpc'[d] = fpc[d] /\ farg'[d] = farg[d]
  BY <1>1, StepPlaces
<1>3. ASSUME NEW f \in Uploads, Missed(f)' PROVE f \in cut' \/ DropPending(f)'
  <2>1. f \in cut \/ DropPending(f) BY <1>3 DEF AttachInv, Missed
  <2>2. DropPending(f) => DropPending(f)' BY <1>2, CallersDiffer DEF DropPending
  <2> QED BY <2>1, <2>2
<1>4. link \in [Links -> LinkRow \cup {Void}] BY <1>1 DEF FilesTyped, AttachTypeOK
<1>5. \A a \in Links : link[a] # Void => link[a] \in LinkRow /\ file[link[a].file] # Void
  BY DEF AttachInv, LinkOk
<1> QED BY <1>1, <1>3, <1>4, <1>5, OthersMove, UploadTyped

LEMMA DownloadKeeps ==
  ASSUME AttachInv, NEW c \in FileCalls, DownloadStep(c)
  PROVE  AttachInv'
<1>1. c \in FileCallers /\ FilesTyped /\ CallOk(c) BY CallersDiffer DEF AttachInv
<1>2. CASE ReadForDownload(c)
  <2>1. fpc[c] = "idle" /\ UNCHANGED <<content, temp, file, link, breaks, cut>>
    BY <1>2 DEF ReadForDownload, stores
  <2>2. PICK f \in Uploads, next \in {"ok", "open"} :
          StepTo(c, IF HasRow(f) THEN next ELSE "refused", [NoFileArgs EXCEPT !.file = f, !.size = file[f]])
    BY <1>2 DEF ReadForDownload, GetFileByID
  <2>3. PICK r : r = [NoFileArgs EXCEPT !.file = f, !.size = file[f]] OBVIOUS
  <2>4. file[f] \in Nat \cup {Void} BY <1>1, UploadTyped, VoidFacts, SizeBound
  <2>5. r \in FileArgs /\ r.size = file[f] /\ r.file = f /\ r.body = Void
    BY <2>3, <2>4 DEF NoFileArgs, FileArgs
  <2>6. PICK l \in FileLabels : l = (IF HasRow(f) THEN next ELSE "refused")
                                /\ l \in {"ok", "open", "refused"}
    BY DEF FileLabels
  <2>7. StepTo(c, l, r) BY <2>2, <2>3, <2>6
  <2>8. fpc'[c] = l /\ farg'[c] = r /\ fpc'[f] = fpc[f] /\ farg'[f] = farg[f]
    BY <1>1, <2>5, <2>7, StepPlaces, CallersDiffer
  <2>9. l = "open" => file[f] # Void BY <1>1, <2>6, RowIsThere
  <2>10. UploadOk(f) BY DEF AttachInv
  <2>11. CallOk(c)' BY <2>5, <2>6, <2>8, <2>9, <2>10 DEF CallOk, UploadOk
  <2> QED BY <2>1, <2>5, <2>7, <2>11, OnlyMoves, CallersDiffer
<1>3. CASE OpenContent(c)
  <2>1. fpc[c] = "open" /\ UNCHANGED <<content, temp, file, link, breaks, cut>>
    BY <1>3 DEF OpenContent, stores
  <2>2. PICK f \in Uploads : f = farg[c].file BY <1>1, <2>1 DEF CallOk
  <2>3. farg[c] \in FileArgs /\ content[f] \in Nat \cup {Void} /\ UploadOk(f)
    BY <1>1, UploadTyped, VoidFacts, SizeBound DEF AttachInv
  <2>4. PICK l \in {"ok", "refused"}, r \in FileArgs :
          /\ StepTo(c, l, r) /\ r.size = farg[c].size /\ r.file = f
          /\ r.body = farg[c].body \/ (content[f] # Void /\ r.body = content[f])
    <3>1. CASE HasContent(f)
      <4>1. PICK r : r = [farg[c] EXCEPT !.body = content[f]] OBVIOUS
      <4>2. r \in FileArgs /\ r.size = farg[c].size /\ r.body = content[f] /\ r.file = f
        BY <2>2, <2>3, <4>1 DEF FileArgs
      <4> QED BY <1>3, <2>2, <3>1, <4>1, <4>2 DEF OpenContent, HasContent
    <3>2. CASE ~ HasContent(f) BY <1>3, <2>2, <2>3, <3>2 DEF OpenContent, FileGoTo
    <3> QED BY <3>1, <3>2
  <2>5. l \in FileLabels BY DEF FileLabels
  <2>6. fpc'[c] = l /\ farg'[c] = r /\ fpc'[f] = fpc[f] /\ farg'[f] = farg[f]
    BY <1>1, <2>4, <2>5, StepPlaces, CallersDiffer
  <2>7. CallOk(c)' BY <1>1, <2>1, <2>2, <2>3, <2>4, <2>6 DEF CallOk, UploadOk
  <2> QED BY <2>1, <2>4, <2>5, <2>7, OnlyMoves, CallersDiffer
<1> QED BY <1>2, <1>3 DEF DownloadStep

LEMMA ReadForDeleteKeeps ==
  ASSUME AttachInv, NEW c \in FileCalls, ReadForDelete(c)
  PROVE  AttachInv'
<1>1. c \in FileCallers /\ FilesTyped /\ CallOk(c) BY CallersDiffer DEF AttachInv
<1>2. fpc[c] = "idle" /\ UNCHANGED <<content, temp, file, link, breaks, cut>>
  BY DEF ReadForDelete, stores
<1>3. PICK f \in Uploads :
        StepTo(c, IF HasRow(f) THEN "unlink" ELSE "refused", [NoFileArgs EXCEPT !.file = f])
  BY DEF ReadForDelete, GetFileByID
<1>4. PICK r : r = [NoFileArgs EXCEPT !.file = f] OBVIOUS
<1>5. r \in FileArgs /\ r.file = f /\ r.body = Void BY <1>4 DEF NoFileArgs, FileArgs
<1>6. PICK l \in FileLabels : l = (IF HasRow(f) THEN "unlink" ELSE "refused")
                              /\ l \in {"unlink", "refused"}
  BY DEF FileLabels
<1>7. StepTo(c, l, r) BY <1>3, <1>4, <1>6
<1>8. fpc'[c] = l /\ farg'[c] = r /\ fpc'[f] = fpc[f]
  BY <1>1, <1>5, <1>7, StepPlaces, CallersDiffer
<1>9. l = "unlink" => file[f] # Void BY <1>1, <1>6, RowIsThere
<1>10. UploadOk(f) BY DEF AttachInv
<1>11. CallOk(c)' BY <1>5, <1>6, <1>8, <1>9, <1>10 DEF CallOk, UploadOk
<1> QED BY <1>2, <1>5, <1>7, <1>11, OnlyMoves, CallersDiffer

LEMMA UnlinkKeeps ==
  ASSUME AttachInv, NEW c \in FileCalls, Unlink(c)
  PROVE  AttachInv'
<1>1. c \in FileCallers /\ FilesTyped /\ CallOk(c) BY CallersDiffer DEF AttachInv
<1>2. fpc[c] = "unlink" /\ UNCHANGED <<temp, file, link>> /\ StepTo(c, "drop", farg[c])
  BY DEF Unlink, FileGoTo
<1>3. PICK f \in Uploads : f = farg[c].file BY <1>1, <1>2 DEF CallOk
<1>4. /\ Works \/ Breaks
      /\ \/ content' = [content EXCEPT ![f] = Void] /\ cut' = cut
         \/ content' = content /\ cut' = cut \cup {f}
  BY <1>3 DEF Unlink, DeleteContent
<1>5. "drop" \in FileLabels BY DEF FileLabels
<1>6. breaks' \in 0..MaxBreaks BY <1>1, <1>4, BreaksTyped
<1>7. farg[c] \in FileArgs BY <1>1, UploadTyped
<1>8. fpc'[c] = "drop" /\ farg'[c] = farg[c]
      /\ \A d \in FileCallers : d # c => fpc'[d] = fpc[d] /\ farg'[d] = farg[d]
  BY <1>1, <1>2, <1>5, <1>7, StepPlaces
<1>9. /\ content' \in [Uploads -> 0..MaxBody \cup {Void}]
      /\ \A v \in Uploads : v # f => content'[v] = content[v]
      /\ content'[f] = Void \/ (content'[f] = content[f] /\ f \in cut')
      /\ cut' \subseteq Uploads /\ cut \subseteq cut'
  BY <1>1, <1>4, UploadTyped
<1>10. CallOk(c)' BY <1>1, <1>2, <1>3, <1>8, <1>9, CallersDiffer DEF CallOk
<1>11. DropPending(f)' BY <1>3, <1>8 DEF DropPending
<1>12. ASSUME NEW g \in Uploads, Missed(g)' PROVE g \in cut' \/ DropPending(g)'
  <2>1. CASE g = f BY <1>11, <2>1
  <2>2. CASE g # f
    <3>1. g \in cut \/ DropPending(g) BY <1>2, <1>9, <1>12, <2>2 DEF AttachInv, Missed
    <3>2. DropPending(g) => DropPending(g)' BY <1>8, CallersDiffer DEF DropPending
    <3> QED BY <1>9, <3>1, <3>2
  <2> QED BY <2>1, <2>2
<1>13. fpc[f] \in {"compensate", "ok", "refused"} BY <1>1, <1>2, <1>3 DEF CallOk
<1>14. link' \in [Links -> LinkRow \cup {Void}] BY <1>1, <1>2 DEF FilesTyped, AttachTypeOK
<1>15. \A a \in Links : link'[a] # Void => link'[a] \in LinkRow /\ file'[link'[a].file] # Void
  BY <1>2 DEF AttachInv, LinkOk
<1> QED
  BY <1>1, <1>2, <1>5, <1>6, <1>7, <1>9, <1>10, <1>12, <1>13, <1>14, <1>15, OthersMove,
     UploadTyped, CallersDiffer

LEMMA DropRowKeeps ==
  ASSUME AttachInv, NEW c \in FileCalls, DropRow(c)
  PROVE  AttachInv'
<1>1. c \in FileCallers /\ FilesTyped /\ CallOk(c) BY CallersDiffer DEF AttachInv
<1>2. fpc[c] = "drop" /\ UNCHANGED <<content, temp>> BY DEF DropRow
<1>3. PICK f \in Uploads : f = farg[c].file BY <1>1, <1>2 DEF CallOk
<1>4. PICK l \in {"ok", "refused"} :
        /\ StepTo(c, l, farg[c]) /\ (Works \/ Breaks)
        /\ \/ /\ file' = [file EXCEPT ![f] = Void] /\ cut' = cut
              /\ link' = [a \in Links |-> IF a \in Attached /\ link[a].file = f THEN Void ELSE link[a]]
           \/ file' = file /\ link' = link /\ cut' = cut \cup {f}
  BY <1>3 DEF DropRow, FileGoTo
<1>5. l \in FileLabels BY DEF FileLabels
<1>6. breaks' \in 0..MaxBreaks BY <1>1, <1>4, BreaksTyped
<1>7. farg[c] \in FileArgs BY <1>1, UploadTyped
<1>8. fpc'[c] = l /\ farg'[c] = farg[c]
      /\ \A d \in FileCallers : d # c => fpc'[d] = fpc[d] /\ farg'[d] = farg[d]
  BY <1>1, <1>4, <1>5, <1>7, StepPlaces
<1>9. /\ file' \in [Uploads -> 0..MaxFileSize \cup {Void}]
      /\ \A v \in Uploads : v # f => file'[v] = file[v]
      /\ file'[f] = Void \/ (file'[f] = file[f] /\ f \in cut')
      /\ cut' \subseteq Uploads /\ cut \subseteq cut'
  BY <1>1, <1>4, UploadTyped
<1>10. CallOk(c)' BY <1>1, <1>2, <1>4, <1>8, CallersDiffer DEF CallOk
<1>11. ASSUME NEW g \in Uploads, Missed(g)' PROVE g \in cut' \/ DropPending(g)'
  <2>1. CASE g = f BY <1>9, <1>11, <2>1 DEF Missed
  <2>2. CASE g # f
    <3>1. g \in cut \/ DropPending(g) BY <1>2, <1>9, <1>11, <2>2 DEF AttachInv, Missed
    <3>2. DropPending(g) => DropPending(g)' BY <1>3, <1>8, <2>2, CallersDiffer DEF DropPending
    <3> QED BY <1>9, <3>1, <3>2
  <2> QED BY <2>1, <2>2
<1>12. fpc[f] \in {"compensate", "ok", "refused"} /\ (content[f] = Void \/ f \in cut)
  BY <1>1, <1>2, <1>3 DEF CallOk
<1>13. link' \in [Links -> LinkRow \cup {Void}]
  BY <1>1, <1>4 DEF FilesTyped, AttachTypeOK
<1>14. ASSUME NEW a \in Links, link'[a] # Void
       PROVE  link'[a] \in LinkRow /\ file'[link'[a].file] # Void
  <2>1. LinkOk(a) BY DEF AttachInv
  <2>2. CASE file' = file /\ link' = link BY <1>14, <2>1, <2>2 DEF LinkOk
  <2>3. CASE link' = [b \in Links |-> IF b \in Attached /\ link[b].file = f THEN Void ELSE link[b]]
    <3>1. link'[a] = link[a] /\ ~ (a \in Attached /\ link[a].file = f) BY <1>14, <2>3
    <3>2. link[a] \in LinkRow /\ file[link[a].file] # Void BY <1>14, <2>1, <3>1 DEF LinkOk
    <3>3. link[a].file # f /\ link[a].file \in Uploads BY <3>1, <3>2 DEF Attached, LinkRow
    <3> QED BY <1>9, <3>1, <3>2, <3>3
  <2> QED BY <1>4, <2>2, <2>3
<1> QED
  BY <1>1, <1>2, <1>4, <1>5, <1>6, <1>7, <1>9, <1>10, <1>11, <1>12, <1>13, <1>14, OthersMove,
     UploadTyped, CallersDiffer

LEMMA AttachKeeps ==
  ASSUME AttachInv, NEW a \in Links, AttachStep(a)
  PROVE  AttachInv'
<1>1. a \in FileCallers /\ FilesTyped /\ LinkOk(a) /\ farg[a] \in FileArgs
  BY CallersDiffer, UploadTyped DEF AttachInv
<1>2. CASE AttachFile(a)
  <2>1. fpc[a] = "idle" /\ UNCHANGED <<content, temp, file, link, breaks, cut>>
    BY <1>2 DEF AttachFile, stores
  <2>2. PICK f \in Uploads, ref \in Reference :
          StepTo(a, IF HasRow(f) THEN "attach" ELSE "refused",
                 [NoFileArgs EXCEPT !.file = f, !.entity = ToLower(ref)])
    BY <1>2 DEF AttachFile, GetFileByID
  <2>3. PICK r : r = [NoFileArgs EXCEPT !.file = f, !.entity = ToLower(ref)] OBVIOUS
  <2>4. ToLower(ref) \in Reference BY DEF ToLower, Reference
  <2>5. r \in FileArgs /\ r.file = f /\ r.entity \in Reference BY <2>3, <2>4 DEF NoFileArgs, FileArgs
  <2>6. PICK l \in FileLabels : l = (IF HasRow(f) THEN "attach" ELSE "refused")
                                /\ l \in {"attach", "refused"}
    BY DEF FileLabels
  <2>7. StepTo(a, l, r) BY <2>2, <2>3, <2>6
  <2> QED BY <2>1, <2>5, <2>6, <2>7, OnlyMoves, CallersDiffer
<1>3. CASE CreateAttachment(a)
  <2>1. fpc[a] = "attach" /\ UNCHANGED <<content, temp, file, breaks, cut>>
    BY <1>3 DEF CreateAttachment
  <2>2. PICK f \in Uploads : f = farg[a].file BY <1>1, <2>1 DEF LinkOk
  <2>3. PICK l \in {"ok", "refused"} :
          /\ StepTo(a, l, farg[a])
          /\ \/ l = "ok" /\ HasRow(f) /\ link' = [link EXCEPT ![a] = [file |-> f, entity |-> farg[a].entity]]
             \/ l = "refused" /\ link' = link
    BY <1>3, <2>2 DEF CreateAttachment, FileGoTo, InsertLink
  <2>4. CASE link' = link
    <3>1. l \in FileLabels BY DEF FileLabels
    <3> QED BY <1>1, <2>1, <2>3, <2>4, <3>1, OnlyMoves, CallersDiffer
  <2>5. CASE HasRow(f) /\ link' = [link EXCEPT ![a] = [file |-> f, entity |-> farg[a].entity]]
    <3>1. PICK k : k = [file |-> f, entity |-> farg[a].entity] OBVIOUS
    <3>2. k \in LinkRow /\ k.file = f BY <1>1, <2>1, <3>1 DEF LinkOk, LinkRow
    <3>3. link \in [Links -> LinkRow \cup {Void}] BY <1>1 DEF FilesTyped, AttachTypeOK
    <3>4. link' \in [Links -> LinkRow \cup {Void}] BY <2>5, <3>1, <3>2, <3>3
    <3>5. \A b \in Links : link'[b] # Void => link'[b] \in LinkRow /\ file'[link'[b].file] # Void
      <4>1. link'[a] = k /\ \A b \in Links : b # a => link'[b] = link[b] BY <2>5, <3>1, <3>3
      <4>2. file[f] # Void BY <1>1, <2>5, RowIsThere
      <4> QED BY <2>1, <3>2, <4>1, <4>2 DEF AttachInv, LinkOk
    <3>6. l \in FileLabels BY DEF FileLabels
    <3>7. \A d \in FileCalls : fpc'[d] = fpc[d] /\ farg'[d] = farg[d]
      BY <1>1, <2>3, <3>6, StepPlaces, CallersDiffer
    <3>8. ASSUME NEW g \in Uploads, Missed(g)' PROVE g \in cut' \/ DropPending(g)'
      <4>1. g \in cut \/ DropPending(g) BY <2>1, <3>8 DEF AttachInv, Missed
      <4>2. DropPending(g) => DropPending(g)' BY <3>7 DEF DropPending
      <4> QED BY <2>1, <4>1, <4>2
    <3> QED
      BY <1>1, <2>1, <2>3, <3>4, <3>5, <3>6, <3>8, OthersMove, UploadTyped, CallersDiffer
  <2> QED BY <2>3, <2>4, <2>5
<1> QED BY <1>2, <1>3 DEF AttachStep

LEMMA DetachKeeps ==
  ASSUME AttachInv, NEW c \in FileCalls, DetachFile(c)
  PROVE  AttachInv'
<1>1. c \in FileCallers /\ FilesTyped /\ CallOk(c) /\ farg[c] \in FileArgs
  BY CallersDiffer, UploadTyped DEF AttachInv
<1>2. fpc[c] = "idle" /\ UNCHANGED <<content, temp, file, breaks, cut>> /\ StepTo(c, "ok", farg[c])
  BY DEF DetachFile, FileGoTo
<1>3. PICK a \in Links : link' = [link EXCEPT ![a] = Void] BY DEF DetachFile, Attached
<1>4. link \in [Links -> LinkRow \cup {Void}] BY <1>1 DEF FilesTyped, AttachTypeOK
<1>5. link' \in [Links -> LinkRow \cup {Void}] /\ \A b \in Links : link'[b] = Void \/ link'[b] = link[b]
  BY <1>3, <1>4
<1>6. \A b \in Links : link'[b] # Void => link'[b] \in LinkRow /\ file'[link'[b].file] # Void
  BY <1>2, <1>5 DEF AttachInv, LinkOk
<1>7. "ok" \in FileLabels BY DEF FileLabels
<1>8. fpc'[c] = "ok" /\ farg'[c] = farg[c] /\ \A d \in FileCallers : d # c => fpc'[d] = fpc[d] /\ farg'[d] = farg[d]
  BY <1>1, <1>2, <1>7, StepPlaces
<1>9. CallOk(c)' BY <1>1, <1>8, CallersDiffer DEF CallOk
<1>10. ASSUME NEW g \in Uploads, Missed(g)' PROVE g \in cut' \/ DropPending(g)'
  <2>1. g \in cut \/ DropPending(g) BY <1>2, <1>10 DEF AttachInv, Missed
  <2>2. DropPending(g) => DropPending(g)' BY <1>2, <1>8, CallersDiffer DEF DropPending
  <2> QED BY <1>2, <2>1, <2>2
<1> QED
  BY <1>1, <1>2, <1>5, <1>6, <1>7, <1>9, <1>10, OthersMove, UploadTyped, CallersDiffer

LEMMA AttachCrashKeeps ==
  ASSUME AttachInv, AttachCrash
  PROVE  AttachInv'
<1> DEFINE dead == {c \in FileCallers : fpc[c] \notin {"idle", "ok", "refused"}}
<1>1. FilesTyped BY DEF AttachInv
<1>2. /\ Breaks /\ UNCHANGED <<farg, content, temp, file, link>>
      /\ fpc' = [c \in FileCallers |-> IF c \in dead THEN "refused" ELSE fpc[c]]
      /\ cut' = cut \cup (dead \cap Uploads) \cup
              {farg[c].file : c \in {d \in dead : fpc[d] \in {"unlink", "drop"}}}
  BY DEF AttachCrash, stores
<1>3. fpc \in [FileCallers -> FileLabels] BY <1>1 DEF FilesTyped, AttachTypeOK
<1>4. fpc' \in [FileCallers -> FileLabels] BY <1>2, <1>3 DEF FileLabels
<1>5. \A c \in FileCallers : fpc'[c] = (IF fpc[c] \in {"idle", "ok", "refused"} THEN fpc[c] ELSE "refused")
  BY <1>2
<1>6. \A c \in FileCallers : fpc[c] \in {"unlink", "drop"} => c \in FileCalls /\ farg[c].file \in Uploads
  BY DEF AttachInv, UploadOk, CallOk, LinkOk, FileCallers
<1>7. cut' \subseteq Uploads /\ cut \subseteq cut'
  BY <1>1, <1>2, <1>6 DEF FilesTyped, AttachTypeOK
<1>8. breaks' \in 0..MaxBreaks BY <1>1, <1>2, BreaksTyped
<1>9. FilesTyped' BY <1>1, <1>2, <1>4, <1>7, <1>8 DEF FilesTyped, AttachTypeOK
<1>10. \A u \in Uploads : u \in cut' \/ fpc'[u] = fpc[u]
  BY <1>2, <1>5, CallersDiffer
<1>11. \A u \in Uploads : UploadOk(u)'
  <2>1. SUFFICES ASSUME NEW u \in Uploads PROVE UploadOk(u)' OBVIOUS
  <2>2. UploadOk(u) BY DEF AttachInv
  <2>3. CASE fpc'[u] = fpc[u] BY <1>2, <1>7, <2>2, <2>3 DEF UploadOk
  <2>4. CASE u \in cut' /\ fpc'[u] = "refused" BY <1>2, <2>2, <2>4 DEF UploadOk
  <2> QED BY <1>5, <1>10, <2>3, <2>4, CallersDiffer
<1>12. \A c \in FileCalls : CallOk(c)'
  <2>1. SUFFICES ASSUME NEW c \in FileCalls PROVE CallOk(c)' OBVIOUS
  <2>2. CallOk(c) BY DEF AttachInv
  <2>3. fpc'[c] \in {"idle", "ok", "refused"} BY <1>5, CallersDiffer
  <2>4. \A f \in Uploads : fpc[f] \in {"compensate", "ok", "refused"} => fpc'[f] \in {"compensate", "ok", "refused"}
    BY <1>5, CallersDiffer
  <2> QED BY <1>2, <2>2, <2>3, <2>4 DEF CallOk
<1>13. \A a \in Links : LinkOk(a)'
  <2>1. SUFFICES ASSUME NEW a \in Links PROVE LinkOk(a)' OBVIOUS
  <2>2. LinkOk(a) BY DEF AttachInv
  <2>3. fpc'[a] \in {"idle", "ok", "refused"} BY <1>5, CallersDiffer
  <2> QED BY <1>2, <2>2, <2>3 DEF LinkOk
<1>14. ASSUME NEW f \in Uploads, Missed(f)' PROVE f \in cut'
  <2>1. f \in cut \/ DropPending(f) BY <1>2, <1>14 DEF AttachInv, Missed
  <2>2. ASSUME DropPending(f) PROVE f \in cut'
    <3>1. PICK c \in FileCalls : fpc[c] = "drop" /\ farg[c].file = f BY <2>2 DEF DropPending
    <3>2. c \in dead BY <3>1, CallersDiffer
    <3> QED BY <1>2, <3>1, <3>2
  <2> QED BY <1>7, <2>1, <2>2
<1> QED BY <1>9, <1>11, <1>12, <1>13, <1>14 DEF AttachInv

\* Steps of comments touch files only in the count of faults.
LEMMA FilesRest ==
  ASSUME AttachInv, FilesIdle, breaks' \in 0..MaxBreaks
  PROVE  AttachInv'
<1>1. UNCHANGED <<fpc, farg, content, temp, file, link, cut>> BY DEF FilesIdle, stores
<1> QED
  BY <1>1 DEF AttachInv, FilesTyped, AttachTypeOK, UploadOk, CallOk, LinkOk, Missed, DropPending

LEMMA CommentFaults ==
  ASSUME CommentNext
  PROVE  Works \/ Breaks
BY DEF CommentNext, FaultyStep, WriteOutbox, WriteAudit, TimelineComments, TimelineLogs, TimelineFiles,
       TimelineAdd, CommentCrash

LEMMA AttachNextInv ==
  ASSUME AttachInv, [RecordsNext]_<<attachVars, commentVars>>
  PROVE  AttachInv'
<1>1. CASE UNCHANGED <<attachVars, commentVars>>
  <2>1. FilesIdle /\ breaks' \in 0..MaxBreaks
    BY <1>1 DEF attachVars, FilesIdle, AttachInv, FilesTyped, AttachTypeOK
  <2> QED BY <2>1, FilesRest
<1>2. CASE AttachNext
  BY <1>2, UploadFileKeeps, CreateTempKeeps, CopyContentKeeps, RenameTempKeeps, CreateFileKeeps,
     CompensateKeeps, DownloadKeeps, ReadForDeleteKeeps, UnlinkKeeps, DropRowKeeps, AttachKeeps,
     DetachKeeps, AttachCrashKeeps
  DEF AttachNext, UploadStep, DeleteFileStep
<1>3. CASE CommentNext /\ FilesIdle
  <2>1. breaks' \in 0..MaxBreaks BY <1>3, CommentFaults, BreaksTyped DEF AttachInv
  <2> QED BY <1>3, <2>1, FilesRest
<1> QED BY <1>1, <1>2, <1>3 DEF RecordsNext

\* AttachInv is an invariant of files and comments together: it says for every place of an
\* upload and of a deletion what is in the store and what is in the table.
THEOREM AttachInvariance == RecordsSpec => []AttachInv
<1>1. AttachInit => AttachInv BY AttachInitInv
<1>2. AttachInv /\ [RecordsNext]_<<attachVars, commentVars>> => AttachInv' BY AttachNextInv
<1> QED BY <1>1, <1>2, PTL DEF RecordsSpec

LEMMA StoresAgreeHolds ==
  ASSUME AttachInv
  PROVE  StoresAgree /\ AttachmentsHaveFiles
<1>1. FilesTyped BY DEF AttachInv
<1>2. RowHasContent
  BY <1>1, RowIsThere DEF AttachInv, RowHasContent, Missed, DropPending, HasContent
<1>3. ContentHasRow
  BY <1>1, RowIsThere DEF AttachInv, ContentHasRow, UploadOk, HasContent
<1>4. ServedAsRecorded BY DEF AttachInv, ServedAsRecorded, CallOk, SizeMismatch
<1>5. AttachmentsHaveFiles
  <2>1. SUFFICES ASSUME NEW a \in Attached PROVE HasRow(link[a].file) BY DEF AttachmentsHaveFiles
  <2>2. a \in Links /\ link[a] \in LinkRow /\ link[a] # Void BY VoidFacts DEF Attached
  <2>3. file[link[a].file] # Void BY <2>2 DEF AttachInv, LinkOk
  <2>4. link[a].file \in Uploads BY <2>2 DEF LinkRow
  <2> QED BY <1>1, <2>3, <2>4, RowIsThere
<1> QED BY <1>2, <1>3, <1>4, <1>5 DEF StoresAgree

\* Table and file store agree, except about files on which a call is under way or was cut
\* short: UploadFile and DeleteFile write to both without a transaction, and any number of
\* uploads, downloads, deletions, faults and crashes may interleave.  What a download serves
\* is the body the upload copied, and has the recorded size unless that is 0: Put compares the
\* two only if the announced size is positive.
THEOREM StoresAlwaysAgree == RecordsSpec => []StoresAgree
<1>1. AttachInv => StoresAgree BY StoresAgreeHolds
<1> QED BY <1>1, AttachInvariance, PTL

-----------------------------------------------------------------------------
(* Comments, notifications and the timeline.                               *)

\* Links that are there were made by a call that has ended, in lower case.
LinkFixed ==
  \A a \in Links :
    /\ fpc[a] = "attach" => farg[a].entity[2] = "lower"
    /\ link[a] # Void => fpc[a] = "ok" /\ link[a].entity[2] = "lower"

Items == Comments \cup Links \cup NoteRow \cup (Changes \X Entities)
Totals == {Cardinality(S) : S \in SUBSET NoteRow}
StagedRow == [entity : Reference, author : People, parent : Comments \cup {Void},
              mentions : SUBSET People, status : {"live"}]
Stage == [row : StagedRow \cup {Void}, mentions : Seq(People), next : Nat, notes : SUBSET NoteRow,
          event : BOOLEAN, log : BOOLEAN]
Pages == [unread : BOOLEAN, limit : Nat, offset : Nat]
CommentArgs == [comment : Comments \cup {Void}, user : Users \cup {Void},
                entity : Reference \cup {Void}, exact : BOOLEAN,
                page : Pages \cup {Void}, items : SUBSET Items, total : Totals \cup {Void}]
KnownItems == [items : SUBSET Items, missed : BOOLEAN, raced : BOOLEAN]

CommentsTyped ==
  /\ CommentTypeOK
  /\ carg \in [Removers \cup Readers -> CommentArgs]
  /\ staged \in [Comments -> Stage]
  /\ known \in [Readers -> KnownItems]

Inserted == {"notify", "outbox", "audit", "commit"}
WriterLabels == {"idle", "insert", "ok", "refused"} \cup Inserted

\* The notifications an open transaction has inserted so far.
Notified(c, s) ==
  {NewNote(c, i, s.mentions[i]) : i \in {j \in 1..(s.next - 1) : s.mentions[j] # s.row.author}}

\* The open transaction of CreateComment at each of its places.
StageAt(c, l, s) ==
  /\ s.row \in StagedRow /\ s.row.entity[2] = "lower"
  /\ \A i, j \in 1..Len(s.mentions) : s.mentions[i] = s.mentions[j] => i = j
  /\ {s.mentions[i] : i \in 1..Len(s.mentions)} = s.row.mentions
  /\ Len(s.mentions) <= Cardinality(People)
  /\ s.next \in 1..Len(s.mentions) + 1
  /\ l = "insert" => s.next = 1
  /\ l = "insert" => s.notes = {}
  /\ l \in Inserted =>
       /\ s.row.author \in Users
       /\ s.notes = Notified(c, s)
       /\ \A i \in 1..(s.next - 1) : s.mentions[i] \in Users
  /\ l \in Inserted \ {"notify"} => s.next = Len(s.mentions) + 1
  /\ l \in {"audit", "commit"} => s.event = TRUE
  /\ l = "commit" => s.log = TRUE

NotifiedOf(c) == {n.user : n \in {m \in notes : m.comment = c}}

\* A comment is in the tables with everything that belongs to it once its
\* transaction has committed, and not at all before.
Posted(c) ==
  /\ cpc[c] \in WriterLabels
  /\ cpc[c] \in Inserted \cup {"insert"} => StageAt(c, cpc[c], staged[c])
  /\ cpc[c] # "ok" => /\ comment[c] = Void /\ c \notin events /\ c \notin logged
                      /\ \A n \in notes : n.comment # c
  /\ cpc[c] = "ok" => /\ comment[c] \in CommentRow /\ comment[c].entity[2] = "lower"
                      /\ c \in events /\ c \in logged
                      /\ NotifiedOf(c) = comment[c].mentions \ {comment[c].author}

\* Notifications are finitely many, and one for each comment and user.
NotesDiffer == /\ IsFiniteSet(notes)
               /\ \A n, m \in notes : n.comment = m.comment /\ n.user = m.user => n = m

\* An answer that is being written has its parent: the foreign key holds it.
ParentKept ==
  \A c \in Comments : cpc[c] \in Inserted /\ staged[c].row.parent # Void => Live(staged[c].row.parent)

RemoverOk(d) ==
  /\ cpc[d] \in {"idle", "delete", "ok", "refused"}
  /\ cpc[d] = "delete" => /\ carg[d].comment \in Comments /\ comment[carg[d].comment] # Void
                          /\ MayDelete(carg[d].user, carg[d].comment)

RemoversEnded == \A c \in Comments : removedBy[c] # Void => cpc[removedBy[c]] = "ok"

CountOk(r) ==
  /\ cpc[r] = "count" =>
       /\ ~ carg[r].exact /\ carg[r].total = Void
       /\ ~ known[r].raced => PageFits(carg[r], Cardinality(Unread(carg[r].user)))
  /\ carg[r].total # Void =>
       /\ cpc[r] \in {"ok", "refused"}
       /\ ~ known[r].raced => PageFits(carg[r], carg[r].total)

\* What a timeline has so far of what there was when it began.
TimelineSoFar(r) ==
  /\ carg[r].entity \in Reference
  /\ \A c \in Comments \cap carg[r].items : comment[c] # Void
  /\ \A a \in Links \cap known[r].items : fpc[a] = "ok"
  /\ \A x \in (Changes \X Entities) \cap known[r].items : \E i \in DOMAIN changed : changed[i] = x
  /\ carg[r].entity[2] = "lower" /\ ~ known[r].missed =>
       /\ known[r].items \cap Comments \subseteq carg[r].items
       /\ cpc[r] \in {"files", "ok"} =>
            (known[r].items \cap (Changes \X Entities)) \cap ListAudit(carg[r].entity) \subseteq carg[r].items
       /\ cpc[r] = "ok" =>
            known[r].items \cap ListAttachmentsByEntity(carg[r].entity) \subseteq carg[r].items

ReaderOk(r) ==
  /\ cpc[r] \in {"idle", "count", "logs", "files", "ok", "refused"}
  /\ cpc[r] = "idle" => carg[r] = NoCommentArgs
  /\ cpc[r] \in {"logs", "files"} => carg[r].exact
  /\ CountOk(r)
  /\ cpc[r] \in {"logs", "files", "ok"} /\ carg[r].exact => TimelineSoFar(r)

\* The inductive invariant of Communication, next to that of Attachments.
CommentInv ==
  /\ CommentsTyped
  /\ \A c \in Comments : Posted(c)
  /\ NotesDiffer /\ ParentKept /\ AnswersHaveParents /\ DeletedByAuthors /\ RemoversEnded
  /\ \A d \in Removers : RemoverOk(d)
  /\ \A r \in Readers : ReaderOk(r)

\* What the step of a caller that is no link does to links: it may remove some.
LEMMA LinksRest ==
  ASSUME LinkFixed, \A a \in Links : fpc'[a] = fpc[a] /\ farg'[a] = farg[a]
                                     /\ (link'[a] = link[a] \/ link'[a] = Void)
  PROVE  /\ LinkFixed'
         /\ \A a \in Links : fpc[a] = "ok" => fpc'[a] = "ok" /\ (link'[a] = link[a] \/ link'[a] = Void)
BY DEF LinkFixed

\* A link that is made is made once.
LEMMA LinkSteps ==
  ASSUME AttachInv, LinkFixed, AttachNext
  PROVE  /\ LinkFixed'
         /\ \A a \in Links : fpc[a] = "ok" => fpc'[a] = "ok" /\ (link'[a] = link[a] \/ link'[a] = Void)
<1>1. FilesTyped /\ fpc \in [FileCallers -> FileLabels] /\ farg \in [FileCallers -> FileArgs]
      /\ link \in [Links -> LinkRow \cup {Void}]
  BY DEF AttachInv, FilesTyped, AttachTypeOK
<1>2. ASSUME NEW c \in Uploads \cup FileCalls, NEW l, NEW r, StepTo(c, l, r)
      PROVE  \A a \in Links : fpc'[a] = fpc[a] /\ farg'[a] = farg[a]
  BY <1>1, <1>2, CallersDiffer DEF StepTo
<1>3. ASSUME NEW u \in Uploads, UploadStep(u)
      PROVE  link' = link /\ \E l, r : StepTo(u, l, r)
  <2>1. CASE UploadFile(u) BY <2>1 DEF UploadFile, stores
  <2>2. CASE CreateTemp(u) BY <2>2 DEF CreateTemp, FileGoTo
  <2>3. CASE CopyContent(u) BY <2>3 DEF CopyContent, FileGoTo
  <2>4. CASE RenameTemp(u) BY <2>4 DEF RenameTemp, FileGoTo
  <2>5. CASE CreateFile(u) BY <2>5 DEF CreateFile, FileGoTo
  <2>6. CASE Compensate(u) BY <2>6 DEF Compensate, FileGoTo
  <2> QED BY <1>3, <2>1, <2>2, <2>3, <2>4, <2>5, <2>6 DEF UploadStep
<1>4. ASSUME NEW c \in FileCalls, DownloadStep(c) \/ DeleteFileStep(c) \/ DetachFile(c)
      PROVE  /\ \A a \in Links : link'[a] = link[a] \/ link'[a] = Void
             /\ \E l, r : StepTo(c, l, r)
  <2>1. CASE ReadForDownload(c) BY <2>1 DEF ReadForDownload, GetFileByID, stores
  <2>2. CASE OpenContent(c) BY <2>2 DEF OpenContent, FileGoTo, stores
  <2>3. CASE ReadForDelete(c) BY <2>3 DEF ReadForDelete, GetFileByID, stores
  <2>4. CASE Unlink(c) BY <2>4 DEF Unlink, FileGoTo
  <2>5. CASE DropRow(c) BY <2>5 DEF DropRow, FileGoTo
  <2>6. CASE DetachFile(c) BY <1>1, <2>6 DEF DetachFile, FileGoTo, Attached
  <2> QED BY <1>4, <2>1, <2>2, <2>3, <2>4, <2>5, <2>6 DEF DownloadStep, DeleteFileStep
<1>5. ASSUME NEW a \in Links, AttachStep(a)
      PROVE  /\ LinkFixed'
             /\ \A b \in Links : fpc[b] = "ok" => fpc'[b] = "ok" /\ (link'[b] = link[b] \/ link'[b] = Void)
  <2>1. a \in FileCallers BY CallersDiffer
  <2>2. CASE AttachFile(a)
    <3>1. fpc[a] = "idle" /\ link' = link BY <2>2 DEF AttachFile, stores
    <3>2. PICK f \in Uploads, ref \in Reference :
            StepTo(a, IF HasRow(f) THEN "attach" ELSE "refused",
                   [NoFileArgs EXCEPT !.file = f, !.entity = ToLower(ref)])
      BY <2>2 DEF AttachFile, GetFileByID
    <3>3. PICK r : r = [NoFileArgs EXCEPT !.file = f, !.entity = ToLower(ref)] OBVIOUS
    <3>4. ToLower(ref)[2] = "lower" BY DEF ToLower
    <3>5. r.entity[2] = "lower" BY <3>3, <3>4 DEF NoFileArgs
    <3>6. /\ fpc' = [fpc EXCEPT ![a] = IF HasRow(f) THEN "attach" ELSE "refused"]
          /\ farg' = [farg EXCEPT ![a] = r]
      BY <3>2, <3>3 DEF StepTo
    <3>7. fpc'[a] \in {"attach", "refused"} /\ farg'[a] = r BY <1>1, <2>1, <3>6
    <3>8. \A b \in Links : b # a => fpc'[b] = fpc[b] /\ farg'[b] = farg[b]
      BY <1>1, <3>6, CallersDiffer
    <3> QED BY <3>1, <3>5, <3>7, <3>8 DEF LinkFixed
  <2>3. CASE CreateAttachment(a)
    <3>1. fpc[a] = "attach" /\ farg[a].entity[2] = "lower" /\ link[a] = Void
      BY <2>3 DEF CreateAttachment, LinkFixed
    <3>2. PICK l \in {"ok", "refused"} :
            /\ fpc' = [fpc EXCEPT ![a] = l] /\ farg' = [farg EXCEPT ![a] = farg[a]]
            /\ \/ l = "ok" /\ link' = [link EXCEPT ![a] = [file |-> farg[a].file, entity |-> farg[a].entity]]
               \/ l = "refused" /\ link' = link
      BY <2>3 DEF CreateAttachment, FileGoTo, StepTo, InsertLink
    <3>3. fpc'[a] = l /\ farg' = farg /\ \A b \in Links : b # a => fpc'[b] = fpc[b] /\ link'[b] = link[b]
      BY <1>1, <2>1, <3>2, CallersDiffer
    <3>4. link'[a] # Void => l = "ok" /\ link'[a].entity[2] = "lower"
      <4>1. PICK k : k = [file |-> farg[a].file, entity |-> farg[a].entity] OBVIOUS
      <4>2. k.entity[2] = "lower" BY <3>1, <4>1
      <4> QED BY <1>1, <3>1, <3>2, <4>1, <4>2
    <3> QED BY <3>1, <3>3, <3>4 DEF LinkFixed
  <2> QED BY <1>5, <2>2, <2>3 DEF AttachStep
<1>6. CASE AttachCrash
  <2>1. farg' = farg /\ link' = link
        /\ \A a \in Links : fpc'[a] = (IF fpc[a] \in {"idle", "ok", "refused"} THEN fpc[a] ELSE "refused")
    BY <1>6, CallersDiffer DEF AttachCrash, stores
  <2> QED BY <2>1 DEF LinkFixed
<1>7. CASE \E u \in Uploads : UploadStep(u)
  <2>1. \A a \in Links : fpc'[a] = fpc[a] /\ farg'[a] = farg[a] /\ link'[a] = link[a] BY <1>2, <1>3, <1>7
  <2> QED BY <2>1, LinksRest
<1>8. CASE \E c \in FileCalls : DownloadStep(c) \/ DeleteFileStep(c) \/ DetachFile(c)
  <2>1. \A a \in Links : fpc'[a] = fpc[a] /\ farg'[a] = farg[a] /\ (link'[a] = link[a] \/ link'[a] = Void)
    BY <1>2, <1>4, <1>8
  <2> QED BY <2>1, LinksRest
<1> QED BY <1>5, <1>6, <1>7, <1>8 DEF AttachNext

LEMMA PeopleCounted == Cardinality(People) \in Nat
BY PeopleFinite, FS_CardinalityType DEF People

\* The mentions of a comment: every id once.
LEMMA MentionsOnce ==
  ASSUME NEW S \in SUBSET People
  PROVE  /\ SetToSeq(S) \in Seq(People)
         /\ Len(SetToSeq(S)) <= Cardinality(People)
         /\ \A i, j \in 1..Len(SetToSeq(S)) : SetToSeq(S)[i] = SetToSeq(S)[j] => i = j
         /\ {SetToSeq(S)[i] : i \in 1..Len(SetToSeq(S))} = S
<1>1. IsFiniteSet(S) /\ Cardinality(S) <= Cardinality(People)
  BY PeopleFinite, FS_Subset DEF People
<1>2. Cardinality(S) \in Nat /\ ExistsBijection(1..Cardinality(S), S) BY <1>1, FS_CardinalityType
<1>3. PICK g \in Bijection(1..Cardinality(S), S) : TRUE BY <1>2 DEF ExistsBijection
<1>4. g \in [1..Cardinality(S) -> S] /\ IsInjective(g) BY <1>3 DEF Bijection, Injection
<1>5. PICK f : f = SetToSeq(S) OBVIOUS
<1>6. f \in [1..Cardinality(S) -> S] /\ IsInjective(f) BY <1>4, <1>5 DEF SetToSeq
<1>7. f \in Seq(People) /\ Len(f) = Cardinality(S) BY <1>2, <1>6
<1>8. \A i, j \in 1..Len(f) : f[i] = f[j] => i = j BY <1>6, <1>7 DEF IsInjective
<1>9. f \in Injection(1..Cardinality(S), S) BY <1>6 DEF Injection
<1>10. Cardinality(1..Cardinality(S)) = Cardinality(S) BY <1>2, FS_Interval
<1>11. f \in Surjection(1..Cardinality(S), S) BY <1>1, <1>9, <1>10, FS_Injection
<1>12. {f[i] : i \in 1..Len(f)} = S BY <1>6, <1>7, <1>11 DEF Surjection
<1>13. Len(f) <= Cardinality(People) BY <1>1, <1>7
<1> QED BY <1>5, <1>7, <1>8, <1>12, <1>13

LEMMA CommentCallersDiffer ==
  /\ \A c \in Comments : c \in CommentCallers /\ c \notin Removers /\ c \notin Readers /\ c # Void
  /\ \A d \in Removers : d \in CommentCallers /\ d \notin Comments /\ d \notin Readers /\ d # Void
  /\ \A r \in Readers : r \in CommentCallers /\ r \notin Comments /\ r \notin Removers
  /\ \A row \in CommentRow : row # Void
BY CommentCallersDisjoint, ItemsDiffer DEF CommentCallers

LEMMA BelowItself ==
  ASSUME NEW c \in Comments
  PROVE  c \in Below(c)
BY DEF Below

\* Below is closed: the answers to what is below are below.
LEMMA BelowClosed ==
  ASSUME NEW c \in Comments, NEW d \in Comments, comment[d] # Void, comment[d].parent \in Below(c)
  PROVE  d \in Below(c)
<1>1. SUFFICES ASSUME NEW S \in SUBSET Comments, c \in S, AnswersWithin(S) PROVE d \in S
  BY DEF Below
<1>2. comment[d].parent \in S BY <1>1 DEF Below
<1> QED BY <1>1, <1>2 DEF AnswersWithin

\* Below only grows, since comments keep their parents.
LEMMA BelowGrows ==
  ASSUME NEW c \in Comments,
         \A d \in Comments : comment[d] # Void => comment'[d] # Void /\ comment'[d].parent = comment[d].parent
  PROVE  Below(c) \subseteq Below(c)'
<1>1. \A S \in SUBSET Comments : AnswersWithin(S)' => AnswersWithin(S)
  BY DEF AnswersWithin
<1> QED BY <1>1 DEF Below

LEMMA BelowStays ==
  ASSUME NEW c \in Comments, comment' = comment
  PROVE  Below(c)' = Below(c)
BY DEF Below, AnswersWithin

LEMMA CommentInitInv ==
  ASSUME AttachInit, CommentInit
  PROVE  LinkFixed /\ CommentInv
<1> USE DEF CommentInit
<1>1. LinkFixed BY CallersDiffer DEF AttachInit, LinkFixed
<1>2. NoCommentArgs \in CommentArgs /\ NoCommentArgs.total = Void /\ ~ NoCommentArgs.exact
  BY DEF NoCommentArgs, CommentArgs
<1>3. NoStage \in Stage BY DEF NoStage, Stage
<1>4. NothingKnown \in KnownItems BY DEF NothingKnown, KnownItems
<1>5. CommentTypeOK BY DEF CommentTypeOK, CommentLabels
<1>6. CommentsTyped BY <1>2, <1>3, <1>4, <1>5 DEF CommentsTyped
<1>7. \A c \in Comments : Posted(c) BY CommentCallersDiffer DEF Posted, WriterLabels, Inserted
<1>8. NotesDiffer /\ ParentKept /\ AnswersHaveParents /\ DeletedByAuthors /\ RemoversEnded
  BY CommentCallersDiffer, FS_EmptySet
  DEF NotesDiffer, ParentKept, AnswersHaveParents, DeletedByAuthors, RemoversEnded, Inserted, Live
<1>9. \A d \in Removers : RemoverOk(d) BY CommentCallersDiffer DEF RemoverOk
<1>10. \A r \in Readers : ReaderOk(r) BY <1>2, CommentCallersDiffer DEF ReaderOk, CountOk
<1> QED BY <1>1, <1>6, <1>7, <1>8, <1>9, <1>10 DEF CommentInv

\* A reader that does not move: comments may come and go, and its notifications
\* change only where the change is noted.
LEMMA ReaderRests ==
  ASSUME NEW r \in Readers, ReaderOk(r), cpc'[r] = cpc[r], carg'[r] = carg[r],
         \A c \in Comments : comment[c] # Void => comment'[c] # Void,
         UNCHANGED <<fpc, link, changed>>,
         cpc[r] # "count" => known'[r] = known[r],
         cpc[r] = "count" /\ ~ known'[r].raced =>
           ~ known[r].raced /\ Unread(carg[r].user)' = Unread(carg[r].user)
  PROVE  ReaderOk(r)'
<1>1. CountOk(r)'
  <2>1. CASE cpc[r] = "count"
    <3>1. ~ carg'[r].exact /\ carg'[r].total = Void BY <2>1 DEF ReaderOk, CountOk
    <3>2. ASSUME ~ known'[r].raced
          PROVE  PageFits(carg[r], Cardinality(Unread(carg[r].user)))'
      <4>1. ~ known[r].raced /\ Unread(carg[r].user)' = Unread(carg[r].user) BY <2>1, <3>2
      <4>2. PageFits(carg[r], Cardinality(Unread(carg[r].user)))
        BY <2>1, <4>1 DEF ReaderOk, CountOk
      <4> QED BY <4>1, <4>2
    <3> QED BY <2>1, <3>1, <3>2 DEF CountOk
  <2>2. CASE cpc[r] # "count" BY <2>2 DEF ReaderOk, CountOk
  <2> QED BY <2>1, <2>2
<1>2. ASSUME cpc'[r] \in {"logs", "files", "ok"}, carg'[r].exact PROVE TimelineSoFar(r)'
  <2>1. TimelineSoFar(r) /\ known'[r] = known[r] BY <1>2 DEF ReaderOk, CountOk
  <2>2. ListAudit(carg[r].entity)' = ListAudit(carg[r].entity)
        /\ ListAttachmentsByEntity(carg[r].entity)' = ListAttachmentsByEntity(carg[r].entity)
    BY DEF ListAudit, About, ListAttachmentsByEntity, Attached
  <2> QED BY <2>1, <2>2 DEF TimelineSoFar
<1> QED BY <1>1, <1>2 DEF ReaderOk

LEMMA WriterRests ==
  ASSUME NEW c \in Comments, Posted(c), cpc'[c] = cpc[c], staged'[c] = staged[c],
         UNCHANGED <<comment, notes, events, logged>>
  PROVE  Posted(c)'
BY DEF Posted, NotifiedOf

LEMMA RemoverRests ==
  ASSUME NEW d \in Removers, RemoverOk(d), cpc'[d] = cpc[d], carg'[d] = carg[d],
         \A c \in Comments : comment[c] # Void => comment'[c] # Void /\ comment'[c].author = comment[c].author
  PROVE  RemoverOk(d)'
BY DEF RemoverOk, MayDelete

\* Deleted comments stay as they are while a call that is not about them moves.
LEMMA ThreadsRest ==
  ASSUME CommentsTyped, RemoversEnded, AnswersHaveParents, DeletedByAuthors,
         UNCHANGED <<comment, removedBy>>,
         \A d \in Removers : cpc[d] = "ok" => cpc'[d] = "ok" /\ carg'[d] = carg[d]
  PROVE  AnswersHaveParents' /\ DeletedByAuthors' /\ RemoversEnded'
<1>1. \A c \in Comments : removedBy[c] # Void => removedBy[c] \in Removers
  BY DEF CommentsTyped, CommentTypeOK
<1>2. RemoversEnded' BY <1>1 DEF RemoversEnded
<1>3. AnswersHaveParents' BY DEF AnswersHaveParents, Live
<1>4. ASSUME NEW c \in Comments, removedBy'[c] # Void
      PROVE  LET user == carg'[removedBy'[c]].user IN
             user = Void \/ \E a \in Comments : comment'[a] # Void /\ c \in Below(a)' /\ comment'[a].author = user
  <2>1. PICK d \in Removers : d = removedBy[c] BY <1>1, <1>4
  <2>2. carg'[d] = carg[d] BY <1>4, <2>1 DEF RemoversEnded
  <2>3. carg[d].user = Void
        \/ \E a \in Comments : comment[a] # Void /\ c \in Below(a) /\ comment[a].author = carg[d].user
    BY <1>4, <2>1 DEF DeletedByAuthors
  <2> QED BY <2>1, <2>2, <2>3, BelowStays
<1>5. DeletedByAuthors' BY <1>4 DEF DeletedByAuthors
<1> QED BY <1>2, <1>3, <1>5

\* A step of a transaction of CreateComment before it commits.
LEMMA WriterMoves ==
  ASSUME CommentInv, NEW c \in Comments, NEW l \in WriterLabels, NEW s \in Stage,
         cpc' = [cpc EXCEPT ![c] = l], staged' = [staged EXCEPT ![c] = s],
         UNCHANGED <<carg, comment, notes, events, logged, changed, removedBy, known, fpc, link>>,
         cpc[c] # "ok", l # "ok",
         l \in Inserted \cup {"insert"} => StageAt(c, l, s),
         l \in Inserted /\ s.row.parent # Void => Live(s.row.parent)
  PROVE  CommentInv'
<1>1. CommentsTyped /\ cpc \in [CommentCallers -> CommentLabels] /\ staged \in [Comments -> Stage]
  BY DEF CommentInv, CommentsTyped, CommentTypeOK
<1>2. l \in CommentLabels BY DEF WriterLabels, Inserted, CommentLabels
<1>3. /\ cpc' \in [CommentCallers -> CommentLabels] /\ staged' \in [Comments -> Stage]
      /\ cpc'[c] = l /\ staged'[c] = s
      /\ \A d \in CommentCallers : d # c => cpc'[d] = cpc[d]
      /\ \A d \in Comments : d # c => staged'[d] = staged[d]
  BY <1>1, <1>2, CommentCallersDiffer
<1>4. CommentsTyped' BY <1>1, <1>3 DEF CommentsTyped, CommentTypeOK
<1>5. \A d \in Comments : Posted(d)'
  <2>1. Posted(c)' BY <1>3 DEF CommentInv, Posted
  <2>2. ASSUME NEW d \in Comments, d # c PROVE Posted(d)'
    BY <1>3, <2>2, WriterRests, CommentCallersDiffer DEF CommentInv
  <2> QED BY <2>1, <2>2
<1>6. NotesDiffer' BY DEF CommentInv, NotesDiffer
<1>7. ParentKept' BY <1>3, CommentCallersDiffer DEF CommentInv, ParentKept, Live
<1>8. \A d \in Removers \cup Readers : cpc'[d] = cpc[d] BY <1>3, CommentCallersDiffer
<1>9. AnswersHaveParents' /\ DeletedByAuthors' /\ RemoversEnded'
  BY <1>1, <1>8, ThreadsRest DEF CommentInv
<1>10. \A d \in Removers : RemoverOk(d)' BY <1>8, RemoverRests DEF CommentInv
<1>11. \A r \in Readers : ReaderOk(r)'
  <2>1. ASSUME NEW r \in Readers PROVE Unread(carg[r].user)' = Unread(carg[r].user)
    BY DEF Unread, NotesOf
  <2> QED BY <1>8, <2>1, ReaderRests DEF CommentInv
<1> QED BY <1>4, <1>5, <1>6, <1>7, <1>9, <1>10, <1>11 DEF CommentInv

LEMMA RollbackKeeps ==
  ASSUME CommentInv, NEW c \in Comments, Rollback(c), cpc[c] # "ok",
         UNCHANGED <<carg, comment, notes, events, logged, changed, removedBy, known, fpc, link>>
  PROVE  CommentInv'
<1>1. NoStage \in Stage BY DEF NoStage, Stage
<1>2. cpc' = [cpc EXCEPT ![c] = "refused"] /\ staged' = [staged EXCEPT ![c] = NoStage]
  BY DEF Rollback, CommentGoTo
<1>3. "refused" \in WriterLabels /\ "refused" \notin Inserted \cup {"insert"} /\ "refused" # "ok"
  BY DEF WriterLabels, Inserted
<1> QED BY <1>1, <1>2, <1>3, WriterMoves

LEMMA StageOfWriter ==
  ASSUME CommentInv, NEW c \in Comments
  PROVE  /\ CommentsTyped /\ staged \in [Comments -> Stage] /\ cpc \in [CommentCallers -> CommentLabels]
         /\ staged[c] \in Stage
         /\ cpc[c] \in Inserted \cup {"insert"} => StageAt(c, cpc[c], staged[c])
BY DEF CommentInv, CommentsTyped, CommentTypeOK, Posted

LEMMA CreateCommentKeeps ==
  ASSUME CommentInv, NEW c \in Comments, CreateComment(c), FilesIdle
  PROVE  CommentInv'
<1>1. UNCHANGED <<carg, comment, notes, events, logged, changed, removedBy, known, fpc, link>>
  BY DEF CreateComment, tables, FilesIdle, stores
<1>2. cpc[c] = "idle" BY DEF CreateComment
<1>3. CASE cpc' = [cpc EXCEPT ![c] = "refused"] /\ UNCHANGED staged
  <2>1. staged[c] \in Stage /\ staged' = [staged EXCEPT ![c] = staged[c]]
    BY <1>3, StageOfWriter
  <2>2. "refused" \in WriterLabels /\ "refused" \notin Inserted \cup {"insert"} BY DEF WriterLabels, Inserted
  <2> QED BY <1>1, <1>2, <1>3, <2>1, <2>2, WriterMoves
<1>4. CASE \E p \in Posts :
             /\ staged' = [staged EXCEPT ![c] = [NoStage EXCEPT !.row = NewComment(p),
                              !.mentions = AllMentions(p.listed, p.written)]]
             /\ cpc' = [cpc EXCEPT ![c] = "insert"]
  <2>1. PICK p \in Posts :
             /\ staged' = [staged EXCEPT ![c] = [NoStage EXCEPT !.row = NewComment(p),
                              !.mentions = AllMentions(p.listed, p.written)]]
             /\ cpc' = [cpc EXCEPT ![c] = "insert"]
    BY <1>4
  <2>2. /\ p.entity \in Reference /\ p.author \in People /\ p.parent \in Comments \cup {Void}
        /\ p.listed \cup p.written \in SUBSET People
    BY PostsAreRequests DEF People
  <2>3. ToLower(p.entity) \in Reference /\ ToLower(p.entity)[2] = "lower"
    BY <2>2 DEF ToLower, Reference
  <2>4. PICK row : row = NewComment(p) OBVIOUS
  <2>5. row \in StagedRow /\ row.entity[2] = "lower" /\ row.mentions = p.listed \cup p.written
    BY <2>2, <2>3, <2>4 DEF NewComment, StagedRow
  <2>6. PICK m : m = AllMentions(p.listed, p.written) OBVIOUS
  <2>7. /\ m \in Seq(People) /\ Len(m) <= Cardinality(People)
        /\ \A i, j \in 1..Len(m) : m[i] = m[j] => i = j
        /\ {m[i] : i \in 1..Len(m)} = row.mentions
    <3>1. PICK S \in SUBSET People : S = p.listed \cup p.written BY <2>2
    <3>2. m = SetToSeq(S) BY <2>6, <3>1 DEF AllMentions
    <3>3. /\ SetToSeq(S) \in Seq(People)
          /\ Len(SetToSeq(S)) <= Cardinality(People)
          /\ \A i, j \in 1..Len(SetToSeq(S)) : SetToSeq(S)[i] = SetToSeq(S)[j] => i = j
          /\ {SetToSeq(S)[i] : i \in 1..Len(SetToSeq(S))} = S
      BY MentionsOnce
    <3>4. m \in Seq(People) /\ Len(m) <= Cardinality(People) BY <3>2, <3>3
    <3>5. \A i, j \in 1..Len(m) : m[i] = m[j] => i = j BY <3>2, <3>3
    <3>6. row.mentions = S BY <2>5, <3>1
    <3>7. {m[i] : i \in 1..Len(m)} = S BY <3>2, <3>3
    <3> QED BY <3>4, <3>5, <3>6, <3>7
  <2>8. PICK s : s = [NoStage EXCEPT !.row = row, !.mentions = m] OBVIOUS
  <2>9. s = [row |-> row, mentions |-> m, next |-> 1, notes |-> {}, event |-> FALSE, log |-> FALSE]
    BY <2>8 DEF NoStage
  <2>10. s \in Stage BY <2>5, <2>7, <2>9 DEF Stage
  <2>11. s.row = row /\ s.mentions = m /\ s.next = 1 /\ s.notes = {} BY <2>9
  <2>12. Len(m) \in Nat BY <2>7
  <2>13. StageAt(c, "insert", s) BY <2>5, <2>7, <2>11, <2>12 DEF StageAt, Inserted
  <2>14. "insert" \in WriterLabels /\ "insert" \notin Inserted BY DEF WriterLabels, Inserted
  <2>15. staged' = [staged EXCEPT ![c] = s] BY <2>1, <2>4, <2>6, <2>8
  <2> QED BY <1>1, <1>2, <2>1, <2>10, <2>13, <2>14, <2>15, WriterMoves
<1> QED BY <1>3, <1>4 DEF CreateComment, CommentGoTo

LEMMA InsertCommentKeeps ==
  ASSUME CommentInv, NEW c \in Comments, InsertComment(c), FilesIdle
  PROVE  CommentInv'
<1>1. UNCHANGED <<carg, comment, notes, events, logged, changed, removedBy, known, fpc, link>>
  BY DEF InsertComment, tables, FilesIdle, stores
<1>2. cpc[c] = "insert" BY DEF InsertComment
<1>3. PICK s \in Stage : s = staged[c] BY StageOfWriter
<1>4. CASE Rollback(c) BY <1>1, <1>2, <1>4, RollbackKeeps
<1>5. CASE /\ s.row.author \in Users /\ (s.row.parent # Void => Live(s.row.parent))
           /\ cpc' = [cpc EXCEPT ![c] = "notify"] /\ UNCHANGED staged
  <2>1. staged' = [staged EXCEPT ![c] = s] BY <1>3, <1>5, StageOfWriter
  <2>2. StageAt(c, "insert", s) BY <1>2, <1>3, StageOfWriter
  <2>3. s.next = 1 /\ s.notes = {} BY <2>2 DEF StageAt
  <2>4. Notified(c, s) = {} BY <2>3 DEF Notified
  <2>5. StageAt(c, "notify", s) BY <1>5, <2>2, <2>3, <2>4 DEF StageAt, Inserted
  <2>6. "notify" \in WriterLabels BY DEF WriterLabels, Inserted
  <2> QED BY <1>1, <1>2, <1>5, <2>1, <2>5, <2>6, WriterMoves
<1> QED BY <1>3, <1>4, <1>5 DEF InsertComment, CommentGoTo

LEMMA WriteOutboxKeeps ==
  ASSUME CommentInv, NEW c \in Comments, WriteOutbox(c) \/ WriteAudit(c), FilesIdle
  PROVE  CommentInv'
<1>1. UNCHANGED <<carg, comment, notes, events, logged, changed, removedBy, known, fpc, link>>
  BY DEF WriteOutbox, WriteAudit, tables, FilesIdle, stores
<1>2. cpc[c] \in {"outbox", "audit"} BY DEF WriteOutbox, WriteAudit
<1>3. PICK t \in Stage : t = staged[c] BY StageOfWriter
<1>4. StageAt(c, cpc[c], t) BY <1>2, <1>3, StageOfWriter DEF Inserted
<1>5. ParentKept BY DEF CommentInv
<1>6. t.row.parent # Void => Live(t.row.parent) BY <1>2, <1>3, <1>5 DEF ParentKept, Inserted
<1>7. CASE Rollback(c) BY <1>1, <1>2, <1>7, RollbackKeeps
<1>8. CASE /\ cpc[c] = "outbox" /\ staged' = [staged EXCEPT ![c].event = TRUE]
           /\ cpc' = [cpc EXCEPT ![c] = "audit"]
  <2>1. PICK s : s = [t EXCEPT !.event = TRUE] OBVIOUS
  <2>2. /\ s \in Stage /\ s.row = t.row /\ s.mentions = t.mentions /\ s.next = t.next
        /\ s.notes = t.notes /\ s.event = TRUE
    BY <1>3, <2>1 DEF Stage
  <2>3. staged' = [staged EXCEPT ![c] = s] BY <1>3, <1>8, <2>1, StageOfWriter
  <2>4. Notified(c, s) = Notified(c, t) BY <2>2 DEF Notified
  <2>5. StageAt(c, "audit", s) BY <1>4, <1>8, <2>2, <2>4 DEF StageAt, Inserted
  <2>6. "audit" \in WriterLabels BY DEF WriterLabels, Inserted
  <2> QED BY <1>1, <1>6, <1>8, <2>2, <2>3, <2>5, <2>6, WriterMoves
<1>9. CASE /\ cpc[c] = "audit" /\ staged' = [staged EXCEPT ![c].log = TRUE]
           /\ cpc' = [cpc EXCEPT ![c] = "commit"]
  <2>1. PICK s : s = [t EXCEPT !.log = TRUE] OBVIOUS
  <2>2. /\ s \in Stage /\ s.row = t.row /\ s.mentions = t.mentions /\ s.next = t.next
        /\ s.notes = t.notes /\ s.event = t.event /\ s.log = TRUE
    BY <1>3, <2>1 DEF Stage
  <2>3. staged' = [staged EXCEPT ![c] = s] BY <1>3, <1>9, <2>1, StageOfWriter
  <2>4. Notified(c, s) = Notified(c, t) BY <2>2 DEF Notified
  <2>5. StageAt(c, "commit", s) BY <1>4, <1>9, <2>2, <2>4 DEF StageAt, Inserted
  <2>6. "commit" \in WriterLabels BY DEF WriterLabels, Inserted
  <2> QED BY <1>1, <1>6, <1>9, <2>2, <2>3, <2>5, <2>6, WriterMoves
<1> QED BY <1>7, <1>8, <1>9 DEF WriteOutbox, WriteAudit, CommentGoTo

LEMMA NotifyMentionedKeeps ==
  ASSUME CommentInv, NEW c \in Comments, NotifyMentioned(c), FilesIdle
  PROVE  CommentInv'
<1>1. UNCHANGED <<carg, comment, notes, events, logged, changed, removedBy, known, fpc, link>>
  BY DEF NotifyMentioned, tables, FilesIdle, stores
<1>2. cpc[c] = "notify" BY DEF NotifyMentioned
<1>3. PICK t \in Stage : t = staged[c] BY StageOfWriter
<1>4. StageAt(c, "notify", t) BY <1>2, <1>3, StageOfWriter DEF Inserted
<1>5. ParentKept BY DEF CommentInv
<1>6. t.row.parent # Void => Live(t.row.parent) BY <1>2, <1>3, <1>5 DEF ParentKept, Inserted
<1>7. /\ t.mentions \in Seq(People) /\ Len(t.mentions) \in Nat /\ t.next \in 1..Len(t.mentions) + 1
      /\ Len(t.mentions) <= Cardinality(People) /\ t.next \in Nat
      /\ t.row.author \in Users /\ t.notes = Notified(c, t) /\ t.notes \subseteq NoteRow
  BY <1>3, <1>4 DEF StageAt, Inserted, Stage
<1>8. CASE Rollback(c) BY <1>1, <1>2, <1>8, RollbackKeeps
<1>9. CASE t.next > Len(t.mentions) /\ cpc' = [cpc EXCEPT ![c] = "outbox"] /\ UNCHANGED staged
  <2>1. t.next = Len(t.mentions) + 1 BY <1>7, <1>9
  <2>2. StageAt(c, "outbox", t) BY <1>4, <2>1 DEF StageAt, Inserted
  <2>3. staged' = [staged EXCEPT ![c] = t] BY <1>3, <1>9, StageOfWriter
  <2>4. "outbox" \in WriterLabels BY DEF WriterLabels, Inserted
  <2> QED BY <1>1, <1>2, <1>3, <1>6, <1>9, <2>2, <2>3, <2>4, WriterMoves
<1>10. ASSUME NEW user, user = t.mentions[t.next], t.next <= Len(t.mentions), user \in Users,
              staged' = [staged EXCEPT ![c].next = @ + 1,
                     ![c].notes = IF user = t.row.author THEN @
                                  ELSE @ \cup {NewNote(c, t.next, user)}],
              UNCHANGED cpc
       PROVE  CommentInv'
  <2>1. PICK ns : ns = IF user = t.row.author THEN t.notes ELSE t.notes \cup {NewNote(c, t.next, user)}
    OBVIOUS
  <2>2. NewNote(c, t.next, user) \in NoteRow
    BY <1>7, <1>10, PeopleCounted DEF NewNote, NoteRow
  <2>3. ns \subseteq NoteRow BY <1>7, <2>1, <2>2
  <2>4. PICK s : s = [t EXCEPT !.next = t.next + 1, !.notes = ns] OBVIOUS
  <2>5. /\ s \in Stage /\ s.row = t.row /\ s.mentions = t.mentions /\ s.next = t.next + 1 /\ s.notes = ns
    <3>1. PICK n \in Nat : n = t.next + 1 BY <1>7
    <3>2. ns \in SUBSET NoteRow BY <2>3
    <3>3. s = [t EXCEPT !.next = n, !.notes = ns] BY <2>4, <3>1
    <3>4. s \in Stage BY <1>3, <3>2, <3>3 DEF Stage
    <3>5. s.row = t.row /\ s.mentions = t.mentions /\ s.next = n /\ s.notes = ns
      BY <1>3, <3>3 DEF Stage
    <3> QED BY <3>1, <3>4, <3>5
  <2>6. staged' = [staged EXCEPT ![c] = s] BY <1>3, <1>10, <2>1, <2>4, StageOfWriter
  <2>7. 1..(s.next - 1) = 1..(t.next - 1) \cup {t.next} /\ t.next \in 1..Len(t.mentions)
    BY <1>7, <1>10, <2>5
  <2>8. ns = Notified(c, s)
    <3>1. CASE user = t.row.author BY <1>7, <1>10, <2>1, <2>5, <2>7, <3>1 DEF Notified
    <3>2. CASE user # t.row.author
      <4>1. {j \in 1..(s.next - 1) : s.mentions[j] # s.row.author}
              = {j \in 1..(t.next - 1) : t.mentions[j] # t.row.author} \cup {t.next}
        BY <1>10, <2>5, <2>7, <3>2
      <4>2. Notified(c, s) = Notified(c, t) \cup {NewNote(c, t.next, user)}
        BY <1>10, <2>5, <4>1 DEF Notified
      <4> QED BY <1>7, <2>1, <3>2, <4>2
    <3> QED BY <3>1, <3>2
  <2>9. \A i \in 1..(s.next - 1) : s.mentions[i] \in Users
    BY <1>4, <1>10, <2>5, <2>7 DEF StageAt, Inserted
  <2>10. s.next \in 1..Len(s.mentions) + 1 BY <1>7, <1>10, <2>5
  <2>11. StageAt(c, "notify", s) BY <1>4, <2>5, <2>8, <2>9, <2>10 DEF StageAt, Inserted
  <2>12. cpc' = [cpc EXCEPT ![c] = "notify"] BY <1>2, <1>10, StageOfWriter, CommentCallersDiffer
  <2>13. "notify" \in WriterLabels BY DEF WriterLabels, Inserted
  <2> QED BY <1>1, <1>2, <1>6, <2>5, <2>6, <2>11, <2>12, <2>13, WriterMoves
<1> QED BY <1>3, <1>8, <1>9, <1>10 DEF NotifyMentioned, CommentGoTo

\* The readers that a change of notifications races are marked.
LEMMA RaceMarks ==
  ASSUME CommentsTyped, NEW users, Race(users)
  PROVE  /\ known' \in [Readers -> KnownItems]
         /\ \A r \in Readers :
              /\ cpc[r] # "count" => known'[r] = known[r]
              /\ cpc[r] = "count" /\ ~ known'[r].raced => ~ known[r].raced /\ carg[r].user \notin users
<1>1. known \in [Readers -> KnownItems] BY DEF CommentsTyped
<1>2. \A k \in KnownItems : [k EXCEPT !.raced = TRUE] \in KnownItems /\ [k EXCEPT !.raced = TRUE].raced = TRUE
  BY DEF KnownItems
<1>3. \A r \in Readers : known'[r] = IF cpc[r] = "count" /\ carg[r].user \in users
                                     THEN [known[r] EXCEPT !.raced = TRUE] ELSE known[r]
  BY DEF Race
<1>4. known' \in [Readers -> KnownItems] BY <1>1, <1>2 DEF Race
<1>5. \A r \in Readers :
              /\ cpc[r] # "count" => known'[r] = known[r]
              /\ cpc[r] = "count" /\ ~ known'[r].raced => ~ known[r].raced /\ carg[r].user \notin users
  BY <1>1, <1>2, <1>3
<1> QED BY <1>4, <1>5

\* The notifications a transaction inserts: one for each user mentioned but the author.
LEMMA AllNotified ==
  ASSUME NEW c \in Comments, NEW s \in Stage, StageAt(c, "commit", s)
  PROVE  /\ s.notes \subseteq NoteRow /\ \A n \in s.notes : n.comment = c
         /\ {n.user : n \in s.notes} = s.row.mentions \ {s.row.author}
         /\ \A n, m \in s.notes : n.user = m.user => n = m
         /\ s.row \in CommentRow /\ s.row.entity[2] = "lower" /\ s.event = TRUE /\ s.log = TRUE
<1>1. /\ s.row \in StagedRow /\ s.row.entity[2] = "lower" /\ s.row.author \in Users
      /\ s.notes = Notified(c, s) /\ s.next = Len(s.mentions) + 1 /\ s.event = TRUE /\ s.log = TRUE
  BY DEF StageAt, Inserted
<1>2. s.mentions \in Seq(People) /\ Len(s.mentions) \in Nat /\ s.notes \subseteq NoteRow BY DEF Stage
<1>3. s.next - 1 = Len(s.mentions) BY <1>1, <1>2
<1>4. s.notes = {NewNote(c, i, s.mentions[i]) : i \in {j \in 1..Len(s.mentions) : s.mentions[j] # s.row.author}}
  BY <1>1, <1>3 DEF Notified
<1>5. \A i : NewNote(c, i, s.mentions[i]).user = s.mentions[i] /\ NewNote(c, i, s.mentions[i]).comment = c
  BY DEF NewNote
<1>6. \A n \in s.notes : n.comment = c BY <1>4, <1>5
<1>7. {s.mentions[i] : i \in 1..Len(s.mentions)} = s.row.mentions BY DEF StageAt
<1>8. {n.user : n \in s.notes} = s.row.mentions \ {s.row.author}
  <2>1. ASSUME NEW n \in s.notes PROVE n.user \in s.row.mentions \ {s.row.author}
    BY <1>4, <1>5, <1>7
  <2>2. ASSUME NEW u \in s.row.mentions, u # s.row.author PROVE \E n \in s.notes : n.user = u
    <3>1. PICK i \in 1..Len(s.mentions) : u = s.mentions[i] BY <1>7
    <3>2. NewNote(c, i, s.mentions[i]) \in s.notes BY <1>4, <2>2, <3>1
    <3> QED BY <1>5, <3>1, <3>2
  <2> QED BY <2>1, <2>2
<1>9. \A n, m \in s.notes : n.user = m.user => n = m
  <2>1. SUFFICES ASSUME NEW n \in s.notes, NEW m \in s.notes, n.user = m.user PROVE n = m OBVIOUS
  <2>2. PICK i \in 1..Len(s.mentions) : n = NewNote(c, i, s.mentions[i]) BY <1>4
  <2>3. PICK j \in 1..Len(s.mentions) : m = NewNote(c, j, s.mentions[j]) BY <1>4
  <2>4. s.mentions[i] = s.mentions[j] BY <1>5, <2>1, <2>2, <2>3
  <2>5. i = j BY <2>4 DEF StageAt
  <2> QED BY <2>2, <2>3, <2>5
<1>10. s.row \in CommentRow BY <1>1 DEF StagedRow, CommentRow
<1> QED BY <1>1, <1>2, <1>6, <1>8, <1>9, <1>10

LEMMA StagedFinite ==
  ASSUME NEW c \in Comments, NEW s \in Stage, StageAt(c, "commit", s)
  PROVE  IsFiniteSet(s.notes)
<1>1. s.notes = Notified(c, s) BY DEF StageAt, Inserted
<1>2. PICK I : I = {j \in 1..(s.next - 1) : s.mentions[j] # s.row.author} OBVIOUS
<1>3. s.next - 1 \in Int BY DEF Stage
<1>4. IsFiniteSet(I)
  <2>1. IsFiniteSet(1..(s.next - 1)) BY <1>3, FS_Interval
  <2>2. I \in SUBSET (1..(s.next - 1)) BY <1>2
  <2> QED BY <2>1, <2>2, FS_Subset
<1>5. PICK f : f = [i \in I |-> NewNote(c, i, s.mentions[i])] OBVIOUS
<1>6. s.notes = {f[i] : i \in I} BY <1>1, <1>2, <1>5 DEF Notified
<1>7. f \in Surjection(I, s.notes) BY <1>5, <1>6 DEF Surjection
<1> QED BY <1>4, <1>7, FS_Surjection

LEMMA CommitCommentKeeps ==
  ASSUME CommentInv, NEW c \in Comments, CommitComment(c), FilesIdle
  PROVE  CommentInv'
<1>1. UNCHANGED <<carg, changed, removedBy, fpc, link>> BY DEF CommitComment, FilesIdle, stores
<1>2. cpc[c] = "commit" BY DEF CommitComment
<1>3. PICK s \in Stage : s = staged[c] BY StageOfWriter
<1>4. StageAt(c, "commit", s) BY <1>2, <1>3, StageOfWriter DEF Inserted
<1>5. /\ s.notes \subseteq NoteRow /\ \A n \in s.notes : n.comment = c
      /\ {n.user : n \in s.notes} = s.row.mentions \ {s.row.author}
      /\ \A n, m \in s.notes : n.user = m.user => n = m
      /\ s.row \in CommentRow /\ s.row.entity[2] = "lower" /\ s.event = TRUE /\ s.log = TRUE
  BY <1>4, AllNotified
<1>6. /\ comment' = [comment EXCEPT ![c] = s.row] /\ notes' = notes \cup s.notes
      /\ events' = events \cup {c} /\ logged' = logged \cup {c}
      /\ staged' = [staged EXCEPT ![c] = NoStage] /\ Race({n.user : n \in s.notes})
      /\ cpc' = [cpc EXCEPT ![c] = "ok"]
  BY <1>3, <1>5 DEF CommitComment, CommentGoTo
<1>7. /\ CommentsTyped /\ cpc \in [CommentCallers -> CommentLabels] /\ staged \in [Comments -> Stage]
      /\ comment \in [Comments -> CommentRow \cup {Void}] /\ notes \subseteq NoteRow
      /\ events \subseteq Comments /\ logged \subseteq Comments
  BY DEF CommentInv, CommentsTyped, CommentTypeOK
<1>8. /\ cpc' \in [CommentCallers -> CommentLabels] /\ cpc'[c] = "ok"
      /\ \A d \in CommentCallers : d # c => cpc'[d] = cpc[d]
  BY <1>6, <1>7, CommentCallersDiffer DEF CommentLabels
<1>9. staged' \in [Comments -> Stage] /\ \A d \in Comments : d # c => staged'[d] = staged[d]
  <2>1. NoStage \in Stage BY DEF NoStage, Stage
  <2> QED BY <1>6, <1>7, <2>1
<1>10. /\ comment' \in [Comments -> CommentRow \cup {Void}] /\ comment'[c] = s.row
       /\ \A d \in Comments : d # c => comment'[d] = comment[d]
  BY <1>5, <1>6, <1>7
<1>11. /\ known' \in [Readers -> KnownItems]
       /\ \A r \in Readers :
            /\ cpc[r] # "count" => known'[r] = known[r]
            /\ cpc[r] = "count" /\ ~ known'[r].raced =>
                 ~ known[r].raced /\ carg[r].user \notin {n.user : n \in s.notes}
  BY <1>6, <1>7, RaceMarks
<1>12. CommentsTyped'
  BY <1>1, <1>5, <1>6, <1>7, <1>8, <1>9, <1>10, <1>11 DEF CommentsTyped, CommentTypeOK
<1>13. comment[c] = Void /\ \A n \in notes : n.comment # c BY <1>2 DEF CommentInv, Posted
<1>14. \A d \in Comments : Live(d) => Live(d)'
  BY <1>10, <1>13 DEF Live
<1>15. \A d \in Comments : comment[d] # Void => comment'[d] = comment[d] BY <1>10, <1>13
<1>16. \A d \in Comments : Posted(d)'
  <2>1. Posted(c)'
    <3>1. NotifiedOf(c)' = {n.user : n \in s.notes}
      <4>1. {m \in notes' : m.comment = c} = s.notes BY <1>5, <1>6, <1>13
      <4> QED BY <4>1 DEF NotifiedOf
    <3>2. (NotifiedOf(c) = comment[c].mentions \ {comment[c].author})' BY <1>5, <1>10, <3>1
    <3> QED BY <1>5, <1>6, <1>8, <1>10, <3>2 DEF Posted, WriterLabels, Inserted
  <2>2. ASSUME NEW d \in Comments, d # c PROVE Posted(d)'
    <3>1. {m \in notes' : m.comment = d} = {m \in notes : m.comment = d} BY <1>5, <1>6, <2>2
    <3>2. NotifiedOf(d)' = NotifiedOf(d) BY <3>1 DEF NotifiedOf
    <3>3. (\A n \in notes : n.comment # d) => \A n \in notes' : n.comment # d BY <3>1
    <3>4. cpc'[d] = cpc[d] /\ staged'[d] = staged[d] /\ comment'[d] = comment[d]
          /\ (d \in events' <=> d \in events) /\ (d \in logged' <=> d \in logged)
      BY <1>6, <1>8, <1>9, <1>10, <2>2, CommentCallersDiffer
    <3>5. Posted(d) BY DEF CommentInv
    <3> QED BY <3>2, <3>3, <3>4, <3>5 DEF Posted
  <2> QED BY <2>1, <2>2
<1>17. NotesDiffer'
  <2>0. IsFiniteSet(notes')
    <3>1. IsFiniteSet(notes) BY DEF CommentInv, NotesDiffer
    <3>2. IsFiniteSet(s.notes) BY <1>4, StagedFinite
    <3> QED BY <1>6, <3>1, <3>2, FS_Union
  <2>1. SUFFICES ASSUME NEW n \in notes', NEW m \in notes', n.comment = m.comment, n.user = m.user
                 PROVE  n = m
    BY <2>0 DEF NotesDiffer
  <2>2. n \in notes \/ n \in s.notes BY <1>6
  <2>3. m \in notes \/ m \in s.notes BY <1>6
  <2>4. CASE n \in s.notes BY <1>5, <1>13, <2>1, <2>3, <2>4
  <2>5. CASE n \in notes
    <3>1. m \in notes BY <1>5, <1>13, <2>1, <2>3, <2>5
    <3> QED BY <2>1, <2>5, <3>1 DEF CommentInv, NotesDiffer
  <2> QED BY <2>2, <2>4, <2>5
<1>18. ParentKept'
  <2>1. SUFFICES ASSUME NEW d \in Comments, cpc'[d] \in Inserted, staged'[d].row.parent # Void
                 PROVE  Live(staged[d].row.parent)'
    BY DEF ParentKept
  <2>2. d # c BY <1>8, <2>1 DEF Inserted
  <2>3. cpc'[d] = cpc[d] /\ staged'[d] = staged[d] BY <1>8, <1>9, <2>2, CommentCallersDiffer
  <2>4. Live(staged[d].row.parent) BY <2>1, <2>3 DEF CommentInv, ParentKept
  <2>5. StageAt(d, cpc[d], staged[d]) BY <2>1, <2>3, StageOfWriter
  <2>6. PICK p \in Comments : p = staged[d].row.parent BY <2>1, <2>3, <2>5 DEF StageAt, StagedRow
  <2>7. Live(p)' BY <1>14, <2>4, <2>6
  <2> QED BY <2>3, <2>6, <2>7
<1>19. AnswersHaveParents'
  <2>1. SUFFICES ASSUME NEW d \in Comments, Live(d)', comment'[d].parent # Void
                 PROVE  Live(comment[d].parent)'
    BY DEF AnswersHaveParents
  <2>2. PICK p \in Comments : p = comment'[d].parent /\ Live(p)
    <3>1. CASE d = c
      <4>1. s.row.parent \in Comments BY <1>5, <1>10, <2>1, <3>1 DEF CommentRow
      <4>2. Live(s.row.parent) BY <1>2, <1>3, <1>10, <2>1, <3>1 DEF CommentInv, ParentKept, Inserted
      <4> QED BY <1>10, <3>1, <4>1, <4>2
    <3>2. CASE d # c
      <4>1. comment'[d] = comment[d] /\ Live(d) BY <1>10, <2>1, <3>2 DEF Live
      <4>2. comment[d].parent \in Comments BY <1>7, <2>1, <4>1 DEF Live, CommentRow
      <4>3. Live(comment[d].parent) BY <2>1, <4>1 DEF CommentInv, AnswersHaveParents
      <4> QED BY <4>1, <4>2, <4>3
    <3> QED BY <3>1, <3>2
  <2>3. Live(p)' BY <1>14, <2>2
  <2> QED BY <2>2, <2>3
<1>20. \A d \in Removers \cup Readers : cpc'[d] = cpc[d] /\ carg'[d] = carg[d]
  BY <1>1, <1>8, CommentCallersDiffer
<1>21. RemoversEnded'
  <2>1. \A d \in Comments : removedBy[d] # Void => removedBy[d] \in Removers
    BY <1>7 DEF CommentsTyped, CommentTypeOK
  <2> QED BY <1>1, <1>20, <2>1 DEF CommentInv, RemoversEnded
<1>22. DeletedByAuthors'
  <2>1. \A a \in Comments : Below(a) \subseteq Below(a)' BY <1>15, BelowGrows
  <2>2. ASSUME NEW d \in Comments, removedBy[d] # Void
        PROVE  LET user == carg[removedBy[d]].user IN
               user = Void \/ \E a \in Comments : comment'[a] # Void /\ d \in Below(a)' /\ comment'[a].author = user
    BY <1>15, <2>1, <2>2 DEF CommentInv, DeletedByAuthors
  <2> QED BY <1>1, <2>2 DEF DeletedByAuthors
<1>23. \A d \in Removers : RemoverOk(d)' BY <1>15, <1>20, RemoverRests DEF CommentInv
<1>24. \A r \in Readers : ReaderOk(r)'
  <2>1. SUFFICES ASSUME NEW r \in Readers PROVE ReaderOk(r)' OBVIOUS
  <2>2. ASSUME cpc[r] = "count", ~ known'[r].raced
        PROVE  ~ known[r].raced /\ Unread(carg[r].user)' = Unread(carg[r].user)
    <3>1. ~ known[r].raced /\ carg[r].user \notin {n.user : n \in s.notes} BY <1>11, <2>2
    <3>2. carg'[r].user = carg[r].user BY <1>1
    <3> QED BY <1>6, <3>1, <3>2 DEF Unread, NotesOf
  <2> QED BY <1>1, <1>11, <1>15, <1>20, <2>2, ReaderRests DEF CommentInv
<1> QED
  BY <1>12, <1>16, <1>17, <1>18, <1>19, <1>21, <1>22, <1>23, <1>24 DEF CommentInv

LEMMA CommentCrashKeeps ==
  ASSUME CommentInv, CommentCrash, FilesIdle
  PROVE  CommentInv'
<1>1. UNCHANGED <<carg, comment, notes, events, logged, changed, removedBy, known, fpc, link>>
  BY DEF CommentCrash, tables, FilesIdle, stores
<1>2. CommentsTyped /\ cpc \in [CommentCallers -> CommentLabels]
  BY DEF CommentInv, CommentsTyped, CommentTypeOK
<1>3. \A c \in CommentCallers :
        cpc'[c] = IF cpc[c] \in {"idle", "ok", "refused"} THEN cpc[c] ELSE "refused"
  BY DEF CommentCrash
<1>4. cpc' \in [CommentCallers -> CommentLabels] BY <1>2 DEF CommentCrash, CommentLabels
<1>5. staged' \in [Comments -> Stage]
  <2>1. NoStage \in Stage BY DEF NoStage, Stage
  <2> QED BY <2>1 DEF CommentCrash
<1>6. CommentsTyped' BY <1>1, <1>2, <1>4, <1>5 DEF CommentsTyped, CommentTypeOK
<1>7. \A c \in Comments : Posted(c)'
  <2>1. SUFFICES ASSUME NEW c \in Comments PROVE Posted(c)' OBVIOUS
  <2>2. Posted(c) BY DEF CommentInv
  <2>3. cpc'[c] = IF cpc[c] \in {"idle", "ok", "refused"} THEN cpc[c] ELSE "refused"
    BY <1>3, CommentCallersDiffer
  <2>4. NotifiedOf(c)' = NotifiedOf(c) BY <1>1 DEF NotifiedOf
  <2> QED BY <1>1, <2>2, <2>3, <2>4 DEF Posted, WriterLabels, Inserted
<1>8. NotesDiffer' BY <1>1 DEF CommentInv, NotesDiffer
<1>9. ParentKept' BY <1>3, CommentCallersDiffer DEF ParentKept, Inserted
<1>10. AnswersHaveParents' /\ DeletedByAuthors' /\ RemoversEnded'
  <2>1. \A d \in Removers : cpc[d] = "ok" => cpc'[d] = "ok" /\ carg'[d] = carg[d]
    BY <1>1, <1>3, CommentCallersDiffer
  <2> QED BY <1>1, <1>2, <2>1, ThreadsRest DEF CommentInv
<1>11. \A d \in Removers : RemoverOk(d)' BY <1>3, CommentCallersDiffer DEF RemoverOk
<1>12. \A r \in Readers : ReaderOk(r)'
  <2>1. SUFFICES ASSUME NEW r \in Readers PROVE ReaderOk(r)' OBVIOUS
  <2>2. ReaderOk(r) BY DEF CommentInv
  <2>3. CASE cpc'[r] = cpc[r]
    <3>1. Unread(carg[r].user)' = Unread(carg[r].user) BY <1>1 DEF Unread, NotesOf
    <3> QED BY <1>1, <2>2, <2>3, <3>1, ReaderRests
  <2>4. CASE cpc'[r] = "refused"
    <3>1. CountOk(r)' BY <1>1, <2>2, <2>4 DEF ReaderOk, CountOk
    <3> QED BY <2>4, <3>1 DEF ReaderOk
  <2> QED BY <1>3, <2>3, <2>4, CommentCallersDiffer
<1> QED BY <1>6, <1>7, <1>8, <1>9, <1>10, <1>11, <1>12 DEF CommentInv

LEMMA CheckAuthorKeeps ==
  ASSUME CommentInv, NEW d \in Removers, CheckAuthor(d), FilesIdle
  PROVE  CommentInv'
<1>1. UNCHANGED <<staged, comment, notes, events, logged, changed, removedBy, known, fpc, link>>
  BY DEF CheckAuthor, tables, FilesIdle, stores
<1>2. cpc[d] = "idle" BY DEF CheckAuthor
<1>3. PICK c \in Comments, user \in Users \cup {Void} :
        /\ cpc' = [cpc EXCEPT ![d] = IF Live(c) /\ MayDelete(user, c) THEN "delete" ELSE "refused"]
        /\ carg' = [carg EXCEPT ![d].comment = c, ![d].user = user]
  BY DEF CheckAuthor, CommentGoTo
<1>4. /\ CommentsTyped /\ cpc \in [CommentCallers -> CommentLabels]
      /\ carg \in [Removers \cup Readers -> CommentArgs]
  BY DEF CommentInv, CommentsTyped, CommentTypeOK
<1>5. PICK k : k = [carg[d] EXCEPT !.comment = c, !.user = user] OBVIOUS
<1>6. carg[d] \in CommentArgs BY <1>4
<1>7. k \in CommentArgs /\ k.comment = c /\ k.user = user BY <1>5, <1>6 DEF CommentArgs
<1>8. carg' = [carg EXCEPT ![d] = k] BY <1>3, <1>4, <1>5
<1>9. /\ carg' \in [Removers \cup Readers -> CommentArgs] /\ carg'[d] = k
      /\ \A r \in Removers \cup Readers : r # d => carg'[r] = carg[r]
  BY <1>4, <1>7, <1>8
<1>10. PICK l \in {"delete", "refused"} : /\ cpc' = [cpc EXCEPT ![d] = l]
                                          /\ l = "delete" => Live(c) /\ MayDelete(user, c)
  BY <1>3
<1>11. /\ cpc' \in [CommentCallers -> CommentLabels] /\ cpc'[d] = l
       /\ \A r \in CommentCallers : r # d => cpc'[r] = cpc[r]
  BY <1>4, <1>10, CommentCallersDiffer DEF CommentLabels
<1>12. CommentsTyped' BY <1>1, <1>4, <1>9, <1>11 DEF CommentsTyped, CommentTypeOK
<1>13. \A b \in Comments : cpc'[b] = cpc[b] BY <1>11, CommentCallersDiffer
<1>14. \A b \in Comments : Posted(b)' BY <1>1, <1>13, WriterRests DEF CommentInv
<1>15. NotesDiffer' /\ ParentKept' BY <1>1, <1>13 DEF CommentInv, NotesDiffer, ParentKept, Live
<1>16. AnswersHaveParents' /\ DeletedByAuthors' /\ RemoversEnded'
  <2>1. \A r \in Removers : cpc[r] = "ok" => cpc'[r] = "ok" /\ carg'[r] = carg[r]
    BY <1>2, <1>9, <1>11, CommentCallersDiffer
  <2> QED BY <1>1, <1>4, <2>1, ThreadsRest DEF CommentInv
<1>17. \A r \in Removers : RemoverOk(r)'
  <2>1. RemoverOk(d)' BY <1>1, <1>7, <1>9, <1>10, <1>11 DEF RemoverOk, MayDelete, Live
  <2>2. ASSUME NEW r \in Removers, r # d PROVE RemoverOk(r)'
    BY <1>1, <1>9, <1>11, <2>2, RemoverRests, CommentCallersDiffer DEF CommentInv
  <2> QED BY <2>1, <2>2
<1>18. \A r \in Readers : ReaderOk(r)'
  <2>1. SUFFICES ASSUME NEW r \in Readers PROVE ReaderOk(r)' OBVIOUS
  <2>2. cpc'[r] = cpc[r] /\ carg'[r] = carg[r] BY <1>9, <1>11, CommentCallersDiffer
  <2>3. Unread(carg[r].user)' = Unread(carg[r].user) BY <1>1, <2>2 DEF Unread, NotesOf
  <2> QED BY <1>1, <2>2, <2>3, ReaderRests DEF CommentInv
<1> QED BY <1>12, <1>14, <1>15, <1>16, <1>17, <1>18 DEF CommentInv

LEMMA DeleteCommentKeeps ==
  ASSUME CommentInv, NEW d \in Removers, DeleteComment(d), FilesIdle
  PROVE  CommentInv'
<1>1. UNCHANGED <<carg, staged, notes, events, logged, changed, known, fpc, link>>
  BY DEF DeleteComment, FilesIdle, stores
<1>2. cpc[d] = "delete" BY DEF DeleteComment
<1>3. PICK x \in Comments : x = carg[d].comment /\ comment[x] # Void /\ MayDelete(carg[d].user, x)
  BY <1>2 DEF CommentInv, RemoverOk
<1>4. PICK gone \in SUBSET Comments : gone = Thread(x) BY DEF Thread, Below
<1>5. /\ gone \cap Locked = {} /\ cpc' = [cpc EXCEPT ![d] = "ok"]
      /\ comment' = [y \in Comments |->
                   IF y \in gone THEN [comment[y] EXCEPT !.status = "deleted"] ELSE comment[y]]
      /\ removedBy' = [y \in Comments |-> IF y \in gone THEN d ELSE removedBy[y]]
  BY <1>3, <1>4 DEF DeleteComment, CommentGoTo
<1>6. /\ CommentsTyped /\ cpc \in [CommentCallers -> CommentLabels]
      /\ comment \in [Comments -> CommentRow \cup {Void}]
      /\ removedBy \in [Comments -> Removers \cup {Void}]
  BY DEF CommentInv, CommentsTyped, CommentTypeOK
<1>7. \A y \in gone : y \in Below(x) /\ Live(y) /\ comment[y] \in CommentRow
  BY <1>4, <1>6 DEF Thread, Live
<1>8. /\ cpc' \in [CommentCallers -> CommentLabels] /\ cpc'[d] = "ok"
      /\ \A r \in CommentCallers : r # d => cpc'[r] = cpc[r]
  BY <1>5, <1>6, CommentCallersDiffer DEF CommentLabels
<1>9. \A row \in CommentRow :
        /\ [row EXCEPT !.status = "deleted"] \in CommentRow
        /\ [row EXCEPT !.status = "deleted"].status = "deleted"
        /\ [row EXCEPT !.status = "deleted"].entity = row.entity
        /\ [row EXCEPT !.status = "deleted"].author = row.author
        /\ [row EXCEPT !.status = "deleted"].parent = row.parent
        /\ [row EXCEPT !.status = "deleted"].mentions = row.mentions
  BY DEF CommentRow
<1>10. comment' \in [Comments -> CommentRow \cup {Void}] BY <1>5, <1>6, <1>7, <1>9
<1>11. \A y \in Comments :
         /\ comment[y] # Void <=> comment'[y] # Void
         /\ comment[y] # Void => /\ comment'[y].entity = comment[y].entity
                                 /\ comment'[y].author = comment[y].author
                                 /\ comment'[y].parent = comment[y].parent
                                 /\ comment'[y].mentions = comment[y].mentions
  BY <1>5, <1>6, <1>7, <1>9, CommentCallersDiffer
<1>12. \A y \in Comments : Live(y)' <=> Live(y) /\ y \notin gone
  BY <1>5, <1>6, <1>7, <1>9, CommentCallersDiffer DEF Live
<1>13. /\ removedBy' \in [Comments -> Removers \cup {Void}]
       /\ \A y \in Comments : removedBy'[y] = IF y \in gone THEN d ELSE removedBy[y]
  BY <1>5, <1>6
<1>14. CommentsTyped' BY <1>1, <1>6, <1>8, <1>10, <1>13 DEF CommentsTyped, CommentTypeOK
<1>15. \A b \in Comments : Posted(b)'
  <2>1. SUFFICES ASSUME NEW b \in Comments PROVE Posted(b)' OBVIOUS
  <2>2. Posted(b) BY DEF CommentInv
  <2>3. cpc'[b] = cpc[b] BY <1>8, CommentCallersDiffer
  <2>4. NotifiedOf(b)' = NotifiedOf(b) BY <1>1 DEF NotifiedOf
  <2>5. CASE cpc[b] = "ok"
    <3>1. comment[b] \in CommentRow /\ comment[b] # Void BY <2>2, <2>5, CommentCallersDiffer DEF Posted
    <3>2. comment'[b] \in CommentRow BY <1>10, <1>11, <3>1
    <3> QED BY <1>1, <1>11, <2>2, <2>3, <2>4, <2>5, <3>1, <3>2 DEF Posted, Inserted
  <2>6. CASE cpc[b] # "ok"
    <3>1. comment'[b] = Void BY <1>11, <2>2, <2>6 DEF Posted
    <3> QED BY <1>1, <2>2, <2>3, <2>6, <3>1 DEF Posted
  <2> QED BY <2>5, <2>6
<1>16. NotesDiffer' BY <1>1 DEF CommentInv, NotesDiffer
<1>17. ParentKept'
  <2>1. SUFFICES ASSUME NEW b \in Comments, cpc'[b] \in Inserted, staged'[b].row.parent # Void
                 PROVE  Live(staged[b].row.parent)'
    BY DEF ParentKept
  <2>2. cpc[b] \in Inserted /\ staged[b].row.parent # Void BY <1>1, <1>8, <2>1, CommentCallersDiffer
  <2>3. StageAt(b, cpc[b], staged[b]) BY <2>2, StageOfWriter
  <2>4. PICK p \in Comments : p = staged[b].row.parent BY <2>2, <2>3 DEF StageAt, StagedRow
  <2>5. Live(p) BY <2>2, <2>4 DEF CommentInv, ParentKept
  <2>6. p \in Locked BY <2>2, <2>4 DEF Locked, Inserted
  <2>7. Live(p)' BY <1>5, <1>12, <2>5, <2>6
  <2> QED BY <1>1, <2>4, <2>7
<1>18. AnswersHaveParents'
  <2>1. SUFFICES ASSUME NEW b \in Comments, Live(b)', comment'[b].parent # Void
                 PROVE  Live(comment[b].parent)'
    BY DEF AnswersHaveParents
  <2>2. Live(b) /\ b \notin gone /\ comment[b] # Void /\ comment[b] \in CommentRow
    BY <1>6, <1>12, <2>1 DEF Live
  <2>3. PICK p \in Comments : p = comment[b].parent /\ p = comment'[b].parent
    BY <1>11, <2>1, <2>2 DEF CommentRow
  <2>4. Live(p) BY <2>1, <2>2, <2>3 DEF CommentInv, AnswersHaveParents
  <2>5. p \notin gone
    <3>1. SUFFICES ASSUME p \in gone PROVE FALSE OBVIOUS
    <3>2. p \in Below(x) BY <1>7, <3>1
    <3>3. b \in Below(x) BY <2>2, <2>3, <3>2, BelowClosed
    <3> QED BY <1>4, <2>2, <3>3 DEF Thread
  <2>6. Live(p)' BY <1>12, <2>4, <2>5
  <2> QED BY <2>3, <2>6
<1>19. \A b \in Comments : removedBy[b] # Void => removedBy[b] \in Removers /\ cpc[removedBy[b]] = "ok"
  BY <1>6 DEF CommentInv, RemoversEnded
<1>20. RemoversEnded' BY <1>2, <1>8, <1>13, <1>19, CommentCallersDiffer DEF RemoversEnded
<1>21. DeletedByAuthors'
  <2>1. \A a \in Comments : Below(a) \subseteq Below(a)' BY <1>11, BelowGrows
  <2>2. ASSUME NEW b \in Comments, removedBy'[b] # Void
        PROVE  LET user == carg[removedBy'[b]].user IN
               user = Void \/ \E a \in Comments : comment'[a] # Void /\ b \in Below(a)' /\ comment'[a].author = user
    <3>1. CASE b \in gone
      <4>1. removedBy'[b] = d /\ b \in Below(x)' BY <1>7, <1>13, <2>1, <3>1
      <4>2. carg[d].user = Void \/ comment'[x].author = carg[d].user BY <1>3, <1>11 DEF MayDelete
      <4> QED BY <1>3, <1>11, <4>1, <4>2
    <3>2. CASE b \notin gone
      <4>1. removedBy'[b] = removedBy[b] BY <1>13, <3>2
      <4> QED BY <1>11, <2>1, <2>2, <4>1 DEF CommentInv, DeletedByAuthors
    <3> QED BY <3>1, <3>2
  <2> QED BY <1>1, <2>2 DEF DeletedByAuthors
<1>22. \A r \in Removers : RemoverOk(r)'
  <2>1. RemoverOk(d)' BY <1>8 DEF RemoverOk
  <2>2. ASSUME NEW r \in Removers, r # d PROVE RemoverOk(r)'
    BY <1>1, <1>8, <1>11, <2>2, RemoverRests, CommentCallersDiffer DEF CommentInv
  <2> QED BY <2>1, <2>2
<1>23. \A r \in Readers : ReaderOk(r)'
  <2>1. SUFFICES ASSUME NEW r \in Readers PROVE ReaderOk(r)' OBVIOUS
  <2>2. cpc'[r] = cpc[r] /\ carg'[r] = carg[r] BY <1>1, <1>8, CommentCallersDiffer
  <2>3. Unread(carg[r].user)' = Unread(carg[r].user) BY <1>1 DEF Unread, NotesOf
  <2> QED BY <1>1, <1>11, <2>2, <2>3, ReaderRests DEF CommentInv
<1> QED
  BY <1>14, <1>15, <1>16, <1>17, <1>18, <1>20, <1>21, <1>22, <1>23 DEF CommentInv

ReaderLabels == {"idle", "count", "logs", "files", "ok", "refused"}

\* A step of a reader that reads: it changes its own answer and what is known of it.
LEMMA ReaderMoves ==
  ASSUME CommentInv, NEW r \in Readers, NEW l \in ReaderLabels, NEW k \in CommentArgs, NEW q \in KnownItems,
         cpc' = [cpc EXCEPT ![r] = l], carg' = [carg EXCEPT ![r] = k], known' = [known EXCEPT ![r] = q],
         UNCHANGED <<staged, comment, notes, events, logged, changed, removedBy, fpc, link>>,
         ReaderOk(r)'
  PROVE  CommentInv'
<1>1. /\ CommentsTyped /\ cpc \in [CommentCallers -> CommentLabels]
      /\ carg \in [Removers \cup Readers -> CommentArgs] /\ known \in [Readers -> KnownItems]
  BY DEF CommentInv, CommentsTyped, CommentTypeOK
<1>2. l \in CommentLabels BY DEF ReaderLabels, CommentLabels
<1>3. /\ cpc' \in [CommentCallers -> CommentLabels]
      /\ carg' \in [Removers \cup Readers -> CommentArgs] /\ known' \in [Readers -> KnownItems]
      /\ \A d \in CommentCallers : d # r => cpc'[d] = cpc[d]
      /\ \A d \in Removers \cup Readers : d # r => carg'[d] = carg[d]
      /\ \A d \in Readers : d # r => known'[d] = known[d]
  BY <1>1, <1>2, CommentCallersDiffer
<1>4. CommentsTyped' BY <1>1, <1>3 DEF CommentsTyped, CommentTypeOK
<1>5. \A c \in Comments : cpc'[c] = cpc[c] BY <1>3, CommentCallersDiffer
<1>6. \A c \in Comments : Posted(c)' BY <1>5, WriterRests DEF CommentInv
<1>7. NotesDiffer' /\ ParentKept' BY <1>5 DEF CommentInv, NotesDiffer, ParentKept, Live
<1>8. \A d \in Removers : cpc'[d] = cpc[d] /\ carg'[d] = carg[d] BY <1>3, CommentCallersDiffer
<1>9. AnswersHaveParents' /\ DeletedByAuthors' /\ RemoversEnded'
  BY <1>1, <1>8, ThreadsRest DEF CommentInv
<1>10. \A d \in Removers : RemoverOk(d)' BY <1>8, RemoverRests DEF CommentInv
<1>11. ASSUME NEW d \in Readers, d # r PROVE ReaderOk(d)'
  <2>1. cpc'[d] = cpc[d] /\ carg'[d] = carg[d] /\ known'[d] = known[d]
    BY <1>3, <1>11, CommentCallersDiffer
  <2>2. Unread(carg[d].user)' = Unread(carg[d].user) BY <2>1 DEF Unread, NotesOf
  <2> QED BY <2>1, <2>2, ReaderRests DEF CommentInv
<1> QED BY <1>4, <1>6, <1>7, <1>9, <1>10, <1>11 DEF CommentInv

MarkRead(n) == [n EXCEPT !.read = TRUE]

\* Marking notifications of a user as read leaves them what they are.
LEMMA MarksKeep ==
  ASSUME CommentInv, NEW r \in Readers, NEW user \in Users, NEW M \in SUBSET NotesOf(user),
         cpc[r] = "idle", cpc' = [cpc EXCEPT ![r] = "ok"],
         notes' = (notes \ M) \cup {MarkRead(n) : n \in M}, Race({user}),
         UNCHANGED <<carg, staged, comment, events, logged, changed, removedBy, fpc, link>>
  PROVE  CommentInv'
<1>1. CommentsTyped /\ cpc \in [CommentCallers -> CommentLabels] /\ notes \subseteq NoteRow
  BY DEF CommentInv, CommentsTyped, CommentTypeOK
<1>2. \A n \in NoteRow : /\ MarkRead(n) \in NoteRow /\ MarkRead(n).comment = n.comment
                         /\ MarkRead(n).user = n.user
  BY DEF NoteRow, MarkRead
<1>3. M \subseteq notes /\ \A n \in M : n.user = user BY DEF NotesOf
<1>4. /\ known' \in [Readers -> KnownItems]
      /\ \A d \in Readers :
           /\ cpc[d] # "count" => known'[d] = known[d]
           /\ cpc[d] = "count" /\ ~ known'[d].raced => ~ known[d].raced /\ carg[d].user \notin {user}
  BY <1>1, RaceMarks
<1>5. /\ cpc' \in [CommentCallers -> CommentLabels] /\ cpc'[r] = "ok"
      /\ \A d \in CommentCallers : d # r => cpc'[d] = cpc[d]
  BY <1>1, CommentCallersDiffer DEF CommentLabels
<1>6. notes' \subseteq NoteRow BY <1>1, <1>2, <1>3
<1>7. CommentsTyped' BY <1>1, <1>4, <1>5, <1>6 DEF CommentsTyped, CommentTypeOK
<1>8. \A n \in notes' : \E m \in notes : n = IF m \in M THEN MarkRead(m) ELSE m BY <1>3
<1>9. \A m \in notes : (IF m \in M THEN MarkRead(m) ELSE m) \in notes' OBVIOUS
<1>10. \A m \in notes : /\ (IF m \in M THEN MarkRead(m) ELSE m).comment = m.comment
                        /\ (IF m \in M THEN MarkRead(m) ELSE m).user = m.user
  BY <1>1, <1>2
<1>11. \A c \in Comments : Posted(c)'
  <2>1. SUFFICES ASSUME NEW c \in Comments PROVE Posted(c)' OBVIOUS
  <2>2. NotifiedOf(c)' = NotifiedOf(c) BY <1>8, <1>9, <1>10 DEF NotifiedOf
  <2>3. (\A n \in notes : n.comment # c) => \A n \in notes' : n.comment # c BY <1>8, <1>10
  <2>4. cpc'[c] = cpc[c] BY <1>5, CommentCallersDiffer
  <2>5. Posted(c) BY DEF CommentInv
  <2> QED BY <2>2, <2>3, <2>4, <2>5 DEF Posted
<1>12. NotesDiffer'
  <2>0. IsFiniteSet(notes')
    <3>1. IsFiniteSet(notes) BY DEF CommentInv, NotesDiffer
    <3>2. PICK f : f = [m \in notes |-> IF m \in M THEN MarkRead(m) ELSE m] OBVIOUS
    <3>3. notes' = {f[m] : m \in notes} BY <1>8, <1>9, <3>2
    <3>4. f \in Surjection(notes, notes') BY <3>2, <3>3 DEF Surjection
    <3> QED BY <3>1, <3>4, FS_Surjection
  <2>1. SUFFICES ASSUME NEW n \in notes', NEW m \in notes', n.comment = m.comment, n.user = m.user
                 PROVE  n = m
    BY <2>0 DEF NotesDiffer
  <2>2. PICK n0 \in notes : n = IF n0 \in M THEN MarkRead(n0) ELSE n0 BY <1>8
  <2>3. PICK m0 \in notes : m = IF m0 \in M THEN MarkRead(m0) ELSE m0 BY <1>8
  <2>4. n0.comment = m0.comment /\ n0.user = m0.user BY <1>10, <2>1, <2>2, <2>3
  <2>5. n0 = m0 BY <2>4 DEF CommentInv, NotesDiffer
  <2> QED BY <2>2, <2>3, <2>5
<1>13. ParentKept' BY <1>5, CommentCallersDiffer DEF CommentInv, ParentKept, Live
<1>14. \A d \in Removers : cpc'[d] = cpc[d] /\ carg'[d] = carg[d] BY <1>5, CommentCallersDiffer
<1>15. AnswersHaveParents' /\ DeletedByAuthors' /\ RemoversEnded'
  BY <1>1, <1>14, ThreadsRest DEF CommentInv
<1>16. \A d \in Removers : RemoverOk(d)' BY <1>14, RemoverRests DEF CommentInv
<1>17. ReaderOk(r)'
  <2>1. carg'[r] = NoCommentArgs BY DEF CommentInv, ReaderOk
  <2>2. ~ carg'[r].exact /\ carg'[r].total = Void BY <2>1 DEF NoCommentArgs
  <2> QED BY <1>5, <2>2 DEF ReaderOk, CountOk
<1>18. ASSUME NEW d \in Readers, d # r PROVE ReaderOk(d)'
  <2>1. cpc'[d] = cpc[d] /\ carg'[d] = carg[d] BY <1>5, <1>18, CommentCallersDiffer
  <2>2. ASSUME cpc[d] = "count", ~ known'[d].raced
        PROVE  ~ known[d].raced /\ Unread(carg[d].user)' = Unread(carg[d].user)
    <3>1. ~ known[d].raced /\ carg[d].user # user BY <1>4, <2>2
    <3>2. \A n \in M : n.user = user /\ MarkRead(n).user = user BY <1>1, <1>2, <1>3
    <3> QED BY <2>1, <3>1, <3>2 DEF Unread, NotesOf
  <2> QED BY <1>4, <2>1, <2>2, ReaderRests DEF CommentInv
<1> QED
  BY <1>7, <1>11, <1>12, <1>13, <1>15, <1>16, <1>17, <1>18 DEF CommentInv

LEMMA MarkNotificationReadKeeps ==
  ASSUME CommentInv, NEW r \in Readers, MarkNotificationRead(r) \/ MarkAllNotificationsRead(r), FilesIdle
  PROVE  CommentInv'
<1>1. /\ UNCHANGED <<carg, staged, comment, events, logged, changed, removedBy, fpc, link>>
      /\ cpc[r] = "idle" /\ cpc' = [cpc EXCEPT ![r] = "ok"]
  BY DEF MarkNotificationRead, MarkAllNotificationsRead, CommentGoTo, FilesIdle, stores
<1>2. CASE MarkNotificationRead(r)
  <2>1. PICK user \in Users : \E n \in NotesOf(user) :
          notes' = (notes \ {n}) \cup {MarkRead(n)} /\ Race({user})
    BY <1>2 DEF MarkNotificationRead, MarkRead
  <2>2. PICK n \in NotesOf(user) : notes' = (notes \ {n}) \cup {MarkRead(n)} /\ Race({user}) BY <2>1
  <2>3. notes' = (notes \ {n}) \cup {MarkRead(m) : m \in {n}} BY <2>2
  <2>4. {n} \in SUBSET NotesOf(user) OBVIOUS
  <2> QED BY <1>1, <2>2, <2>3, <2>4, MarksKeep
<1>3. CASE MarkAllNotificationsRead(r)
  <2>1. PICK user \in Users :
          notes' = (notes \ Unread(user)) \cup {MarkRead(n) : n \in Unread(user)} /\ Race({user})
    BY <1>3 DEF MarkAllNotificationsRead, MarkRead
  <2>2. Unread(user) \in SUBSET NotesOf(user) BY DEF Unread
  <2> QED BY <1>1, <2>1, <2>2, MarksKeep
<1> QED BY <1>2, <1>3

LEMMA ReaderTyped ==
  ASSUME CommentInv, NEW r \in Readers
  PROVE  /\ cpc \in [CommentCallers -> CommentLabels] /\ carg \in [Removers \cup Readers -> CommentArgs]
         /\ known \in [Readers -> KnownItems] /\ carg[r] \in CommentArgs /\ known[r] \in KnownItems
         /\ notes \subseteq NoteRow /\ ReaderOk(r) /\ r \in CommentCallers
BY CommentCallersDiffer DEF CommentInv, CommentsTyped, CommentTypeOK

\* The page that LIMIT and OFFSET leave fits the number of unread notifications.
LEMMA PageFitsUnread ==
  ASSUME IsFiniteSet(notes), NEW user, NEW unread \in BOOLEAN, NEW limit \in Nat, NEW offset \in Nat,
         NEW answer, answer.page = [unread |-> unread, limit |-> limit, offset |-> offset],
         answer.items \in SUBSET ListNotificationsByUser(user, unread),
         Cardinality(answer.items) =
           PageLength(Cardinality(ListNotificationsByUser(user, unread)), answer.page)
  PROVE  PageFits(answer, Cardinality(Unread(user)))
<1>1. PICK rows : rows = ListNotificationsByUser(user, unread) OBVIOUS
<1>2. PICK items : items = answer.items OBVIOUS
<1>3. PICK shown : shown = {n \in items : ~ n.read} OBVIOUS
<1>4. rows \in SUBSET notes /\ Unread(user) \in SUBSET notes /\ (unread => rows = Unread(user))
  BY <1>1 DEF ListNotificationsByUser, Unread, NotesOf
<1>5. IsFiniteSet(rows) /\ IsFiniteSet(Unread(user)) BY <1>4, FS_Subset
<1>6. PICK n \in Nat : n = Cardinality(rows) BY <1>5, FS_CardinalityType
<1>7. items \in SUBSET rows /\ Cardinality(items) = PageLength(n, answer.page) BY <1>1, <1>2, <1>6
<1>8. shown \in SUBSET Unread(user) BY <1>1, <1>3, <1>7 DEF ListNotificationsByUser, Unread, NotesOf
<1>9. Cardinality(shown) <= Cardinality(Unread(user)) BY <1>5, <1>8, FS_Subset
<1>10. ASSUME offset = 0, Cardinality(items) < limit PROVE Cardinality(shown) = Cardinality(Unread(user))
  <2>1. PICK page : page = answer.page OBVIOUS
  <2>2. page.offset = 0 /\ page.limit = limit BY <1>10, <2>1
  <2>3. PageLength(n, page) = n BY <1>7, <1>10, <2>1, <2>2 DEF PageLength
  <2>4. items = rows BY <1>5, <1>6, <1>7, <2>1, <2>3, FS_Subset
  <2>5. shown = Unread(user) BY <1>1, <1>3, <1>4, <2>4 DEF ListNotificationsByUser, Unread
  <2> QED BY <2>5
<1>11. unread => Cardinality(items) = PageLength(Cardinality(Unread(user)), answer.page)
  BY <1>4, <1>6, <1>7
<1> QED BY <1>2, <1>3, <1>9, <1>10, <1>11 DEF PageFits

LEMMA ListNotificationsKeeps ==
  ASSUME CommentInv, NEW r \in Readers, ListNotifications(r), FilesIdle
  PROVE  CommentInv'
<1>1. /\ UNCHANGED <<staged, comment, notes, events, logged, changed, removedBy, known, fpc, link>>
      /\ cpc[r] = "idle"
  BY DEF ListNotifications, tables, FilesIdle, stores
<1>2. /\ cpc \in [CommentCallers -> CommentLabels] /\ carg \in [Removers \cup Readers -> CommentArgs]
      /\ known \in [Readers -> KnownItems] /\ carg[r] \in CommentArgs /\ known[r] \in KnownItems
      /\ notes \subseteq NoteRow /\ ReaderOk(r) /\ r \in CommentCallers
  BY ReaderTyped
<1>3. known' = [known EXCEPT ![r] = known[r]] BY <1>1, <1>2
<1>4. ~ carg[r].exact /\ carg[r].total = Void BY <1>1, <1>2 DEF ReaderOk, NoCommentArgs
<1>5. CASE cpc' = [cpc EXCEPT ![r] = "refused"] /\ carg' = carg
  <2>1. cpc'[r] = "refused" /\ carg'[r] = carg[r] BY <1>2, <1>5
  <2>2. ReaderOk(r)' BY <1>4, <2>1 DEF ReaderOk, CountOk
  <2>3. carg' = [carg EXCEPT ![r] = carg[r]] BY <1>2, <1>5
  <2> QED BY <1>1, <1>2, <1>3, <1>5, <2>2, <2>3, ReaderMoves DEF ReaderLabels
<1>6. ASSUME NEW user \in Users, NEW unread \in BOOLEAN, NEW asked \in 0..LargestPage + 1,
             NEW offset \in 0..MaxOffset, NEW page,
             page = [unread |-> unread, limit |-> NormalLimit(asked), offset |-> offset],
             NEW items \in SUBSET ListNotificationsByUser(user, unread),
             Cardinality(items) = PageLength(Cardinality(ListNotificationsByUser(user, unread)), page),
             carg' = [carg EXCEPT ![r].user = user, ![r].page = page, ![r].items = items],
             cpc' = [cpc EXCEPT ![r] = "count"]
      PROVE  CommentInv'
  <2>1. items \in SUBSET Items BY <1>2 DEF ListNotificationsByUser, Unread, NotesOf, Items
  <2>2. NormalLimit(asked) \in Nat /\ offset \in Nat BY PagesAreSome DEF NormalLimit
  <2>3. page \in Pages BY <1>6, <2>2 DEF Pages
  <2>4. PICK k : k = [carg[r] EXCEPT !.user = user, !.page = page, !.items = items] OBVIOUS
  <2>5. /\ k \in CommentArgs /\ k.user = user /\ k.items = items /\ k.page = page
        /\ k.exact = carg[r].exact /\ k.total = carg[r].total
    BY <1>2, <2>1, <2>3, <2>4 DEF CommentArgs
  <2>6. carg' = [carg EXCEPT ![r] = k] BY <1>2, <1>6, <2>4
  <2>7. cpc'[r] = "count" /\ carg'[r] = k BY <1>2, <1>6, <2>5, <2>6
  <2>8. Unread(user)' = Unread(user) BY <1>1 DEF Unread, NotesOf
  <2>9. IsFiniteSet(notes) BY DEF CommentInv, NotesDiffer
  <2>10. PageFits(k, Cardinality(Unread(user))) BY <1>6, <2>2, <2>5, <2>9, PageFitsUnread
  <2>11. PageFits(carg[r], Cardinality(Unread(carg[r].user)))' BY <2>5, <2>7, <2>8, <2>10
  <2>12. ReaderOk(r)' BY <1>4, <2>5, <2>7, <2>11 DEF ReaderOk, CountOk
  <2> QED BY <1>1, <1>2, <1>3, <1>6, <2>5, <2>6, <2>12, ReaderMoves DEF ReaderLabels
<1>7. CASE \E user \in Users, unread \in BOOLEAN, asked \in 0..LargestPage + 1, offset \in 0..MaxOffset :
             LET rows == ListNotificationsByUser(user, unread)
                 page == [unread |-> unread, limit |-> NormalLimit(asked), offset |-> offset] IN
             \E items \in SUBSET rows :
               /\ Cardinality(items) = PageLength(Cardinality(rows), page)
               /\ carg' = [carg EXCEPT ![r].user = user, ![r].page = page, ![r].items = items]
               /\ cpc' = [cpc EXCEPT ![r] = "count"]
  <2>1. PICK user \in Users, unread \in BOOLEAN, asked \in 0..LargestPage + 1, offset \in 0..MaxOffset :
             LET rows == ListNotificationsByUser(user, unread)
                 page == [unread |-> unread, limit |-> NormalLimit(asked), offset |-> offset] IN
             \E items \in SUBSET rows :
               /\ Cardinality(items) = PageLength(Cardinality(rows), page)
               /\ carg' = [carg EXCEPT ![r].user = user, ![r].page = page, ![r].items = items]
               /\ cpc' = [cpc EXCEPT ![r] = "count"]
    BY <1>7
  <2>2. PICK page : page = [unread |-> unread, limit |-> NormalLimit(asked), offset |-> offset] OBVIOUS
  <2>3. PICK items \in SUBSET ListNotificationsByUser(user, unread) :
               /\ Cardinality(items) = PageLength(Cardinality(ListNotificationsByUser(user, unread)), page)
               /\ carg' = [carg EXCEPT ![r].user = user, ![r].page = page, ![r].items = items]
               /\ cpc' = [cpc EXCEPT ![r] = "count"]
    BY <2>1, <2>2
  <2> QED BY <1>6, <2>2, <2>3
<1> QED BY <1>5, <1>7 DEF ListNotifications, CommentGoTo

LEMMA CountNotificationsKeeps ==
  ASSUME CommentInv, NEW r \in Readers, CountNotifications(r), FilesIdle
  PROVE  CommentInv'
<1>1. /\ UNCHANGED <<staged, comment, notes, events, logged, changed, removedBy, known, fpc, link>>
      /\ cpc[r] = "count" /\ cpc' = [cpc EXCEPT ![r] = "ok"]
  BY DEF CountNotifications, CommentGoTo, tables, FilesIdle, stores
<1>2. PICK n : n = Cardinality(Unread(carg[r].user)) OBVIOUS
<1>3. carg' = [carg EXCEPT ![r].total = n] BY <1>2 DEF CountNotifications, CountUnreadNotifications
<1>4. /\ cpc \in [CommentCallers -> CommentLabels] /\ carg \in [Removers \cup Readers -> CommentArgs]
      /\ known \in [Readers -> KnownItems] /\ carg[r] \in CommentArgs /\ known[r] \in KnownItems
      /\ notes \subseteq NoteRow /\ ReaderOk(r) /\ r \in CommentCallers
  BY ReaderTyped
<1>5. n \in Totals BY <1>2, <1>4 DEF Totals, Unread, NotesOf
<1>6. PICK k : k = [carg[r] EXCEPT !.total = n] OBVIOUS
<1>7. /\ k \in CommentArgs /\ k.items = carg[r].items /\ k.page = carg[r].page
      /\ k.exact = carg[r].exact /\ k.total = n
  BY <1>4, <1>5, <1>6 DEF CommentArgs
<1>8. carg' = [carg EXCEPT ![r] = k] BY <1>3, <1>4, <1>6
<1>9. known' = [known EXCEPT ![r] = known[r]] BY <1>1, <1>4
<1>10. cpc'[r] = "ok" /\ carg'[r] = k BY <1>1, <1>4, <1>7, <1>8
<1>11. ~ carg[r].exact /\ (~ known[r].raced => PageFits(k, n))
  BY <1>1, <1>2, <1>4, <1>7 DEF ReaderOk, CountOk, PageFits
<1>12. ReaderOk(r)' BY <1>1, <1>7, <1>10, <1>11 DEF ReaderOk, CountOk
<1> QED BY <1>1, <1>4, <1>7, <1>8, <1>9, <1>12, ReaderMoves DEF ReaderLabels

LEMMA ListsTyped ==
  ASSUME CommentsTyped, NEW ref
  PROVE  /\ ListCommentsByEntity(ref) \subseteq Items /\ ListCommentsByEntity(ref) \subseteq Comments
         /\ ListAttachmentsByEntity(ref) \subseteq Items /\ ListAttachmentsByEntity(ref) \subseteq Links
         /\ ListAudit(ref) \subseteq Items /\ ListAudit(ref) \subseteq Changes \X Entities
         /\ ListAudit(ref) \subseteq {changed[i] : i \in DOMAIN changed}
<1>1. changed \in Seq(Changes \X Entities) BY DEF CommentsTyped, CommentTypeOK
<1>2. About(ref) \subseteq DOMAIN changed BY DEF About
<1>3. ListAudit(ref) \subseteq {changed[i] : i \in DOMAIN changed} BY <1>2 DEF ListAudit
<1>4. \A i \in DOMAIN changed : changed[i] \in Changes \X Entities BY <1>1
<1>5. ListAudit(ref) \subseteq Changes \X Entities BY <1>3, <1>4
<1> QED BY <1>3, <1>5 DEF ListCommentsByEntity, ListAttachmentsByEntity, Attached, Items

LEMMA ListEntityKeeps ==
  ASSUME CommentInv, NEW r \in Readers, ListEntity(r), FilesIdle
  PROVE  CommentInv'
<1>1. /\ UNCHANGED <<staged, comment, notes, events, logged, changed, removedBy, known, fpc, link>>
      /\ cpc[r] = "idle" /\ cpc' = [cpc EXCEPT ![r] = "ok"]
  BY DEF ListEntity, CommentGoTo, tables, FilesIdle, stores
<1>2. CommentsTyped BY DEF CommentInv
<1>3. PICK ref \in Reference, items \in SUBSET Items :
        carg' = [carg EXCEPT ![r].entity = ref, ![r].items = items]
  <2>1. PICK ref \in Reference :
          \E items \in {ListCommentsByEntity(ToLower(ref)), ListAttachmentsByEntity(ToLower(ref))} :
            carg' = [carg EXCEPT ![r].entity = ref, ![r].items = items]
    BY DEF ListEntity
  <2>2. ListCommentsByEntity(ToLower(ref)) \subseteq Items /\ ListAttachmentsByEntity(ToLower(ref)) \subseteq Items
    BY <1>2, ListsTyped
  <2> QED BY <2>1, <2>2
<1>4. /\ cpc \in [CommentCallers -> CommentLabels] /\ carg \in [Removers \cup Readers -> CommentArgs]
      /\ known \in [Readers -> KnownItems] /\ carg[r] \in CommentArgs /\ known[r] \in KnownItems
      /\ notes \subseteq NoteRow /\ ReaderOk(r) /\ r \in CommentCallers
  BY ReaderTyped
<1>5. PICK k : k = [carg[r] EXCEPT !.entity = ref, !.items = items] OBVIOUS
<1>6. k \in CommentArgs /\ k.exact = carg[r].exact /\ k.total = carg[r].total
  BY <1>3, <1>4, <1>5 DEF CommentArgs
<1>7. carg' = [carg EXCEPT ![r] = k] BY <1>3, <1>4, <1>5
<1>8. known' = [known EXCEPT ![r] = known[r]] BY <1>1, <1>4
<1>9. cpc'[r] = "ok" /\ carg'[r] = k BY <1>1, <1>4, <1>6, <1>7
<1>10. ~ carg[r].exact /\ carg[r].total = Void BY <1>1, <1>4 DEF ReaderOk, NoCommentArgs
<1>11. ReaderOk(r)' BY <1>6, <1>9, <1>10 DEF ReaderOk, CountOk
<1> QED BY <1>1, <1>4, <1>6, <1>7, <1>8, <1>11, ReaderMoves DEF ReaderLabels

LEMMA TimelineCommentsKeeps ==
  ASSUME CommentInv, LinkFixed, NEW r \in Readers, TimelineComments(r), FilesIdle
  PROVE  CommentInv'
<1>1. /\ UNCHANGED <<staged, comment, notes, events, logged, changed, removedBy, fpc, link>>
      /\ cpc[r] = "idle" /\ cpc' = [cpc EXCEPT ![r] = "logs"]
  BY DEF TimelineComments, CommentGoTo, tables, FilesIdle, stores
<1>2. CommentsTyped BY DEF CommentInv
<1>3. PICK ref \in Reference, failed \in BOOLEAN :
        /\ carg' = [carg EXCEPT ![r].entity = ref, ![r].exact = TRUE,
                     ![r].items = IF failed THEN {} ELSE ListCommentsByEntity(ref)]
        /\ known' = [known EXCEPT ![r].items = OnEntity(ref[1]), ![r].missed = failed]
  BY DEF TimelineComments
<1>4. /\ cpc \in [CommentCallers -> CommentLabels] /\ carg \in [Removers \cup Readers -> CommentArgs]
      /\ known \in [Readers -> KnownItems] /\ carg[r] \in CommentArgs /\ known[r] \in KnownItems
      /\ notes \subseteq NoteRow /\ ReaderOk(r) /\ r \in CommentCallers
  BY ReaderTyped
<1>5. PICK items \in SUBSET Items : items = IF failed THEN {} ELSE ListCommentsByEntity(ref)
  BY <1>2, ListsTyped
<1>6. PICK on : on = OnEntity(ref[1]) OBVIOUS
<1>7. on \in SUBSET Items
  BY <1>2, <1>6, ListsTyped DEF OnEntity, Attached, Items
<1>8. PICK k : k = [carg[r] EXCEPT !.entity = ref, !.exact = TRUE, !.items = items] OBVIOUS
<1>9. k \in CommentArgs /\ k.entity = ref /\ k.exact = TRUE /\ k.items = items /\ k.total = carg[r].total
  BY <1>4, <1>5, <1>8 DEF CommentArgs
<1>10. PICK q : q = [known[r] EXCEPT !.items = on, !.missed = failed] OBVIOUS
<1>11. q \in KnownItems /\ q.items = on /\ q.missed = failed BY <1>4, <1>7, <1>10 DEF KnownItems
<1>12. carg' = [carg EXCEPT ![r] = k] /\ known' = [known EXCEPT ![r] = q]
  BY <1>3, <1>4, <1>5, <1>6, <1>8, <1>10
<1>13. cpc'[r] = "logs" /\ carg'[r] = k /\ known'[r] = q BY <1>1, <1>4, <1>9, <1>11, <1>12
<1>14. carg[r].total = Void BY <1>1, <1>4 DEF ReaderOk, NoCommentArgs
<1>15. /\ \A c \in Comments \cap on : Live(c) /\ comment[c].entity[1] = ref[1]
       /\ \A a \in Links \cap on : link[a] \in LinkRow
       /\ \A x \in (Changes \X Entities) \cap on : \E i \in DOMAIN changed : changed[i] = x
  <2>1. ListAudit(<<ref[1], "lower">>) \subseteq Changes \X Entities
        /\ ListAudit(<<ref[1], "lower">>) \subseteq {changed[i] : i \in DOMAIN changed}
    BY <1>2, ListsTyped
  <2> QED BY <1>6, <2>1, ItemsDiffer DEF OnEntity, Attached
<1>16. \A a \in Links \cap on : fpc[a] = "ok" BY <1>15, VoidFacts DEF LinkFixed
<1>17. ref[2] = "lower" /\ ~ failed => on \cap Comments \subseteq items
  <2>1. SUFFICES ASSUME ref[2] = "lower", ~ failed, NEW c \in Comments \cap on
                 PROVE  c \in items
    OBVIOUS
  <2>2. Live(c) /\ comment[c].entity[1] = ref[1] BY <1>15
  <2>3. comment[c].entity \in Reference /\ comment[c].entity[2] = "lower"
    BY <2>2 DEF CommentInv, Posted, Live, CommentRow
  <2>4. comment[c].entity = ref BY <2>1, <2>2, <2>3 DEF Reference
  <2> QED BY <1>5, <2>1, <2>2, <2>4 DEF ListCommentsByEntity
<1>18. \A c \in Comments \cap items : comment[c] # Void BY <1>5 DEF ListCommentsByEntity, Live
<1>19. TimelineSoFar(r)'
  BY <1>1, <1>9, <1>11, <1>13, <1>15, <1>16, <1>17, <1>18 DEF TimelineSoFar
<1>20. ReaderOk(r)' BY <1>9, <1>13, <1>14, <1>19 DEF ReaderOk, CountOk
<1> QED BY <1>1, <1>9, <1>11, <1>12, <1>20, ReaderMoves DEF ReaderLabels

\* The second and the third source of a timeline.
LEMMA TimelineAddKeeps ==
  ASSUME CommentInv, NEW r \in Readers, NEW items \in SUBSET Items, NEW next \in {"files", "ok"},
         TimelineAdd(r, items, next), FilesIdle,
         items \cap Comments = {},
         \/ cpc[r] = "logs" /\ next = "files" /\ items = ListAudit(carg[r].entity)
         \/ cpc[r] = "files" /\ next = "ok" /\ items = ListAttachmentsByEntity(carg[r].entity)
  PROVE  CommentInv'
<1>1. /\ UNCHANGED <<staged, comment, notes, events, logged, changed, removedBy, fpc, link>>
      /\ cpc' = [cpc EXCEPT ![r] = next]
  BY DEF TimelineAdd, CommentGoTo, tables, FilesIdle, stores
<1>2. /\ cpc \in [CommentCallers -> CommentLabels] /\ carg \in [Removers \cup Readers -> CommentArgs]
      /\ known \in [Readers -> KnownItems] /\ carg[r] \in CommentArgs /\ known[r] \in KnownItems
      /\ notes \subseteq NoteRow /\ ReaderOk(r) /\ r \in CommentCallers
  BY ReaderTyped
<1>3. carg[r].exact /\ carg[r].total = Void /\ TimelineSoFar(r) BY <1>2 DEF ReaderOk, CountOk
<1>4. cpc'[r] = next BY <1>1, <1>2
<1>5. ASSUME NEW ref, ref = carg[r].entity
      PROVE  /\ ListAudit(ref)' = ListAudit(ref)
             /\ ListAttachmentsByEntity(ref)' = ListAttachmentsByEntity(ref)
  BY <1>1 DEF ListAudit, About, ListAttachmentsByEntity, Attached
<1>6. CASE known' = known /\ carg' = [carg EXCEPT ![r].items = @ \cup items]
  <2>1. PICK k : k = [carg[r] EXCEPT !.items = carg[r].items \cup items] OBVIOUS
  <2>2. carg[r].items \cup items \in SUBSET Items BY <1>2 DEF CommentArgs
  <2>3. /\ k \in CommentArgs /\ k.entity = carg[r].entity /\ k.exact = carg[r].exact
        /\ k.items = carg[r].items \cup items /\ k.total = carg[r].total
    BY <1>2, <2>1, <2>2 DEF CommentArgs
  <2>4. carg' = [carg EXCEPT ![r] = k] /\ known' = [known EXCEPT ![r] = known[r]]
    BY <1>2, <1>6, <2>1
  <2>5. carg'[r] = k /\ known'[r] = known[r] BY <1>2, <1>6, <2>3, <2>4
  <2>6. PICK ref : ref = carg[r].entity OBVIOUS
  <2>7. /\ ListAudit(carg[r].entity)' = ListAudit(carg[r].entity)
        /\ ListAttachmentsByEntity(carg[r].entity)' = ListAttachmentsByEntity(carg[r].entity)
    BY <1>5, <2>3, <2>5, <2>6
  <2>8. TimelineSoFar(r)'
    <3>1. /\ carg'[r].entity \in Reference
          /\ \A c \in Comments \cap carg'[r].items : comment'[c] # Void
          /\ \A a \in Links \cap known'[r].items : fpc'[a] = "ok"
          /\ \A x \in (Changes \X Entities) \cap known'[r].items : \E i \in DOMAIN changed' : changed'[i] = x
      BY <1>1, <1>3, <2>3, <2>5 DEF TimelineSoFar
    <3>2. ASSUME carg'[r].entity[2] = "lower", ~ known'[r].missed
          PROVE  /\ known'[r].items \cap Comments \subseteq carg'[r].items
                 /\ cpc'[r] \in {"files", "ok"} =>
                      (known'[r].items \cap (Changes \X Entities)) \cap ListAudit(carg[r].entity)'
                        \subseteq carg'[r].items
                 /\ cpc'[r] = "ok" =>
                      known'[r].items \cap ListAttachmentsByEntity(carg[r].entity)' \subseteq carg'[r].items
      BY <1>3, <1>4, <2>3, <2>5, <2>7, <3>2 DEF TimelineSoFar
    <3> QED BY <3>1, <3>2 DEF TimelineSoFar
  <2>9. ReaderOk(r)' BY <1>3, <1>4, <2>3, <2>5, <2>8 DEF ReaderOk, CountOk
  <2> QED BY <1>1, <1>2, <2>3, <2>4, <2>9, ReaderMoves DEF ReaderLabels
<1>7. CASE known' = [known EXCEPT ![r].missed = TRUE] /\ UNCHANGED carg
  <2>1. PICK q : q = [known[r] EXCEPT !.missed = TRUE] OBVIOUS
  <2>2. q \in KnownItems /\ q.items = known[r].items /\ q.missed = TRUE BY <1>2, <2>1 DEF KnownItems
  <2>3. known' = [known EXCEPT ![r] = q] /\ carg' = [carg EXCEPT ![r] = carg[r]]
    BY <1>2, <1>7, <2>1
  <2>4. known'[r] = q BY <1>2, <2>2, <2>3
  <2>5. TimelineSoFar(r)' BY <1>1, <1>3, <1>7, <2>2, <2>4 DEF TimelineSoFar
  <2>6. ReaderOk(r)' BY <1>3, <1>4, <1>7, <2>5 DEF ReaderOk, CountOk
  <2> QED BY <1>1, <1>2, <2>2, <2>3, <2>6, ReaderMoves DEF ReaderLabels
<1> QED BY <1>6, <1>7 DEF TimelineAdd

LEMMA TimelineLogsKeeps ==
  ASSUME CommentInv, NEW r \in Readers, TimelineLogs(r) \/ TimelineFiles(r), FilesIdle
  PROVE  CommentInv'
<1>1. CommentsTyped BY DEF CommentInv
<1>2. CASE TimelineLogs(r)
  <2>1. PICK items : items = ListAudit(carg[r].entity) OBVIOUS
  <2>2. items \in SUBSET Items /\ items \cap Comments = {}
    BY <1>1, <2>1, ListsTyped, ItemsDiffer
  <2>3. cpc[r] = "logs" /\ TimelineAdd(r, items, "files") BY <1>2, <2>1 DEF TimelineLogs
  <2> QED BY <2>1, <2>2, <2>3, TimelineAddKeeps
<1>3. CASE TimelineFiles(r)
  <2>1. PICK items : items = ListAttachmentsByEntity(carg[r].entity) OBVIOUS
  <2>2. items \in SUBSET Items /\ items \cap Comments = {}
    BY <1>1, <2>1, ListsTyped, ItemsDiffer
  <2>3. cpc[r] = "files" /\ TimelineAdd(r, items, "ok") BY <1>3, <2>1 DEF TimelineFiles
  <2> QED BY <2>1, <2>2, <2>3, TimelineAddKeeps
<1> QED BY <1>2, <1>3

\* A further audit entry pushes entries out of the window, and lets none back in.
LEMMA WindowMoves ==
  ASSUME NEW ref, NEW x, NEW e \in Entities, changed \in Seq(Changes \X Entities), x \in Changes,
         \A i \in DOMAIN changed : changed[i][1] # x, changed' = Append(changed, <<x, e>>),
         NEW i \in DOMAIN changed, NEW y, changed[i] = y, y \in ListAudit(ref)'
  PROVE  y \in ListAudit(ref)
<1>1. Len(changed) \in Nat /\ DOMAIN changed = 1..Len(changed) OBVIOUS
<1>2. /\ DOMAIN changed' = 1..(Len(changed) + 1) /\ changed'[Len(changed) + 1] = <<x, e>>
      /\ \A j \in DOMAIN changed : changed'[j] = changed[j]
  BY <1>1
<1>3. PICK n \in About(ref)' : y = changed'[n] /\ Cardinality({m \in About(ref)' : m > n}) < AuditLimit
  BY DEF ListAudit
<1>4. n \in 1..(Len(changed) + 1) BY <1>2, <1>3 DEF About
<1>5. n # Len(changed) + 1
  <2>1. y[1] # x OBVIOUS
  <2> QED BY <1>2, <1>3, <2>1
<1>6. n \in DOMAIN changed BY <1>1, <1>4, <1>5
<1>7. n \in About(ref) /\ changed[n] = y BY <1>2, <1>3, <1>6 DEF About
<1>8. About(ref) \subseteq About(ref)' BY <1>1, <1>2 DEF About
<1>9. PICK W : W = {m \in About(ref)' : m > n} OBVIOUS
<1>10. PICK V : V = {m \in About(ref) : m > n} OBVIOUS
<1>11. V \subseteq W BY <1>8, <1>9, <1>10
<1>12. IsFiniteSet(1..(Len(changed) + 1)) BY <1>1, FS_Interval
<1>13. W \subseteq 1..(Len(changed) + 1) BY <1>2, <1>9 DEF About
<1>14. IsFiniteSet(W) BY <1>12, <1>13, FS_Subset
<1>15. IsFiniteSet(V) /\ Cardinality(V) <= Cardinality(W) BY <1>11, <1>14, FS_Subset
<1>16. Cardinality(V) \in Nat /\ Cardinality(W) \in Nat BY <1>14, <1>15, FS_CardinalityType
<1>17. Cardinality(V) < AuditLimit BY <1>3, <1>9, <1>15, <1>16, PagesAreSome
<1> QED BY <1>7, <1>10, <1>17 DEF ListAudit

LEMMA LogChangeKeeps ==
  ASSUME CommentInv, NEW x \in Changes, LogChange(x), FilesIdle
  PROVE  CommentInv'
<1>1. UNCHANGED <<cpc, carg, staged, comment, notes, events, logged, removedBy, known, fpc, link>>
  BY DEF LogChange, FilesIdle, stores
<1>2. PICK e \in Entities : changed' = Append(changed, <<x, e>>) BY DEF LogChange
<1>3. \A i \in DOMAIN changed : changed[i][1] # x BY DEF LogChange
<1>4. CommentsTyped /\ changed \in Seq(Changes \X Entities) BY DEF CommentInv, CommentsTyped, CommentTypeOK
<1>5. changed' \in Seq(Changes \X Entities) BY <1>2, <1>4
<1>6. CommentsTyped' BY <1>1, <1>4, <1>5 DEF CommentsTyped, CommentTypeOK
<1>7. \A c \in Comments : Posted(c)' BY <1>1, WriterRests DEF CommentInv
<1>8. NotesDiffer' /\ ParentKept' BY <1>1 DEF CommentInv, NotesDiffer, ParentKept, Live
<1>9. AnswersHaveParents' /\ DeletedByAuthors' /\ RemoversEnded' BY <1>1, <1>4, ThreadsRest DEF CommentInv
<1>10. \A d \in Removers : RemoverOk(d)' BY <1>1, RemoverRests DEF CommentInv
<1>11. \A r \in Readers : ReaderOk(r)'
  <2>1. SUFFICES ASSUME NEW r \in Readers PROVE ReaderOk(r)' OBVIOUS
  <2>2. ReaderOk(r) BY DEF CommentInv
  <2>3. CountOk(r)' BY <1>1, <2>2 DEF ReaderOk, CountOk, Unread, NotesOf
  <2>4. ASSUME TimelineSoFar(r) PROVE TimelineSoFar(r)'
    <3>1. \A i \in DOMAIN changed : i \in DOMAIN changed' /\ changed'[i] = changed[i] BY <1>2, <1>4
    <3>2. PICK ref : ref = carg[r].entity OBVIOUS
    <3>3. ASSUME NEW y \in (known[r].items \cap (Changes \X Entities)) \cap ListAudit(ref)'
          PROVE  y \in ListAudit(ref)
      <4>1. PICK i \in DOMAIN changed : changed[i] = y BY <2>4 DEF TimelineSoFar
      <4> QED BY <1>2, <1>3, <1>4, <4>1, WindowMoves
    <3>4. ListAudit(carg[r].entity)' = ListAudit(ref)' BY <1>1, <3>2 DEF ListAudit, About
    <3>5. ListAttachmentsByEntity(carg[r].entity)' = ListAttachmentsByEntity(carg[r].entity)
      BY <1>1 DEF ListAttachmentsByEntity, Attached
    <3>6. (known'[r].items \cap (Changes \X Entities)) \cap ListAudit(carg[r].entity)'
            \subseteq (known[r].items \cap (Changes \X Entities)) \cap ListAudit(carg[r].entity)
      BY <1>1, <3>2, <3>3, <3>4
    <3> QED BY <1>1, <2>4, <3>1, <3>5, <3>6 DEF TimelineSoFar
  <2> QED BY <1>1, <2>2, <2>3, <2>4 DEF ReaderOk
<1> QED BY <1>6, <1>7, <1>8, <1>9, <1>10, <1>11 DEF CommentInv

\* Steps of files: an attachment the reader knew of is not attached anew.
LEMMA FilesStepKeeps ==
  ASSUME CommentInv, UNCHANGED commentVars,
         \A a \in Links : fpc[a] = "ok" => fpc'[a] = "ok" /\ (link'[a] = link[a] \/ link'[a] = Void)
  PROVE  CommentInv'
<1>1. UNCHANGED <<cpc, carg, staged, comment, notes, events, logged, changed, removedBy, known>>
  BY DEF commentVars, tables
<1>2. CommentsTyped BY DEF CommentInv
<1>3. CommentsTyped' BY <1>1, <1>2 DEF CommentsTyped, CommentTypeOK
<1>4. \A c \in Comments : Posted(c)' BY <1>1, WriterRests DEF CommentInv
<1>5. NotesDiffer' /\ ParentKept' BY <1>1 DEF CommentInv, NotesDiffer, ParentKept, Live
<1>6. AnswersHaveParents' /\ DeletedByAuthors' /\ RemoversEnded' BY <1>1, <1>2, ThreadsRest DEF CommentInv
<1>7. \A d \in Removers : RemoverOk(d)' BY <1>1, RemoverRests DEF CommentInv
<1>8. \A r \in Readers : ReaderOk(r)'
  <2>1. SUFFICES ASSUME NEW r \in Readers PROVE ReaderOk(r)' OBVIOUS
  <2>2. ReaderOk(r) BY DEF CommentInv
  <2>3. CountOk(r)' BY <1>1, <2>2 DEF ReaderOk, CountOk, Unread, NotesOf
  <2>4. ASSUME TimelineSoFar(r) PROVE TimelineSoFar(r)'
    <3>1. ListAudit(carg[r].entity)' = ListAudit(carg[r].entity) BY <1>1 DEF ListAudit, About
    <3>2. \A a \in Links \cap known[r].items : fpc[a] = "ok" BY <2>4 DEF TimelineSoFar
    <3>3. known'[r].items \cap ListAttachmentsByEntity(carg[r].entity)'
            \subseteq known[r].items \cap ListAttachmentsByEntity(carg[r].entity)
      BY <1>1, <3>2, VoidFacts DEF ListAttachmentsByEntity, Attached
    <3> QED BY <1>1, <2>4, <3>1, <3>2, <3>3 DEF TimelineSoFar
  <2> QED BY <1>1, <2>2, <2>3, <2>4 DEF ReaderOk
<1> QED BY <1>3, <1>4, <1>5, <1>6, <1>7, <1>8 DEF CommentInv

RecordsInv == AttachInv /\ LinkFixed /\ CommentInv

LEMMA RecordsNextInv ==
  ASSUME RecordsInv, [RecordsNext]_<<attachVars, commentVars>>
  PROVE  RecordsInv'
<1>1. AttachInv /\ LinkFixed /\ CommentInv BY DEF RecordsInv
<1>2. AttachInv' BY <1>1, AttachNextInv
<1>3. CASE UNCHANGED <<attachVars, commentVars>>
  <2>1. UNCHANGED <<fpc, farg, link>> /\ UNCHANGED commentVars BY <1>3 DEF attachVars, stores
  <2>2. LinkFixed' BY <1>1, <2>1 DEF LinkFixed
  <2>3. CommentInv' BY <1>1, <2>1, FilesStepKeeps
  <2> QED BY <1>2, <2>2, <2>3 DEF RecordsInv
<1>4. CASE AttachNext /\ UNCHANGED commentVars
  <2>1. LinkFixed' /\ CommentInv' BY <1>1, <1>4, LinkSteps, FilesStepKeeps
  <2> QED BY <1>2, <2>1 DEF RecordsInv
<1>5. CASE CommentNext /\ FilesIdle
  <2>1. UNCHANGED <<fpc, farg, link>> BY <1>5 DEF FilesIdle, stores
  <2>2. LinkFixed' BY <1>1, <2>1 DEF LinkFixed
  <2> SUFFICES CommentInv' BY <1>2, <2>2 DEF RecordsInv
  <2>3. CASE FaultyStep
    BY <1>1, <1>5, <2>3, WriteOutboxKeeps, TimelineCommentsKeeps, TimelineLogsKeeps, CommentCrashKeeps
    DEF FaultyStep
  <2>4. CASE \E c \in Comments : CommentStep(c)
    BY <1>1, <1>5, <2>4, CreateCommentKeeps, InsertCommentKeeps, NotifyMentionedKeeps, CommitCommentKeeps
    DEF CommentStep
  <2>5. CASE \E d \in Removers : CheckAuthor(d) \/ DeleteComment(d)
    BY <1>1, <1>5, <2>5, CheckAuthorKeeps, DeleteCommentKeeps
  <2>6. CASE \E r \in Readers : ReaderStep(r)
    BY <1>1, <1>5, <2>6, MarkNotificationReadKeeps, ListNotificationsKeeps, CountNotificationsKeeps,
       ListEntityKeeps
    DEF ReaderStep
  <2>7. CASE \E x \in Changes : LogChange(x) BY <1>1, <1>5, <2>7, LogChangeKeeps
  <2> QED BY <1>5, <2>3, <2>4, <2>5, <2>6, <2>7 DEF CommentNext
<1> QED BY <1>3, <1>4, <1>5 DEF RecordsNext

\* Files, comments, deletions and readers together keep their invariant: it says for every
\* place of an open CreateComment what its transaction holds, that an answer being written
\* keeps its parent, and how much of its answer a reader already has.
THEOREM RecordsInvariance == RecordsSpec => []RecordsInv
<1>1. AttachInit /\ CommentInit => RecordsInv BY AttachInitInv, CommentInitInv DEF RecordsInv
<1>2. RecordsInv /\ [RecordsNext]_<<attachVars, commentVars>> => RecordsInv' BY RecordsNextInv
<1> QED BY <1>1, <1>2, PTL DEF RecordsSpec

LEMMA PostedTogetherHolds ==
  ASSUME CommentInv
  PROVE  PostedTogether
<1>1. SUFFICES ASSUME NEW c \in Comments
               PROVE  LET mine == {n \in notes : n.comment = c} IN
                      IF comment[c] = Void
                        THEN mine = {} /\ c \notin events \cup logged
                        ELSE /\ c \in events /\ c \in logged
                             /\ {n.user : n \in mine} = comment[c].mentions \ {comment[c].author}
                             /\ Cardinality(mine) = Cardinality({n.user : n \in mine})
  BY DEF PostedTogether
<1>2. Posted(c) BY DEF CommentInv
<1>3. PICK mine : mine = {n \in notes : n.comment = c} OBVIOUS
<1>4. PICK users : users = {n.user : n \in mine} OBVIOUS
<1>5. CASE comment[c] = Void
  <2>1. cpc[c] # "ok" BY <1>2, <1>5, CommentCallersDiffer DEF Posted
  <2> QED BY <1>2, <1>5, <2>1 DEF Posted
<1>6. CASE comment[c] # Void
  <2>1. cpc[c] = "ok" BY <1>2, <1>6 DEF Posted
  <2>2. /\ c \in events /\ c \in logged /\ comment[c] \in CommentRow
        /\ users = comment[c].mentions \ {comment[c].author}
    BY <1>2, <1>3, <1>4, <2>1 DEF Posted, NotifiedOf
  <2>3. users \in SUBSET People BY <2>2 DEF CommentRow
  <2>4. IsFiniteSet(users) BY <2>3, PeopleFinite, FS_Subset DEF People
  <2>5. PICK f : f = [n \in mine |-> n.user] OBVIOUS
  <2>6. f \in [mine -> users] /\ \A n \in mine : f[n] = n.user BY <1>4, <2>5
  <2>7. \A n, m \in mine : f[n] = f[m] => n = m BY <1>3, <2>6 DEF CommentInv, NotesDiffer
  <2>8. f \in Injection(mine, users) BY <2>6, <2>7 DEF Injection, IsInjective
  <2>9. f \in Surjection(mine, users) BY <1>4, <2>6 DEF Surjection
  <2>10. Cardinality(mine) = Cardinality(users) BY <2>4, <2>8, <2>9, FS_Injection
  <2> QED BY <1>3, <1>4, <1>6, <2>2, <2>10
<1> QED BY <1>5, <1>6

LEMMA AnswersAreTrueHolds ==
  ASSUME LinkFixed, CommentInv
  PROVE  AnswersAreTrue
<1>1. PageAgreesWithTotal BY DEF CommentInv, ReaderOk, CountOk, PageAgreesWithTotal
<1>2. TimelineIsTrue
  <2>1. SUFFICES ASSUME NEW r \in Readers, cpc[r] = "ok", carg[r].exact
                 PROVE  /\ carg[r].entity[2] = "lower" /\ ~ known[r].missed
                             => known[r].items \cap OnEntity(carg[r].entity[1]) \subseteq carg[r].items
                        /\ \A c \in Comments \cap carg[r].items : comment[c] # Void
    BY DEF TimelineIsTrue
  <2>2. TimelineSoFar(r) /\ CommentsTyped BY <2>1 DEF CommentInv, ReaderOk
  <2>3. PICK ref \in Reference : ref = carg[r].entity BY <2>2 DEF TimelineSoFar
  <2>4. ASSUME ref[2] = "lower", ~ known[r].missed, NEW x \in known[r].items, x \in OnEntity(ref[1])
        PROVE  x \in carg[r].items
    <3>1. CASE x \in Comments BY <2>2, <2>3, <2>4, <3>1 DEF TimelineSoFar
    <3>2. CASE x \in Attached /\ link[x].entity[1] = ref[1]
      <4>1. x \in Links /\ link[x] \in LinkRow /\ link[x] # Void BY <3>2, VoidFacts DEF Attached
      <4>2. link[x].entity \in Reference /\ link[x].entity[2] = "lower"
        BY <4>1 DEF LinkFixed, LinkRow
      <4>3. link[x].entity = ref BY <2>4, <3>2, <4>2 DEF Reference
      <4>4. x \in ListAttachmentsByEntity(ref) BY <3>2, <4>3 DEF ListAttachmentsByEntity
      <4> QED BY <2>1, <2>2, <2>3, <2>4, <4>4 DEF TimelineSoFar
    <3>3. CASE x \in ListAudit(<<ref[1], "lower">>)
      <4>1. <<ref[1], "lower">> = ref BY <2>4 DEF Reference
      <4>2. x \in ListAudit(ref) BY <3>3, <4>1
      <4>3. x \in Changes \X Entities BY <2>2, <4>2, ListsTyped
      <4> QED BY <2>1, <2>2, <2>3, <2>4, <4>2, <4>3 DEF TimelineSoFar
    <3> QED BY <2>4, <3>1, <3>2, <3>3 DEF OnEntity
  <2> QED BY <2>2, <2>3, <2>4 DEF TimelineSoFar
<1> QED BY <1>1, <1>2 DEF AnswersAreTrue

\* A comment, its event, its audit entry and one notification for each user it mentions are
\* there together or not at all: CreateComment writes them in one transaction that a fault, a
\* mention of nobody or a crash may end at each of its steps.
THEOREM AlwaysPostedTogether == RecordsSpec => []PostedTogether
<1>1. RecordsInv => PostedTogether BY PostedTogetherHolds DEF RecordsInv
<1> QED BY <1>1, RecordsInvariance, PTL

\* A live answer has a live parent although DeleteComment takes whole threads away while
\* answers are written, and a comment was deleted by its author, by the author of one above
\* it, or by a caller without claims (nobody else, administrators included).
THEOREM ThreadsAlwaysSound == RecordsSpec => []ThreadsSound
<1>1. RecordsInv => ThreadsSound BY DEF RecordsInv, CommentInv, ThreadsSound
<1> QED BY <1>1, RecordsInvariance, PTL

\* The page of ListNotifications, whatever its limit and offset, fits the total unless somebody
\* wrote between the two queries: a page of unread notifications has as many as the total
\* leaves it, a page of all of them shows no unread one too many.  And a timeline has everything that was there from its start to now unless the error
\* of one of its three sources was swallowed.
THEOREM AnswersAlwaysTrue == RecordsSpec => []AnswersAreTrue
<1>1. RecordsInv => AnswersAreTrue BY AnswersAreTrueHolds DEF RecordsInv
<1> QED BY <1>1, RecordsInvariance, PTL

\* The tables of files, attachments, comments and notifications keep their types, and an
\* attachment refers to a file that is there although DeleteFile looks at no reference.
THEOREM RecordsSchemaAlways == RecordsSpec => []RecordsSchema
<1>1. RecordsInv => RecordsSchema
  BY StoresAgreeHolds DEF RecordsInv, RecordsSchema, AttachInv, FilesTyped, CommentInv, CommentsTyped
<1> QED BY <1>1, RecordsInvariance, PTL

=============================================================================
