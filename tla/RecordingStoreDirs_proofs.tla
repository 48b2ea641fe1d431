----------------------- MODULE RecordingStoreDirs_proofs -----------------------
(***************************************************************************)
(* What the directory of a filename holds, for the filenames no two        *)
(* processes have worked on at the same time (`race`):                     *)
(*                                                                         *)
(*   CompletedPlays         Spec => []Playable                             *)
(*   StatsOfTheRecording    Spec => []StatsMatch                           *)
(*   NoGarbage              Spec => []NoOrphanDir                          *)
(*                                                                         *)
(* and, from all of this, the refinement of RecordingLife:                 *)
(*                                                                         *)
(*   StoreIsRecordingLife   Spec => IsRecordingLife                        *)
(***************************************************************************)
EXTENDS RecordingStore_proofs

\* How far a conversion of a live row has come, and what of it is on the disk.
Progressing(t) ==
    LET u == task[t].u
        c == task[t].got
        d == dir[fileOf[u]]
        pc == task[t].pc
    IN  /\ pc = "bucket" => task[t].src = json[fileOf[u]] /\ d = NewDir
        /\ pc \in {"assemble", "manifest", "stats", "format", "complete"} => c \in Sources(u)
        /\ pc = "assemble" => d.bucket = {<<t, c>>} /\ d.chunks = {}
        /\ pc \in {"manifest", "stats", "format", "complete"} => d.chunks = {[of |-> c, ok |-> TRUE]}
        /\ pc \in {"stats", "format", "complete"} => d.manifest = c
        /\ pc = "complete" => format[u] = "protobuf"

ConvAt(f) == \A t \in Tasks : TaskAt(t, f) /\ Live(task[t].u) => Progressing(t)

\* A row is json until a conversion has made its directory; its upload drops the
\* directory of the row it replaced before the row can be completed.
StoredAt(f) ==
    \A u \in Uploads :
        fileOf[u] = f =>
            /\ up[u] \in {"stored", "dropped"} => format[u] = "json"
            /\ up[u] = "dropped" => dir[f].manifest = None

FinishedAt(f) ==
    \A u \in Uploads :
        fileOf[u] = f /\ status[u] = "completed" =>
            IF format[u] = "json" THEN dir[f].manifest = None ELSE PlaysProtobuf(u)

DirAt(f) == ConvAt(f) /\ StoredAt(f) /\ FinishedAt(f)

DirsInv == \A f \in Files \ race : DirAt(f)

DirsKnown == SourcesKnown /\ DirsInv

LEMMA DirsInit == Init => DirsInv
  BY DEF Init, DirsInv, DirAt, ConvAt, StoredAt, FinishedAt, TaskAt, NoTask

\* A step that leaves the directory of f, what its rows may play, and the
\* conversions past their beginning; it completes and stores nothing.
Untouched(f) ==
    /\ dir'[f] = dir[f]
    /\ \A t \in Tasks :
        TaskAt(t, f)' =>
            \/ task'[t].pc \in {"mark", "open", "fail"}
            \/ task'[t] = task[t] /\ json'[f] = json[f]
    /\ \A u \in Uploads :
        fileOf[u] = f =>
            /\ rowId'[u] = rowId[u]
            /\ Live(u)' => Live(u) /\ format'[u] = format[u]
            /\ status'[u] = "completed" => status[u] = "completed"
            /\ up'[u] \in {"stored", "dropped"} => up'[u] = up[u] /\ format'[u] \in {format[u], "json"}

\* The uploads of one filename decide what its rows may play.
LEMMA SourcesOf ==
  ASSUME NEW u \in Uploads,
         \A v \in Uploads : fileOf[v] = fileOf[u] => rowId'[v] = rowId[v]
  PROVE  Sources(u)' = Sources(u)
  BY DEF Sources

LEMMA DirUntouched ==
  ASSUME TypeOK, TypeOK', NEW f \in Files, DirAt(f), Untouched(f)
  PROVE  DirAt(f)'
  <1> USE StoreAssumption
  <1>1. \A u \in Uploads : fileOf[u] = f => Sources(u)' = Sources(u)
    BY SourcesOf DEF Untouched
  <1>2. ConvAt(f)'
    <2> SUFFICES ASSUME NEW t \in Tasks, TaskAt(t, f)', Live(task[t].u)' PROVE Progressing(t)'
      BY DEF ConvAt
    <2>1. CASE task'[t].pc \in {"mark", "open", "fail"}
      BY <2>1 DEF Progressing
    <2>2. CASE task'[t] = task[t] /\ json'[f] = json[f]
      <3>1. task[t].u \in Uploads /\ TaskAt(t, f) /\ fileOf[task[t].u] = f
        BY <2>2 DEF TaskAt, TypeOK
      <3>2. Live(task[t].u) /\ format'[task[t].u] = format[task[t].u]
        BY <2>2, <3>1 DEF Untouched
      <3>3. Progressing(t)
        BY <3>1, <3>2 DEF DirAt, ConvAt
      <3>4. Sources(task[t].u)' = Sources(task[t].u)
        BY <1>1, <2>2, <3>1
      <3> QED
        BY <2>2, <3>1, <3>2, <3>3, <3>4 DEF Progressing, Untouched
    <2> QED
      BY <2>1, <2>2 DEF Untouched
  <1>3. StoredAt(f)'
    BY DEF DirAt, StoredAt, Untouched
  <1>4. FinishedAt(f)'
    <2> SUFFICES ASSUME NEW u \in Uploads, fileOf[u] = f, status'[u] = "completed"
                 PROVE  IF format'[u] = "json" THEN dir'[f].manifest = None ELSE PlaysProtobuf(u)'
      BY DEF FinishedAt
    <2>1. status[u] = "completed" /\ format'[u] = format[u] /\ dir'[f] = dir[f]
      BY DEF Untouched, Live
    <2>2. IF format[u] = "json" THEN dir[f].manifest = None ELSE PlaysProtobuf(u)
      BY <2>1 DEF DirAt, FinishedAt
    <2> QED
      BY <1>1, <2>1, <2>2 DEF PlaysProtobuf
  <1> QED
    BY <1>2, <1>3, <1>4 DEF DirAt

\* Where nothing converts, no upload is past its store and no row is completed.
LEMMA DirVacant ==
  ASSUME NEW f, \A t \in Tasks : ~TaskAt(t, f)', NoneCompleted(f)',
         \A u \in Uploads : fileOf[u] = f => up'[u] \notin {"stored", "dropped"}
  PROVE  DirAt(f)'
  BY DEF DirAt, ConvAt, StoredAt, FinishedAt, NoneCompleted

\* An update by id neither removes a row nor brings one back.
LEMMA StatusSet ==
  ASSUME TypeOK, NEW u \in Uploads, NEW s \in Statuses, status' = SetStatus(u, s)
  PROVE  /\ \A v \in Uploads : v # u => status'[v] = status[v]
         /\ \A v \in Uploads : Live(v)' <=> Live(v)
         /\ status'[u] = "completed" => s = "completed"
  BY DEF SetStatus, TypeOK, Live, Statuses

\* Uploads.
LEMMA DirUpload ==
  ASSUME SourcesKnown, TypeOK', DirsInv, NEW w \in Uploads,
         UploadCreate(w) \/ UploadStep(w) \/ UploadAbort(w) \/ UploadStoreFails(w),
         NEW f \in Files \ race'
  PROVE  DirAt(f)'
  <1> USE StoreAssumption DEF SourcesKnown, RowsKnown, Types
  <1>0. f \notin race => DirAt(f)
    BY DEF DirsInv
  <1>1. CASE UploadCreate(w) \/ UploadWrite(w) \/ UploadAbort(w) \/ UploadStoreFails(w)
    <2>1. /\ UNCHANGED <<dir, json, task, status, format, rowId>> /\ race \subseteq race'
          /\ \E p \in {"created", "half", "written", "done"} : up' = [up EXCEPT ![w] = p]
      <3>1. CASE UploadCreate(w) \/ UploadWrite(w)
        BY <3>1 DEF UploadCreate, UploadWrite, rowVars, history
      <3>2. CASE UploadAbort(w) \/ UploadStoreFails(w)
        BY <3>2 DEF UploadAbort, UploadStoreFails, rowVars, fileVars, history
      <3> QED
        BY <1>1, <3>1, <3>2
    <2>2. \A u \in Uploads : up'[u] \in {"stored", "dropped"} => up'[u] = up[u]
      BY <2>1 DEF TypeOK
    <2>3. Untouched(f)
      BY <2>1, <2>2 DEF Untouched, Live
    <2> QED
      BY <1>0, <2>1, <2>3, DirUntouched
  <1>2. CASE UploadRename(w)
    <2>1. /\ UNCHANGED <<dir, task, status, format, rowId, race>> /\ up[w] = "written"
          /\ \A u \in Uploads : up'[u] \in {"stored", "dropped"} => up'[u] = up[u]
          /\ f # fileOf[w] => json'[f] = json[f]
      BY <1>2 DEF UploadRename, rowVars, history, TypeOK
    <2>2. \A t \in Tasks : TaskAt(t, f)' => task'[t] = task[t] /\ json'[f] = json[f]
      <3>1. f = fileOf[w] => UploadAt(w, f)
        BY <2>1 DEF UploadAt, Uploading
      <3>2. f = fileOf[w] => \A t \in Tasks : ~TaskAt(t, f)
        BY <2>1, <3>1 DEF Alone, AloneAt
      <3> QED
        BY <2>1, <3>2 DEF TaskAt
    <2>3. Untouched(f)
      BY <2>1, <2>2 DEF Untouched, Live
    <2> QED
      BY <1>0, <2>1, <2>3, DirUntouched
  <1>3. CASE UploadStore(w)
    <2>1. /\ UNCHANGED <<dir, json, task, race>> /\ up[w] = "renamed"
          /\ \A u \in Uploads : up'[u] = IF u = w THEN "stored" ELSE up[u]
      BY <1>3 DEF UploadStore, fileVars, history, TypeOK
    <2>2. CASE f = fileOf[w]
      <3>1. UploadAt(w, f)
        BY <2>1, <2>2 DEF UploadAt, Uploading
      <3>2. \A t \in Tasks : ~TaskAt(t, f)'
        BY <2>1, <3>1 DEF Alone, AloneAt, TaskAt
      <3>3. \A u \in Uploads : fileOf[u] = f => status'[u] # "completed"
        BY <1>3, <2>2 DEF UploadStore, Live
      <3>4. \A u \in Uploads : fileOf[u] = f /\ up'[u] \in {"stored", "dropped"} => u = w
        BY <2>1, <3>1 DEF Alone, AloneAt, UploadAt, Uploading
      <3>5. format'[w] = "json" /\ up'[w] = "stored"
        BY <1>3, <2>1 DEF UploadStore
      <3> QED
        BY <3>2, <3>3, <3>4, <3>5 DEF DirAt, ConvAt, StoredAt, FinishedAt
    <2>3. CASE f # fileOf[w]
      <3>1. \A u \in Uploads : fileOf[u] = f =>
                rowId'[u] = rowId[u] /\ status'[u] = status[u] /\ format'[u] = format[u]
        BY <1>3, <2>3 DEF UploadStore, TypeOK
      <3>2. Untouched(f)
        BY <2>1, <2>3, <3>1 DEF Untouched, Live
      <3> QED
        BY <1>0, <2>1, <3>2, DirUntouched
    <2> QED
      BY <2>2, <2>3
  <1>4. CASE UploadDropDir(w)
    <2>1. /\ UNCHANGED <<json, task, race, status, format, rowId>> /\ up[w] = "stored"
          /\ \A u \in Uploads : up'[u] = IF u = w THEN "dropped" ELSE up[u]
          /\ \A g \in Files : dir'[g] = IF g = fileOf[w] THEN NoDir ELSE dir[g]
      BY <1>4 DEF UploadDropDir, rowVars, history, TypeOK
    <2>2. CASE f = fileOf[w]
      <3>1. UploadAt(w, f) /\ Claimed(f)
        BY <2>1, <2>2 DEF UploadAt, Uploading, Claimed
      <3>2. \A t \in Tasks : ~TaskAt(t, f)'
        BY <2>1, <3>1 DEF Alone, AloneAt, TaskAt
      <3>3. \A u \in Uploads : fileOf[u] = f => status'[u] # "completed"
        BY <2>1, <3>1 DEF Unfinished, NoneCompleted
      <3>4. \A u \in Uploads : fileOf[u] = f /\ up'[u] \in {"stored", "dropped"} => u = w
        BY <2>1, <3>1 DEF Alone, AloneAt, UploadAt, Uploading
      <3>5. format'[w] = "json" /\ dir'[f].manifest = None
        BY <1>0, <2>1, <2>2 DEF DirAt, StoredAt, NoDir
      <3> QED
        BY <3>2, <3>3, <3>4, <3>5 DEF DirAt, ConvAt, StoredAt, FinishedAt
    <2>3. CASE f # fileOf[w]
      <3>1. Untouched(f)
        BY <2>1, <2>3 DEF Untouched, Live
      <3> QED
        BY <1>0, <2>1, <3>1, DirUntouched
    <2> QED
      BY <2>2, <2>3
  <1>5. CASE UploadFinish(w)
    <2>1. /\ UNCHANGED <<dir, json, race, format, rowId>> /\ up[w] = "dropped"
          /\ \A u \in Uploads : up'[u] = IF u = w THEN "done" ELSE up[u]
          /\ UNCHANGED task \/ task' = [task EXCEPT ![w] = NewTask(w)]
          /\ UNCHANGED status \/ status' = SetStatus(w, "completed")
      BY <1>5 DEF UploadFinish, Trigger, fileVars, history, TypeOK
    <2>2. \A t \in Tasks : task'[t] = task[t] \/ task'[t].pc = "mark"
      BY <2>1 DEF TypeOK, NewTask, Tasks
    <2>3. \A u \in Uploads : (Live(u)' => Live(u)) /\ (u # w => status'[u] = status[u])
      <3>1. CASE UNCHANGED status
        BY <3>1 DEF Live
      <3>2. CASE status' = SetStatus(w, "completed")
        <4>1. "completed" \in Statuses
          BY DEF Statuses
        <4> QED
          BY <3>2, <4>1, StatusSet
      <3> QED
        BY <2>1, <3>1, <3>2
    <2>4. CASE f # fileOf[w] \/ UNCHANGED status
      <3>1. \A u \in Uploads : fileOf[u] = f /\ status'[u] = "completed" => status[u] = "completed"
        BY <2>3, <2>4
      <3>2. \A t \in Tasks :
                TaskAt(t, f)' => task'[t].pc = "mark" \/ (task'[t] = task[t] /\ json'[f] = json[f])
        BY <2>1, <2>2
      <3>3. Untouched(f)
        BY <2>1, <2>3, <3>1, <3>2 DEF Untouched
      <3> QED
        BY <1>0, <2>1, <3>3, DirUntouched
    <2>5. CASE f = fileOf[w] /\ status' = SetStatus(w, "completed")
      <3>1. UploadAt(w, f) /\ Claimed(f) /\ AloneAt(f)
        BY <2>1, <2>5 DEF UploadAt, Uploading, Claimed, Alone
      <3>2. \A t \in Tasks : TaskAt(t, f)' => task'[t].pc = "mark"
        BY <2>2, <3>1 DEF AloneAt, TaskAt
      <3>3. ConvAt(f)'
        BY <3>2 DEF ConvAt, Progressing
      <3>4. \A u \in Uploads : fileOf[u] = f => up'[u] \notin {"stored", "dropped"}
        BY <2>1, <3>1 DEF AloneAt, UploadAt, Uploading
      <3>5. \A u \in Uploads : fileOf[u] = f /\ status'[u] = "completed" => u = w
        BY <2>1, <2>3, <3>1 DEF Unfinished, NoneCompleted
      <3>6. format'[w] = "json" /\ dir'[f].manifest = None
        BY <1>0, <2>1, <2>5 DEF DirAt, StoredAt
      <3> QED
        BY <3>3, <3>4, <3>5, <3>6 DEF DirAt, StoredAt, FinishedAt
    <2> QED
      BY <2>1, <2>4, <2>5
  <1> QED
    BY <1>1, <1>2, <1>3, <1>4, <1>5 DEF UploadStep

\* Conversions. What each step leaves on the disk is what the next one expects.
LEMMA ProgressNext ==
  ASSUME SourcesKnown, TypeOK', NEW t \in Tasks, TaskStep(t) \/ ConvertError(t),
         fileOf[task[t].u] \notin race, Live(task[t].u), Progressing(t), task'[t].pc # "idle"
  PROVE  Progressing(t)'
  <1> USE StoreAssumption DEF SourcesKnown, SourcesInv, RowsKnown, Types
  <1> DEFINE u == task[t].u
             f == fileOf[task[t].u]
  <1>1. /\ u \in Uploads /\ f \in Files /\ task[t].pc # "idle" /\ task'[t].u = task[t].u
        /\ dir[f] \in Dirs
    BY TaskGoesOn DEF TypeOK
  <1>2. UNCHANGED <<json, data, rowId>> /\ Sources(u)' = Sources(u)
    <2>1. UNCHANGED <<json, data, rowId>>
      BY DEF TaskStep, MarkConverting, OpenJson, BucketPositions, AssembleChunks, WriteManifest,
             RecordStats, SetProtobuf, Finish, ConvertError, fileVars, rowVars
    <2> QED
      BY <2>1, <1>1 DEF Sources
  <1>3. CASE task'[t].pc \in {"mark", "open", "fail"}
    BY <1>3 DEF Progressing
  <1>4. CASE OpenJson(t) /\ json[f] # None
    <2>1. dir'[f] = NewDir /\ task'[t].pc = "bucket" /\ task'[t].src = json[f]
      BY <1>1, <1>4 DEF OpenJson, TaskFile, TypeOK
    <2> QED
      BY <1>1, <1>2, <2>1 DEF Progressing
  <1>5. CASE BucketPositions(t) /\ task'[t].pc # "fail"
    <2> DEFINE c == data[task[t].src][1]
    <2>1. task[t].pc = "bucket" /\ task[t].src = json[f] /\ dir[f] = NewDir
      BY <1>5 DEF BucketPositions, At, Progressing
    <2>2. /\ task' = [task EXCEPT ![t].pc = "assemble", ![t].got = c]
          /\ dir' = [dir EXCEPT ![f].bucket = @ \cup {<<t, c>>}]
      BY <1>5 DEF BucketPositions, TaskFile, Goto, TypeOK
    <2>3. task'[t].pc = "assemble" /\ task'[t].got = c
      BY <2>2 DEF TypeOK
    <2>4. dir'[f].bucket = {<<t, c>>} /\ dir'[f].chunks = {}
      BY <1>1, <2>1, <2>2 DEF TypeOK, NewDir, NoDir
    <2>5. c \in Sources(u)
      BY <1>1, <2>1 DEF SourceKept, PlaysJson
    <2> QED
      BY <1>1, <1>2, <2>3, <2>4, <2>5 DEF Progressing
  <1>6. CASE AssembleChunks(t)
    <2> DEFINE c == task[t].got
    <2>1. task[t].pc = "assemble" /\ c \in Sources(u) /\ dir[f].bucket = {<<t, c>>} /\ dir[f].chunks = {}
      BY <1>6 DEF AssembleChunks, At, Progressing
    <2>2. task'[t].pc = "manifest" /\ task'[t].got = c
      BY <1>6 DEF AssembleChunks, Goto, TypeOK
    <2>3. dir'[f].chunks = {[of |-> c, ok |-> TRUE]}
      <3>1. (\E q \in Tasks : dir[f].bucket = {<<q, c>>}) = TRUE
        BY <2>1
      <3>2. {x \in dir[f].chunks : x.of # c} = {}
        BY <2>1
      <3>3. dir' = [dir EXCEPT ![f].here = TRUE, ![f].chunks = {} \cup {[of |-> c, ok |-> TRUE]}]
        BY <1>6, <3>1, <3>2 DEF AssembleChunks, TaskFile
      <3> QED
        BY <1>1, <3>3 DEF TypeOK, Dirs
    <2> QED
      BY <1>1, <1>2, <2>1, <2>2, <2>3 DEF Progressing
  <1>7. CASE WriteManifest(t) /\ task'[t].pc # "fail"
    <2> DEFINE c == task[t].got
    <2>1. task[t].pc = "manifest" /\ c \in Sources(u) /\ dir[f].chunks = {[of |-> c, ok |-> TRUE]}
      BY <1>7 DEF WriteManifest, At, Progressing
    <2>2. /\ task'[t].pc = "stats" /\ task'[t].got = c
          /\ dir' = [dir EXCEPT ![f] = [WithoutBucket(dir[f]) EXCEPT !.manifest = c]]
      BY <1>7 DEF WriteManifest, Goto, TaskFile, TypeOK
    <2>3. dir'[f].chunks = dir[f].chunks /\ dir'[f].manifest = c
      BY <1>1, <2>2 DEF TypeOK, Dirs, WithoutBucket
    <2> QED
      BY <1>1, <1>2, <2>1, <2>2, <2>3 DEF Progressing
  <1>8. CASE RecordStats(t)
    <2>1. /\ task[t].pc = "stats" /\ task'[t].pc = "format" /\ task'[t].got = task[t].got
          /\ UNCHANGED <<dir, format>>
      BY <1>8 DEF RecordStats, At, Goto, TypeOK, fileVars
    <2> QED
      BY <1>1, <1>2, <2>1 DEF Progressing
  <1>9. CASE SetProtobuf(t)
    <2>1. /\ task[t].pc = "format" /\ task'[t].pc = "complete" /\ task'[t].got = task[t].got
          /\ UNCHANGED dir /\ format'[u] = "protobuf"
      BY <1>1, <1>9 DEF SetProtobuf, At, Goto, TypeOK, fileVars
    <2> QED
      BY <1>1, <1>2, <2>1 DEF Progressing
  <1>10. MarkConverting(t) \/ ConvertError(t) => task'[t].pc \in {"mark", "open", "fail"}
    BY DEF MarkConverting, ConvertError, Goto, TypeOK
  <1>11. OpenJson(t) /\ json[f] = None => task'[t].pc = "fail"
    BY DEF OpenJson, Goto, TaskFile, TypeOK
  <1>12. ~Finish(t)
    BY DEF Finish, NoTask, TypeOK
  <1> QED
    BY <1>3, <1>4, <1>5, <1>6, <1>7, <1>8, <1>9, <1>10, <1>11, <1>12 DEF TaskStep

\* What a conversion does to the rows and to the other filenames.
LEMMA TaskReach ==
  ASSUME Types, NEW t \in Tasks, TaskStep(t) \/ ConvertError(t)
  PROVE  /\ UNCHANGED <<json, data, rowId, race>>
         /\ \A f \in Files : f # fileOf[task[t].u] => dir'[f] = dir[f]
         /\ \A u \in Uploads : u # task[t].u => status'[u] = status[u] /\ format'[u] = format[u]
         /\ \A u \in Uploads : status'[u] = "completed" => status[u] = "completed" \/ Finish(t)
         /\ \A u \in Uploads : Live(u)' => Live(u)
  <1> USE StoreAssumption DEF Types
  <1>1. task[t].u \in Uploads /\ task[t].pc # "idle"
    BY TaskGoesOn DEF TypeOK
  <1>2. CASE MarkConverting(t)
    <2>1. /\ status' = SetStatus(task[t].u, "converting") /\ "converting" \in Statuses
          /\ UNCHANGED <<json, data, rowId, race, dir, format>>
      BY <1>2 DEF MarkConverting, fileVars, history, Statuses
    <2>2. /\ \A v \in Uploads : v # task[t].u => status'[v] = status[v]
          /\ \A v \in Uploads : Live(v)' => Live(v)
          /\ status'[task[t].u] # "completed"
      BY <1>1, <2>1, StatusSet
    <2>3. \A v \in Uploads : status'[v] = "completed" => status[v] = "completed"
      BY <2>2
    <2> QED
      BY <2>1, <2>2, <2>3
  <1>3. CASE Finish(t)
    <2>1. PICK s \in Statuses :
            /\ status' = SetStatus(task[t].u, s)
            /\ UNCHANGED <<json, data, rowId, race, dir, format>>
      BY <1>3 DEF Finish, fileVars, history, Statuses
    <2>2. /\ \A v \in Uploads : v # task[t].u => status'[v] = status[v]
          /\ \A v \in Uploads : Live(v)' => Live(v)
      BY <1>1, <2>1, StatusSet
    <2> QED
      BY <1>3, <2>1, <2>2
  <1>4. CASE RecordStats(t) \/ SetProtobuf(t)
    BY <1>1, <1>4 DEF RecordStats, SetProtobuf, fileVars, history, Live, TypeOK
  <1>5. CASE OpenJson(t) \/ BucketPositions(t) \/ AssembleChunks(t)
    BY <1>1, <1>5 DEF OpenJson, BucketPositions, AssembleChunks, TaskFile, rowVars, history, Live, TypeOK
  <1>6. CASE WriteManifest(t) \/ ConvertError(t)
    BY <1>1, <1>6 DEF WriteManifest, ConvertError, TaskFile, rowVars, history, Live, TypeOK
  <1> QED
    BY <1>2, <1>3, <1>4, <1>5, <1>6 DEF TaskStep

LEMMA DirTask ==
  ASSUME SourcesKnown, TypeOK', DirsInv, NEW t \in Tasks, TaskStep(t) \/ ConvertError(t),
         NEW f \in Files \ race'
  PROVE  DirAt(f)'
  <1> USE StoreAssumption DEF SourcesKnown, RowsKnown, Types
  <1>1. PICK u \in Uploads :
        /\ u = task[t].u /\ task[t].pc # "idle" /\ UNCHANGED <<up, json, data, rowId, race>>
        /\ \A q \in Tasks : q # t => task'[q] = task[q]
        /\ task'[t].pc # "idle" => task'[t].u = u
    BY TaskGoesOn, TaskReach DEF TypeOK
  <1>2. DirAt(f)
    BY <1>1 DEF DirsInv
  <1>3. CASE f # fileOf[u]
    <2>1. \A q \in Tasks : TaskAt(q, f)' => task'[q] = task[q]
      BY <1>1, <1>3 DEF TaskAt
    <2>2. /\ dir'[f] = dir[f]
          /\ \A v \in Uploads : fileOf[v] = f => status'[v] = status[v] /\ format'[v] = format[v]
      BY <1>1, <1>3, TaskReach
    <2>3. Untouched(f)
      BY <1>1, <2>1, <2>2 DEF Untouched, Live
    <2> QED
      BY <1>2, <2>3, DirUntouched
  <1>4. CASE f = fileOf[u]
    <2>1. TaskAt(t, f) /\ AloneAt(f) /\ NoneCompleted(f)
      BY <1>1, <1>4 DEF TaskAt, Alone, Unfinished, Claimed
    <2>2. StoredAt(f)'
      BY <1>1, <2>1 DEF AloneAt, UploadAt, Uploading, StoredAt
    <2>3. ConvAt(f)'
      <3> SUFFICES ASSUME NEW q \in Tasks, TaskAt(q, f)', Live(task[q].u)' PROVE Progressing(q)'
        BY DEF ConvAt
      <3>1. q = t
        BY <1>1, <2>1 DEF AloneAt, TaskAt
      <3>2. task'[t].pc # "idle" /\ task'[t].u = u
        BY <1>1, <3>1 DEF TaskAt
      <3>3. Live(u)
        <4>1. Live(u)'
          BY <3>1, <3>2 DEF Live
        <4> QED
          BY <1>1, <4>1, TaskReach
      <3>4. Progressing(t)
        BY <1>1, <1>2, <2>1, <3>3 DEF DirAt, ConvAt
      <3> QED
        BY <1>1, <1>4, <3>1, <3>2, <3>3, <3>4, ProgressNext
    <2>4. FinishedAt(f)'
      <3> SUFFICES ASSUME NEW v \in Uploads, fileOf[v] = f, status'[v] = "completed"
                   PROVE  format'[v] # "json" /\ PlaysProtobuf(v)'
        BY DEF FinishedAt
      <3>1. status[v] # "completed"
        BY <2>1 DEF NoneCompleted
      <3>2. Finish(t) /\ v = u
        BY <1>1, <3>1, TaskReach
      <3>3. /\ status' = SetStatus(u, IF At(t, "complete") THEN "completed" ELSE "failed")
            /\ UNCHANGED <<format, dir>>
        BY <1>1, <3>2 DEF Finish, fileVars
      <3>4. Live(u) /\ At(t, "complete")
        <4>1. Live(u)
          BY <1>1, <3>2, TaskReach DEF Live
        <4>2. CASE ~At(t, "complete")
          BY <1>1, <3>2, <3>3, <4>2, StatusSet DEF Statuses
        <4> QED
          BY <4>1, <4>2
      <3>5. Progressing(t)
        BY <1>1, <1>2, <2>1, <3>4 DEF DirAt, ConvAt
      <3>6. /\ format[u] = "protobuf" /\ task[t].got \in Sources(u)
            /\ dir[f].chunks = {[of |-> task[t].got, ok |-> TRUE]} /\ dir[f].manifest = task[t].got
        BY <1>1, <1>4, <3>4, <3>5 DEF Progressing, At
      <3>7. Sources(u)' = Sources(u)
        BY <1>1, SourcesOf
      <3>8. PlaysProtobuf(u)'
        BY <1>4, <3>3, <3>6, <3>7 DEF PlaysProtobuf
      <3> QED
        BY <3>2, <3>3, <3>6, <3>8
    <2> QED
      BY <2>2, <2>3, <2>4 DEF DirAt
  <1> QED
    BY <1>3, <1>4

\* The worker and the admin requests clear directories no row is completed in.
LEMMA DirWorker ==
  ASSUME SourcesKnown, TypeOK', DirsInv, WorkerStep, race \subseteq race', NEW f \in Files \ race'
  PROVE  DirAt(f)'
  <1> USE StoreAssumption DEF SourcesKnown, RowsKnown, Types
  <1>1. DirAt(f)
    BY DEF DirsInv
  <1>2. CASE CleanupSelect \/ BackfillDone \/ TickerSelect \/ \E u \in Uploads : BackfillOne(u)
    <2>1. UNCHANGED <<dir, json, task, status, format, rowId, up>>
      BY <1>2 DEF CleanupSelect, BackfillDone, TickerSelect, BackfillOne, rowVars, fileVars
    <2>2. Untouched(f)
      BY <2>1 DEF Untouched, Live
    <2> QED
      BY <1>1, <2>2, DirUntouched
  <1>3. ASSUME NEW u \in Uploads, CleanupRemove(u) PROVE DirAt(f)'
    <2>1. /\ UNCHANGED <<json, task, status, format, rowId, up, race>>
          /\ wpc = "sweep" /\ u \in list
          /\ \A g \in Files : g # fileOf[u] => dir'[g] = dir[g]
      BY <1>3 DEF CleanupRemove, rowVars, history, TypeOK
    <2>2. CASE f = fileOf[u]
      <3>1. ListAt(u, f) /\ AloneAt(f) /\ NoneCompleted(f)
        BY <2>1, <2>2 DEF ListAt, Claimed, Alone, Unfinished
      <3> QED
        BY <2>1, <3>1, DirVacant, SamePlaces DEF AloneAt, UploadAt, Uploading, NoneCompleted
    <2>3. CASE f # fileOf[u]
      <3>1. Untouched(f)
        BY <2>1, <2>3 DEF Untouched, Live
      <3> QED
        BY <1>1, <3>1, DirUntouched
    <2> QED
      BY <2>2, <2>3
  <1>4. CASE CleanupReset
    <2>1. /\ UNCHANGED <<dir, json, task, format, rowId, up>>
          /\ \A u \in Uploads : (Live(u)' => Live(u)) /\ (status'[u] = "completed" => status[u] = "completed")
      BY <1>4 DEF CleanupReset, fileVars, Live, TypeOK
    <2>2. Untouched(f)
      BY <2>1 DEF Untouched
    <2> QED
      BY <1>1, <2>2, DirUntouched
  <1>5. ASSUME NEW u \in Uploads, TickerConvert(u) PROVE DirAt(f)'
    <2>1. /\ UNCHANGED <<dir, json, status, format, rowId, up>>
          /\ \A t \in Tasks : task'[t] = task[t] \/ task'[t].pc = "mark"
      BY <1>5 DEF TickerConvert, rowVars, fileVars, TypeOK, NewTask
    <2>2. Untouched(f)
      BY <2>1 DEF Untouched, Live
    <2> QED
      BY <1>1, <2>2, DirUntouched
  <1> QED
    BY <1>2, <1>3, <1>4, <1>5 DEF WorkerStep

LEMMA DirAdmin ==
  ASSUME SourcesKnown, TypeOK', DirsInv, race \subseteq race', NEW f \in Files \ race', NEW a \in Admins,
         AdminStep(a) \/ \E u \in Uploads : RetryCheck(a, u) \/ DeleteRow(a, u)
  PROVE  DirAt(f)'
  <1> USE StoreAssumption DEF SourcesKnown, RowsKnown, Types
  <1>1. DirAt(f)
    BY DEF DirsInv
  <1>2. CASE RetryResetFails(a) \/ \E u \in Uploads : RetryCheck(a, u)
    <2>1. UNCHANGED <<dir, json, task, status, format, rowId, up>>
      BY <1>2 DEF RetryResetFails, RetryCheck, rowVars, fileVars
    <2>2. Untouched(f)
      BY <2>1 DEF Untouched, Live
    <2> QED
      BY <1>1, <2>2, DirUntouched
  <1>3. ASSUME NEW u \in Uploads, DeleteRow(a, u) PROVE DirAt(f)'
    <2>1. /\ UNCHANGED <<dir, json, task, rowId, up>>
          /\ status' = [status EXCEPT ![u] = "absent"] /\ format' = [format EXCEPT ![u] = "json"]
      BY <1>3 DEF DeleteRow, fileVars
    <2>2. \A v \in Uploads :
            /\ Live(v)' => Live(v) /\ format'[v] = format[v]
            /\ status'[v] = "completed" => status[v] = "completed"
            /\ format'[v] \in {format[v], "json"}
      BY <2>1 DEF Live, TypeOK
    <2>3. Untouched(f)
      BY <2>1, <2>2 DEF Untouched
    <2> QED
      BY <1>1, <2>3, DirUntouched
  <1>4. CASE RetryRemove(a) \/ DeleteDir(a) \/ DeleteJson(a)
    <2> DEFINE g == fileOf[adm[a].u]
    <2>1. /\ UNCHANGED <<task, status, format, rowId, up, race>> /\ adm[a].pc # "idle"
          /\ f # g => dir'[f] = dir[f] /\ json'[f] = json[f]
      <3>1. CASE RetryRemove(a)
        BY <3>1 DEF RetryRemove, rowVars, history, TypeOK
      <3>2. CASE DeleteDir(a) \/ DeleteJson(a)
        BY <3>2 DEF DeleteDir, DeleteJson, rowVars, history, TypeOK
      <3> QED
        BY <1>4, <3>1, <3>2
    <2>2. CASE f = g
      <3>1. AdminAt(a, f) /\ AloneAt(f) /\ NoneCompleted(f)
        BY <2>1, <2>2 DEF AdminAt, Claimed, Alone, Unfinished
      <3> QED
        BY <2>1, <3>1, DirVacant, SamePlaces DEF AloneAt, UploadAt, Uploading, NoneCompleted
    <2>3. CASE f # g
      <3>1. Untouched(f)
        BY <2>1, <2>3 DEF Untouched, Live
      <3> QED
        BY <1>1, <3>1, DirUntouched
    <2> QED
      BY <2>2, <2>3
  <1>5. CASE RetryReset(a)
    <2>1. PICK u \in Uploads :
            /\ UNCHANGED <<dir, json, format, rowId, up>> /\ status' = SetStatus(u, "pending")
            /\ UNCHANGED task \/ task' = [task EXCEPT ![u] = NewTask(u)]
      BY <1>5 DEF RetryReset, Trigger, fileVars, TypeOK
    <2>2. \A t \in Tasks : task'[t] = task[t] \/ task'[t].pc = "mark"
      BY <2>1 DEF TypeOK, NewTask
    <2>3. \A v \in Uploads : (Live(v)' => Live(v)) /\ (status'[v] = "completed" => status[v] = "completed")
      <3>1. "pending" \in Statuses
        BY DEF Statuses
      <3> QED
        BY <2>1, <3>1, StatusSet
    <2>4. Untouched(f)
      BY <2>1, <2>2, <2>3 DEF Untouched
    <2> QED
      BY <1>1, <2>4, DirUntouched
  <1> QED
    BY <1>2, <1>3, <1>4, <1>5 DEF AdminStep

LEMMA DirsNext == DirsKnown /\ [Next]_vars => DirsInv'
  <1> SUFFICES ASSUME DirsKnown, [Next]_vars, NEW f \in Files \ race' PROVE DirAt(f)'
    BY DEF DirsInv
  <1> USE StoreAssumption DEF DirsKnown
  <1>1. TypeOK' /\ race \subseteq race'
    BY RowsKnownNext, RaceGrows DEF SourcesKnown, RowsKnown, Types
  <1>2. ASSUME NEW u \in Uploads,
               UploadCreate(u) \/ UploadStep(u) \/ UploadAbort(u) \/ UploadStoreFails(u)
        PROVE  DirAt(f)'
    BY <1>1, <1>2, DirUpload
  <1>3. ASSUME NEW t \in Tasks, TaskStep(t) \/ ConvertError(t) PROVE DirAt(f)'
    BY <1>1, <1>3, DirTask
  <1>4. CASE WorkerStep
    BY <1>1, <1>4, DirWorker
  <1>5. ASSUME NEW a \in Admins,
               AdminStep(a) \/ \E u \in Uploads : RetryCheck(a, u) \/ DeleteRow(a, u)
        PROVE  DirAt(f)'
    BY <1>1, <1>5, DirAdmin
  <1>6. CASE CrashAndRestart \/ UNCHANGED vars
    <2>1. /\ UNCHANGED <<dir, json, status, format, rowId>>
          /\ \A t \in Tasks : TaskAt(t, f)' => task'[t] = task[t]
          /\ \A u \in Uploads : up'[u] \in {"stored", "dropped"} => up'[u] = up[u]
      <3>1. CASE CrashAndRestart
        BY <3>1 DEF CrashAndRestart, rowVars, fileVars, TaskAt, NoTask, Uploading
      <3>2. CASE UNCHANGED vars
        BY <3>2 DEF vars, rowVars, fileVars, procVars
      <3> QED
        BY <1>6, <3>1, <3>2
    <2>2. Untouched(f)
      BY <2>1 DEF Untouched, Live
    <2>3. DirAt(f) /\ TypeOK
      BY <1>1 DEF DirsInv, SourcesKnown, RowsKnown, Types
    <2> QED
      BY <1>1, <2>2, <2>3, DirUntouched
  <1> QED
    BY <1>2, <1>3, <1>4, <1>5, <1>6 DEF Next

LEMMA DirsAlways == Spec => []DirsKnown
  <1>1. Init => DirsKnown
    BY RowsKnownInit, FilesInit, SourcesInit, DirsInit DEF DirsKnown, SourcesKnown
  <1>2. DirsKnown /\ [Next]_vars => DirsKnown'
    BY SourcesNext, DirsNext DEF DirsKnown
  <1> QED
    BY <1>1, <1>2, PTL DEF Spec

\* A completed recording can be played in the format its row names (Playable of the
\* run store_replace), after any uploads, replacements, failures, retries, deletes,
\* crashes and changes of conversion.enabled.
THEOREM CompletedPlays == Spec => []Playable
  <1>1. DirsKnown => Playable
    <2> SUFFICES ASSUME DirsKnown, NEW u \in RowsWith("completed"), fileOf[u] \notin race
                 PROVE  IF format[u] = "json" THEN PlaysJson(u) ELSE PlaysProtobuf(u)
      BY DEF Playable
    <2>1. u \in Uploads /\ status[u] = "completed" /\ fileOf[u] \in Files
      BY StoreAssumption DEF RowsWith
    <2>2. PlaysJson(u)
      BY <2>1 DEF DirsKnown, SourcesKnown, SourcesInv, SourceKept, Live
    <2>3. format[u] # "json" => PlaysProtobuf(u)
      BY <2>1 DEF DirsKnown, DirsInv, DirAt, FinishedAt
    <2> QED
      BY <2>2, <2>3
  <1> QED
    BY <1>1, DirsAlways, PTL

(***************************************************************************)
(* Statistics. A conversion takes them from the manifest it wrote; the     *)
(* backfill takes them for completed rows, which nothing else works on.    *)
(***************************************************************************)
StatsLive == \A u \in Uploads : stats[u] # None => Live(u)

Backfilled ==
    wpc = "backfill" =>
        \A u \in list :
            fileOf[u] \notin race => status[u] \in {"completed", "absent"} /\ rowId[u] # 0

StatsInv == StatsLive /\ Backfilled /\ StatsMatch

LEMMA StatsInit == Init => StatsInv
  BY DEF Init, StatsInv, StatsLive, Backfilled, StatsMatch

\* Rows are removed by a replacing upload and by a delete, and by nothing else.
LEMMA LiveKept ==
  ASSUME Types, [Next]_vars, \A u \in Uploads : ~UploadStore(u),
         \A a \in Admins, u \in Uploads : ~DeleteRow(a, u)
  PROVE  /\ \A v \in Uploads : Live(v) => Live(v)'
         /\ UNCHANGED stats \/ (\E t \in Tasks : RecordStats(t)) \/ (\E u \in Uploads : BackfillOne(u))
  <1> USE DEF Types
  <1> DEFINE Kept == /\ \A v \in Uploads : Live(v) => Live(v)'
                     /\ \/ UNCHANGED stats
                        \/ \E t \in Tasks : RecordStats(t)
                        \/ \E u \in Uploads : BackfillOne(u)
  <1>0. {"pending", "converting", "completed", "failed"} \subseteq Statuses
    BY DEF Statuses
  <1>1. ASSUME NEW u \in Uploads, NEW s \in Statuses, status' = SetStatus(u, s), UNCHANGED stats
        PROVE  Kept
    BY <1>1, StatusSet
  <1>2. ASSUME UNCHANGED <<status, stats>> PROVE Kept
    BY <1>2 DEF Live
  <1>3. ASSUME NEW u \in Uploads,
               UploadCreate(u) \/ UploadStep(u) \/ UploadAbort(u) \/ UploadStoreFails(u)
        PROVE  Kept
    <2>1. UNCHANGED stats /\ (UNCHANGED status \/ status' = SetStatus(u, "completed"))
      BY <1>3 DEF UploadStep, UploadCreate, UploadWrite, UploadRename, UploadDropDir, UploadFinish,
                  UploadAbort, UploadStoreFails, rowVars
    <2> QED
      BY <1>0, <1>1, <1>2, <2>1
  <1>4. ASSUME NEW t \in Tasks, TaskStep(t) \/ ConvertError(t) PROVE Kept
    <2>1. CASE RecordStats(t)
      BY <2>1 DEF RecordStats, Live
    <2>2. CASE MarkConverting(t) \/ Finish(t)
      <3>1. task[t].u \in Uploads /\ UNCHANGED stats
        BY <2>2 DEF MarkConverting, Finish, At, TypeOK
      <3>2. status' = SetStatus(task[t].u, "converting") \/ status' = SetStatus(task[t].u, "completed")
            \/ status' = SetStatus(task[t].u, "failed")
        BY <2>2 DEF MarkConverting, Finish
      <3> QED
        BY <1>0, <1>1, <3>1, <3>2
    <2>3. CASE \/ OpenJson(t) \/ BucketPositions(t) \/ AssembleChunks(t) \/ WriteManifest(t)
               \/ SetProtobuf(t) \/ ConvertError(t)
      <3>1. UNCHANGED <<status, stats>>
        BY <2>3 DEF OpenJson, BucketPositions, AssembleChunks, WriteManifest, SetProtobuf, ConvertError,
                    rowVars
      <3> QED
        BY <1>2, <3>1
    <2> QED
      BY <1>4, <2>1, <2>2, <2>3 DEF TaskStep
  <1>5. CASE WorkerStep
    <2>1. CASE CleanupReset
      BY <2>1 DEF CleanupReset, Live, TypeOK
    <2>2. CASE \E u \in Uploads : BackfillOne(u)
      BY <2>2 DEF BackfillOne, Live
    <2>3. CASE \/ CleanupSelect \/ BackfillDone \/ TickerSelect
               \/ \E u \in Uploads : CleanupRemove(u) \/ TickerConvert(u)
      <3>1. UNCHANGED <<status, stats>>
        BY <2>3 DEF CleanupSelect, BackfillDone, TickerSelect, CleanupRemove, TickerConvert, rowVars
      <3> QED
        BY <1>2, <3>1
    <2> QED
      BY <1>5, <2>1, <2>2, <2>3 DEF WorkerStep
  <1>6. ASSUME NEW a \in Admins, AdminStep(a) \/ \E u \in Uploads : RetryCheck(a, u)
        PROVE  Kept
    <2>1. CASE RetryReset(a)
      <3>1. adm[a].u \in Uploads /\ status' = SetStatus(adm[a].u, "pending") /\ UNCHANGED stats
        BY <2>1 DEF RetryReset, TypeOK
      <3> QED
        BY <1>0, <1>1, <3>1
    <2>2. CASE UNCHANGED <<status, stats>>
      BY <1>2, <2>2
    <2> QED
      BY <1>6, <2>1, <2>2
         DEF AdminStep, RetryRemove, RetryResetFails, DeleteJson, DeleteDir, RetryCheck, rowVars
  <1>7. CASE CrashAndRestart \/ UNCHANGED vars
    BY <1>2, <1>7 DEF CrashAndRestart, vars, rowVars
  <1> QED
    BY <1>3, <1>4, <1>5, <1>6, <1>7 DEF Next

\* The rows of the backfill are those that were completed when it began.
LEMMA BackfilledNext ==
  ASSUME DirsKnown, Backfilled, [Next]_vars
  PROVE  Backfilled'
  <1> USE StoreAssumption DEF DirsKnown, SourcesKnown, RowsKnown, Types
  <1> SUFFICES ASSUME wpc' = "backfill", NEW u \in list', fileOf[u] \notin race'
               PROVE  status'[u] \in {"completed", "absent"} /\ rowId'[u] # 0
    BY DEF Backfilled
  <1>1. CASE CleanupReset
    <2>1. u \in Uploads /\ status[u] = "completed" /\ status'[u] = "completed" /\ UNCHANGED rowId
      BY <1>1 DEF CleanupReset, RowsWith
    <2> QED
      BY <2>1 DEF LiveStored, Live
  <1>2. CASE ~CleanupReset
    <2>1. wpc = "backfill" /\ list' \subseteq list
      <3>1. ASSUME NEW v \in Uploads,
                   UploadCreate(v) \/ UploadStep(v) \/ UploadAbort(v) \/ UploadStoreFails(v)
            PROVE  UNCHANGED <<wpc, list>>
        BY <3>1 DEF UploadStep, UploadCreate, UploadWrite, UploadRename, UploadStore, UploadDropDir,
                    UploadFinish, UploadAbort, UploadStoreFails
      <3>2. ASSUME NEW t \in Tasks, TaskStep(t) \/ ConvertError(t) PROVE UNCHANGED <<wpc, list>>
        BY <3>2, TaskGoesOn
      <3>3. WorkerStep => wpc = "backfill" /\ list' \subseteq list
        BY <1>2 DEF WorkerStep, CleanupSelect, CleanupRemove, BackfillOne, BackfillDone, TickerSelect,
                    TickerConvert
      <3>4. ASSUME NEW a \in Admins,
                   AdminStep(a) \/ \E v \in Uploads : RetryCheck(a, v) \/ DeleteRow(a, v)
            PROVE  UNCHANGED <<wpc, list>>
        BY <3>4 DEF AdminStep, RetryRemove, RetryReset, RetryResetFails, DeleteJson, DeleteDir, RetryCheck,
                    DeleteRow
      <3>5. ~CrashAndRestart
        BY DEF CrashAndRestart
      <3>6. UNCHANGED vars => UNCHANGED <<wpc, list>>
        BY DEF vars, procVars
      <3> QED
        BY <3>1, <3>2, <3>3, <3>4, <3>5, <3>6 DEF Next
    <2>2. u \in Uploads /\ status[u] \in {"completed", "absent"} /\ rowId[u] # 0
      BY <2>1, RaceGrows DEF Backfilled, TypeOK
    <2>3. status'[u] \in {"completed", "absent"}
      <3>1. CASE status[u] = "completed"
        BY <2>2, <3>1, CompletedNext
      <3>2. CASE status[u] = "absent"
        BY <2>2, <3>2, RowsStep DEF Live
      <3> QED
        BY <2>2, <3>1, <3>2
    <2>4. rowId'[u] # 0
      <3>1. CASE \E w \in Uploads : UploadStore(w)
        BY <2>2, <3>1 DEF UploadStore, TypeOK
      <3>2. CASE \A w \in Uploads : ~UploadStore(w)
        BY <2>2, <3>2, RowsOtherwise
      <3> QED
        BY <3>1, <3>2
    <2> QED
      BY <2>3, <2>4
  <1> QED
    BY <1>1, <1>2

LEMMA StatsNext == DirsKnown /\ StatsInv /\ [Next]_vars => StatsInv'
  <1> SUFFICES ASSUME DirsKnown, StatsInv, [Next]_vars PROVE StatsLive' /\ StatsMatch'
    BY BackfilledNext DEF StatsInv
  <1> USE StoreAssumption DEF DirsKnown, SourcesKnown, RowsKnown, Types, StatsInv
  <1>0. race \subseteq race'
    BY RaceGrows
  <1>1. ASSUME NEW w \in Uploads, UploadStore(w) PROVE StatsLive' /\ StatsMatch'
    <2>1. \A u \in Uploads :
            /\ fileOf[u] = fileOf[w] => stats'[u] = None
            /\ fileOf[u] # fileOf[w] =>
                  stats'[u] = stats[u] /\ rowId'[u] = rowId[u] /\ status'[u] = status[u]
      BY <1>1 DEF UploadStore, StatsLive, TypeOK
    <2>2. \A u \in Uploads : fileOf[u] # fileOf[w] => Sources(u)' = Sources(u)
      BY <2>1, SourcesOf
    <2> QED
      BY <1>0, <2>1, <2>2 DEF StatsLive, StatsMatch, Live
  <1>2. ASSUME NEW a \in Admins, NEW u \in Uploads, DeleteRow(a, u) PROVE StatsLive' /\ StatsMatch'
    <2>1. /\ UNCHANGED rowId
          /\ \A v \in Uploads : stats'[v] = IF v = u THEN None ELSE stats[v]
          /\ \A v \in Uploads : v # u => status'[v] = status[v]
      BY <1>2 DEF DeleteRow, TypeOK
    <2>2. \A v \in Uploads : Sources(v)' = Sources(v)
      BY <2>1, SourcesOf
    <2> QED
      BY <1>0, <2>1, <2>2 DEF StatsLive, StatsMatch, Live
  <1>3. ASSUME \A w \in Uploads : ~UploadStore(w),
               \A a \in Admins, u \in Uploads : ~DeleteRow(a, u)
        PROVE  StatsLive' /\ StatsMatch'
    <2>1. /\ \A v \in Uploads : Live(v) => Live(v)'
          /\ \A v \in Uploads : Sources(v)' = Sources(v)
      BY <1>3, LiveKept, RowsOtherwise, SourcesOf
    <2>2. ASSUME NEW u \in Uploads, NEW c, UNCHANGED stats \/ stats' = [stats EXCEPT ![u] = c],
                 stats' # stats => Live(u) /\ (fileOf[u] \notin race' => c \in Sources(u))
          PROVE  StatsLive' /\ StatsMatch'
      BY <1>0, <2>1, <2>2 DEF StatsLive, StatsMatch, TypeOK
    <2>3. CASE UNCHANGED stats
      BY <1>0, <2>1, <2>3 DEF StatsLive, StatsMatch
    <2>4. ASSUME NEW t \in Tasks, RecordStats(t) PROVE StatsLive' /\ StatsMatch'
      <3>1. PICK u \in Uploads : u = task[t].u /\ task[t].pc = "stats"
        BY <2>4 DEF RecordStats, At, TypeOK
      <3>2. ASSUME Live(u), fileOf[u] \notin race'
            PROVE  dir[fileOf[u]].manifest \in Sources(u)
        <4>1. TaskAt(t, fileOf[u]) /\ ConvAt(fileOf[u])
          BY <1>0, <3>1, <3>2 DEF TaskAt, DirsInv, DirAt
        <4> QED
          BY <3>1, <3>2, <4>1 DEF ConvAt, Progressing
      <3>3. \/ UNCHANGED stats
            \/ Live(u) /\ stats' = [stats EXCEPT ![u] = dir[fileOf[u]].manifest]
        BY <2>4, <3>1 DEF RecordStats, TaskFile
      <3> QED
        BY <2>2, <2>3, <3>2, <3>3
    <2>5. ASSUME NEW u \in Uploads, BackfillOne(u) PROVE StatsLive' /\ StatsMatch'
      <3> DEFINE f == fileOf[u]
                 fromJson == IF json[f] # None /\ data[json[f]][1] = data[json[f]][2]
                             THEN data[json[f]][1] ELSE None
                 found == IF dir[f].manifest # None THEN dir[f].manifest ELSE fromJson
      <3>1. /\ wpc = "backfill" /\ u \in list
            /\ UNCHANGED stats \/ (Live(u) /\ found # None /\ stats' = [stats EXCEPT ![u] = found])
        BY <2>5 DEF BackfillOne
      <3>2. ASSUME Live(u), found # None, f \notin race' PROVE found \in Sources(u)
        <4>1. status[u] = "completed"
          BY <1>0, <3>1, <3>2 DEF Backfilled, Live
        <4>2. IF format[u] = "json" THEN dir[f].manifest = None ELSE PlaysProtobuf(u)
          BY <1>0, <3>2, <4>1 DEF DirsInv, DirAt, FinishedAt
        <4>3. CASE dir[f].manifest # None
          BY <4>2, <4>3 DEF PlaysProtobuf
        <4>4. CASE dir[f].manifest = None
          BY <1>0, <3>2, <4>4 DEF SourcesInv, SourceKept, PlaysJson
        <4> QED
          BY <4>3, <4>4
      <3> HIDE DEF found
      <3> QED
        BY <2>2, <2>3, <3>1, <3>2
    <2> QED
      BY <1>3, <2>3, <2>4, <2>5, LiveKept
  <1> QED
    BY <1>1, <1>2, <1>3

LEMMA StatsAlways == Spec => [](DirsKnown /\ StatsInv)
  BY StatsInit, StatsNext, DirsAlways, PTL DEF Spec

\* The statistics of a row are those of a recording the row may play (StatsMatch of
\* the run store_replace), whoever wrote them: the conversion or the backfill.
THEOREM StatsOfTheRecording == Spec => []StatsMatch
  BY StatsAlways, PTL DEF StatsInv

(***************************************************************************)
(* Garbage. Whoever works on a filename, except to delete it, works for a  *)
(* row that is there; and a directory has a row, or a request about to     *)
(* remove it, unless the server died.                                      *)
(***************************************************************************)
WorkAt(f) ==
    /\ \A t \in Tasks : TaskAt(t, f) => Live(task[t].u)
    /\ \A a \in Admins :
        AdminAt(a, f) /\ adm[a].pc \in {"retryRemove", "retryReset"} => Live(adm[a].u)
    /\ \A u \in Uploads : ListAt(u, f) => Live(u)
    /\ \A u \in Uploads : up[u] \in {"stored", "dropped"} /\ fileOf[u] = f => Live(u)

WorkLive == \A f \in Files \ race : WorkAt(f)

Claimant(f) ==
    \/ \E u \in Uploads : Live(u) /\ fileOf[u] = f
    \/ \E a \in Admins : AdminAt(a, f) /\ adm[a].pc \in {"deleteJson", "deleteDir"}

DirsKept == \A f \in Files \ race : dir[f].here /\ crashes = 0 => Claimant(f)

OrphansInv == WorkLive /\ DirsKept

LEMMA OrphansInit == Init => OrphansInv
  BY DEF Init, OrphansInv, WorkLive, WorkAt, DirsKept, TaskAt, AdminAt, ListAt, NoTask, NoAdmin, NoDir

\* Where no row goes, whoever goes on is still at work for a row, and so is whoever
\* begins for a live one.
LEMMA WorkGoesOn ==
  ASSUME NEW f, WorkAt(f), \A u \in Uploads : fileOf[u] = f /\ Live(u) => Live(u)',
         TypeOK, TypeOK',
         \A t \in Tasks : TaskAt(t, f)' => \/ TaskAt(t, f) /\ task'[t].u = task[t].u
                                           \/ Live(task'[t].u),
         \A a \in Admins : AdminAt(a, f)' /\ adm'[a].pc \in {"retryRemove", "retryReset"} =>
            \/ AdminAt(a, f) /\ adm[a].pc \in {"retryRemove", "retryReset"} /\ adm'[a].u = adm[a].u
            \/ Live(adm'[a].u),
         \A u \in Uploads : ListAt(u, f)' => ListAt(u, f) \/ Live(u),
         \A u \in Uploads :
            up'[u] \in {"stored", "dropped"} /\ fileOf[u] = f => up[u] \in {"stored", "dropped"} \/ Live(u)
  PROVE  WorkAt(f)'
  <1>1. \A t \in Tasks : TaskAt(t, f)' => Live(task[t].u)'
    BY DEF WorkAt, TaskAt, Live, TypeOK
  <1>2. \A a \in Admins : AdminAt(a, f)' /\ adm'[a].pc \in {"retryRemove", "retryReset"} => Live(adm[a].u)'
    BY DEF WorkAt, AdminAt, Live, TypeOK
  <1>3. \A u \in Uploads : ListAt(u, f)' => Live(u)'
    BY DEF WorkAt, ListAt
  <1>4. \A u \in Uploads : up'[u] \in {"stored", "dropped"} /\ fileOf[u] = f => Live(u)'
    BY DEF WorkAt
  <1> QED
    BY <1>1, <1>2, <1>3, <1>4 DEF WorkAt

LEMMA WorkUpload ==
  ASSUME SourcesKnown, TypeOK', WorkLive, [Next]_vars, NEW w \in Uploads,
         UploadCreate(w) \/ UploadStep(w) \/ UploadAbort(w) \/ UploadStoreFails(w),
         NEW f \in Files \ race'
  PROVE  WorkAt(f)'
  <1> USE StoreAssumption DEF SourcesKnown, RowsKnown, Types
  <1>0. f \notin race /\ WorkAt(f)
    BY RaceGrows DEF WorkLive
  <1>1. CASE UploadStore(w)
    <2>1. /\ up[w] = "renamed" /\ UNCHANGED <<task, adm, wpc, list>>
          /\ \A u \in Uploads : up'[u] = IF u = w THEN "stored" ELSE up[u]
          /\ \A u \in Uploads : fileOf[u] # fileOf[w] => status'[u] = status[u]
          /\ status'[w] = "pending"
      BY <1>1 DEF UploadStore, TypeOK
    <2>2. CASE f = fileOf[w]
      <3>1. UploadAt(w, f) /\ AloneAt(f)
        BY <1>0, <2>1, <2>2 DEF UploadAt, Uploading, Alone
      <3>2. /\ \A t \in Tasks : ~TaskAt(t, f)'
            /\ \A a \in Admins : ~AdminAt(a, f)'
            /\ \A u \in Uploads : ~ListAt(u, f)'
        BY <2>1, <3>1 DEF AloneAt, TaskAt, AdminAt, ListAt
      <3>3. \A u \in Uploads : up'[u] \in {"stored", "dropped"} /\ fileOf[u] = f => u = w
        BY <2>1, <3>1 DEF AloneAt, UploadAt, Uploading
      <3> QED
        BY <2>1, <3>2, <3>3 DEF WorkAt, Live
    <2>3. CASE f # fileOf[w]
      BY <1>0, <2>1, <2>3 DEF WorkAt, Live, TaskAt, AdminAt, ListAt, TypeOK
    <2> QED
      BY <2>2, <2>3
  <1>2. ASSUME ~UploadStore(w) PROVE \A u \in Uploads : Live(u) => Live(u)'
    <2>1. UNCHANGED status \/ status' = SetStatus(w, "completed")
      BY <1>2 DEF UploadStep, UploadCreate, UploadWrite, UploadRename, UploadDropDir, UploadFinish,
                  UploadAbort, UploadStoreFails, rowVars
    <2> QED
      BY <2>1, StatusSet DEF Live, Statuses
  <1>3. CASE UploadFinish(w)
    <2>1. /\ UNCHANGED <<adm, wpc, list>> /\ up[w] = "dropped"
          /\ \A u \in Uploads : up'[u] = IF u = w THEN "done" ELSE up[u]
          /\ UNCHANGED task \/ task' = [task EXCEPT ![w] = NewTask(w)]
          /\ ~UploadStore(w)
      BY <1>3 DEF UploadFinish, Trigger, UploadStore, TypeOK
    <2>2. f = fileOf[w] => Live(w)
      BY <1>0, <2>1 DEF WorkAt
    <2>3. \A t \in Tasks : TaskAt(t, f)' => task'[t] = task[t] \/ (task'[t].u = w /\ f = fileOf[w])
      BY <2>1 DEF TaskAt, NewTask, TypeOK
    <2>4. \A t \in Tasks : TaskAt(t, f)' => \/ TaskAt(t, f) /\ task'[t].u = task[t].u
                                            \/ Live(task'[t].u)
      BY <2>2, <2>3 DEF TaskAt, Live
    <2> QED
      BY <1>0, <1>2, <2>1, <2>4, SamePlaces, WorkGoesOn
  <1>4. CASE \/ UploadCreate(w) \/ UploadWrite(w) \/ UploadRename(w) \/ UploadDropDir(w)
             \/ UploadAbort(w) \/ UploadStoreFails(w)
    <2>1. UNCHANGED <<task, adm, wpc, list>>
      BY <1>4 DEF UploadCreate, UploadWrite, UploadRename, UploadDropDir, UploadAbort, UploadStoreFails
    <2>2. \A u \in Uploads : up'[u] \in {"stored", "dropped"} => up[u] \in {"stored", "dropped"}
      <3>1. CASE UploadCreate(w) \/ UploadWrite(w) \/ UploadRename(w)
        BY <3>1 DEF UploadCreate, UploadWrite, UploadRename, TypeOK
      <3>2. CASE UploadDropDir(w) \/ UploadAbort(w) \/ UploadStoreFails(w)
        BY <3>2 DEF UploadDropDir, UploadAbort, UploadStoreFails, TypeOK
      <3> QED
        BY <1>4, <3>1, <3>2
    <2>3. CASE UploadStore(w)
      BY <1>1, <2>3
    <2>4. CASE ~UploadStore(w)
      BY <1>0, <1>2, <2>1, <2>2, <2>4, SamePlaces, WorkGoesOn
    <2> QED
      BY <2>3, <2>4
  <1> QED
    BY <1>1, <1>3, <1>4 DEF UploadStep

LEMMA WorkDelete ==
  ASSUME SourcesKnown, TypeOK', WorkLive, NEW a \in Admins, NEW u \in Uploads, DeleteRow(a, u),
         NEW f \in Files \ race'
  PROVE  WorkAt(f)'
  <1> USE StoreAssumption DEF SourcesKnown, RowsKnown, Types
  <1>1. /\ UNCHANGED <<up, task, wpc, list>> /\ race' = race \cup BusyOnes({fileOf[u]})
        /\ adm[a].pc = "idle"
        /\ \A b \in Admins : adm'[b] = IF b = a THEN [pc |-> "deleteJson", u |-> u] ELSE adm[b]
        /\ \A v \in Uploads : v # u => status'[v] = status[v]
    BY DEF DeleteRow, TypeOK
  <1>2. WorkAt(f)
    BY <1>1 DEF WorkLive
  <1>3. CASE f = fileOf[u]
    <2>1. ~Busy(f)
      BY <1>1, <1>3 DEF BusyOnes
    <2>2. /\ \A v \in Uploads : ~UploadAt(v, f) /\ ~ListAt(v, f)
          /\ \A t \in Tasks : ~TaskAt(t, f)
          /\ \A b \in Admins : ~AdminAt(b, f)
      BY <2>1, BusyWith DEF ListAt
    <2>3. \A b \in Admins : AdminAt(b, f)' => adm'[b].pc = "deleteJson"
      BY <1>1, <2>2 DEF AdminAt
    <2> QED
      BY <1>1, <2>2, <2>3, SamePlaces DEF WorkAt, UploadAt, Uploading
  <1>4. CASE f # fileOf[u]
    <2>1. \A b \in Admins : AdminAt(b, f)' => adm'[b] = adm[b] /\ AdminAt(b, f)
      BY <1>1, <1>4 DEF AdminAt
    <2>2. \A v \in Uploads : fileOf[v] = f /\ Live(v) => Live(v)'
      BY <1>1, <1>4 DEF Live
    <2> QED
      BY <1>1, <1>2, <2>1, <2>2, SamePlaces, WorkGoesOn
  <1> QED
    BY <1>3, <1>4

LEMMA WorkWorker ==
  ASSUME SourcesKnown, TypeOK', WorkLive, WorkerStep, race \subseteq race', NEW f \in Files \ race'
  PROVE  WorkAt(f)'
  <1> USE StoreAssumption DEF SourcesKnown, RowsKnown, Types
  <1>0. WorkAt(f)
    BY DEF WorkLive
  <1>1. CASE CleanupSelect \/ TickerSelect
    <2>1. UNCHANGED <<up, task, adm, status>>
      BY <1>1 DEF CleanupSelect, TickerSelect, rowVars
    <2>2. \A u \in Uploads : ListAt(u, f)' => Live(u)
      BY <1>1 DEF CleanupSelect, TickerSelect, ListAt, Live, RowsWith, SelectPending
    <2>3. \A u \in Uploads : Live(u) => Live(u)'
      BY <2>1 DEF Live
    <2> QED
      BY <1>0, <2>1, <2>2, <2>3, SamePlaces, WorkGoesOn
  <1>2. CASE CleanupReset \/ BackfillDone \/ \E u \in Uploads : CleanupRemove(u) \/ BackfillOne(u)
    <2>1. /\ UNCHANGED <<up, task, adm>>
          /\ wpc' \in {"sweep", "ready"} => (wpc' = wpc /\ list' \subseteq list) \/ list' = {}
      BY <1>2 DEF CleanupReset, BackfillDone, CleanupRemove, BackfillOne
    <2>2. \A u \in Uploads : ListAt(u, f)' => ListAt(u, f)
      BY <2>1 DEF ListAt
    <2>3. \A u \in Uploads : Live(u) => Live(u)'
      BY <1>2 DEF CleanupReset, BackfillDone, CleanupRemove, BackfillOne, Live, rowVars, TypeOK
    <2> QED
      BY <1>0, <2>1, <2>2, <2>3, SamePlaces, WorkGoesOn
  <1>3. ASSUME NEW u \in Uploads, TickerConvert(u) PROVE WorkAt(f)'
    <2>1. /\ UNCHANGED <<up, adm, status>> /\ wpc = "ready" /\ u \in list
          /\ wpc' = wpc /\ list' \subseteq list
          /\ task' = [task EXCEPT ![Ticker] = NewTask(u)]
      BY <1>3 DEF TickerConvert, rowVars
    <2>2. f = fileOf[u] => Live(u)
      BY <1>0, <2>1 DEF WorkAt, ListAt
    <2>3. \A t \in Tasks : TaskAt(t, f)' => task'[t] = task[t] \/ (task'[t].u = u /\ f = fileOf[u])
      BY <2>1 DEF TaskAt, NewTask, TypeOK
    <2>4. \A t \in Tasks : TaskAt(t, f)' => \/ TaskAt(t, f) /\ task'[t].u = task[t].u
                                            \/ Live(task'[t].u)
      BY <2>2, <2>3 DEF TaskAt
    <2>5. /\ \A v \in Uploads : Live(v) => Live(v)'
          /\ \A v \in Uploads : ListAt(v, f)' => ListAt(v, f)
      BY <2>1 DEF Live, ListAt
    <2> QED
      BY <1>0, <2>1, <2>4, <2>5, SamePlaces, WorkGoesOn
  <1> QED
    BY <1>1, <1>2, <1>3 DEF WorkerStep

LEMMA WorkAdmin ==
  ASSUME SourcesKnown, TypeOK', WorkLive, race \subseteq race', NEW f \in Files \ race', NEW a \in Admins,
         AdminStep(a) \/ \E u \in Uploads : RetryCheck(a, u)
  PROVE  WorkAt(f)'
  <1> USE StoreAssumption DEF SourcesKnown, RowsKnown, Types
  <1>0. WorkAt(f)
    BY DEF WorkLive
  <1>1. ASSUME NEW u \in Uploads, RetryCheck(a, u) PROVE WorkAt(f)'
    <2>1. /\ UNCHANGED <<up, task, wpc, list, status>> /\ Live(u)
          /\ \A b \in Admins : adm'[b] = IF b = a THEN [pc |-> "retryRemove", u |-> u] ELSE adm[b]
      BY <1>1 DEF RetryCheck, rowVars, Live, TypeOK
    <2>2. \A b \in Admins : AdminAt(b, f)' => (adm'[b] = adm[b] /\ AdminAt(b, f)) \/ Live(adm'[b].u)
      BY <2>1 DEF AdminAt
    <2>3. \A v \in Uploads : Live(v) => Live(v)'
      BY <2>1 DEF Live
    <2> QED
      BY <1>0, <2>1, <2>2, <2>3, SamePlaces, WorkGoesOn
  <1>2. CASE RetryReset(a)
    <2>1. PICK u \in Uploads :
            /\ u = adm[a].u /\ adm[a].pc = "retryReset" /\ UNCHANGED <<up, wpc, list>>
            /\ status' = SetStatus(u, "pending")
            /\ UNCHANGED task \/ task' = [task EXCEPT ![u] = NewTask(u)]
            /\ \A b \in Admins : adm'[b] = IF b = a THEN NoAdmin ELSE adm[b]
      BY <1>2 DEF RetryReset, Trigger, TypeOK
    <2>2. f = fileOf[u] => Live(u)
      BY <1>0, <2>1 DEF WorkAt, AdminAt
    <2>3. \A t \in Tasks : TaskAt(t, f)' => task'[t] = task[t] \/ (task'[t].u = u /\ f = fileOf[u])
      BY <2>1 DEF TaskAt, NewTask, TypeOK
    <2>4. \A t \in Tasks : TaskAt(t, f)' => \/ TaskAt(t, f) /\ task'[t].u = task[t].u
                                            \/ Live(task'[t].u)
      BY <2>2, <2>3 DEF TaskAt
    <2>5. \A b \in Admins : AdminAt(b, f)' => adm'[b] = adm[b] /\ AdminAt(b, f)
      BY <2>1 DEF AdminAt, NoAdmin
    <2>6. \A v \in Uploads : Live(v) => Live(v)'
      BY <2>1, StatusSet DEF Statuses
    <2> QED
      BY <1>0, <2>1, <2>4, <2>5, <2>6, SamePlaces, WorkGoesOn
  <1>3. CASE RetryRemove(a) \/ RetryResetFails(a) \/ DeleteJson(a) \/ DeleteDir(a)
    <2>1. UNCHANGED <<up, task, wpc, list, status>>
      BY <1>3 DEF RetryRemove, RetryResetFails, DeleteJson, DeleteDir, rowVars
    <2>2. \A b \in Admins :
            AdminAt(b, f)' /\ adm'[b].pc \in {"retryRemove", "retryReset"} =>
                /\ AdminAt(b, f) /\ adm[b].pc \in {"retryRemove", "retryReset"}
                /\ adm'[b].u = adm[b].u
      <3>1. CASE RetryRemove(a)
        BY <3>1 DEF RetryRemove, AdminAt, TypeOK
      <3>2. CASE RetryResetFails(a) \/ DeleteDir(a)
        BY <3>2 DEF RetryResetFails, DeleteDir, AdminAt, NoAdmin, TypeOK
      <3>3. CASE DeleteJson(a)
        BY <3>3 DEF DeleteJson, AdminAt, TypeOK
      <3> QED
        BY <1>3, <3>1, <3>2, <3>3
    <2>3. \A v \in Uploads : Live(v) => Live(v)'
      BY <2>1 DEF Live
    <2> QED
      BY <1>0, <2>1, <2>2, <2>3, SamePlaces, WorkGoesOn
  <1> QED
    BY <1>1, <1>2, <1>3 DEF AdminStep

LEMMA WorkNext == SourcesKnown /\ WorkLive /\ [Next]_vars => WorkLive'
  <1> SUFFICES ASSUME SourcesKnown, WorkLive, [Next]_vars, NEW f \in Files \ race' PROVE WorkAt(f)'
    BY DEF WorkLive
  <1>0. TypeOK' /\ race \subseteq race' /\ WorkAt(f) /\ TypeOK
    BY RowsKnownNext, RaceGrows DEF SourcesKnown, RowsKnown, Types, WorkLive
  <1>1. ASSUME NEW u \in Uploads,
               UploadCreate(u) \/ UploadStep(u) \/ UploadAbort(u) \/ UploadStoreFails(u)
        PROVE  WorkAt(f)'
    BY <1>0, <1>1, WorkUpload
  <1>2. ASSUME NEW t \in Tasks, TaskStep(t) \/ ConvertError(t) PROVE WorkAt(f)'
    <2>1. /\ \A q \in Tasks : TaskAt(q, f)' => TaskAt(q, f) /\ task'[q].u = task[q].u
          /\ UNCHANGED <<up, adm, wpc, list>>
      BY <1>2, TaskGoesOn DEF TaskAt, SourcesKnown, RowsKnown
    <2>2. /\ \A a \in Admins, u \in Uploads : ~DeleteRow(a, u)
          /\ \A u \in Uploads : ~UploadStore(u)
      <3>1. \A u \in Uploads : UploadStore(u) => up' # up
        BY <1>0 DEF UploadStore, TypeOK
      <3>2. \A a \in Admins, u \in Uploads : DeleteRow(a, u) => adm' # adm
        BY <1>0 DEF DeleteRow, TypeOK
      <3> QED
        BY <2>1, <3>1, <3>2
    <2>3. \A v \in Uploads : Live(v) => Live(v)'
      BY <2>2, LiveKept DEF SourcesKnown, RowsKnown
    <2> QED
      BY <1>0, <2>1, <2>3, SamePlaces, WorkGoesOn
  <1>3. CASE WorkerStep
    BY <1>0, <1>3, WorkWorker
  <1>4. ASSUME NEW a \in Admins, AdminStep(a) \/ \E u \in Uploads : RetryCheck(a, u) PROVE WorkAt(f)'
    BY <1>0, <1>4, WorkAdmin
  <1>5. ASSUME NEW a \in Admins, NEW u \in Uploads, DeleteRow(a, u) PROVE WorkAt(f)'
    BY <1>0, <1>5, WorkDelete
  <1>6. CASE CrashAndRestart
    BY <1>6 DEF CrashAndRestart, WorkAt, TaskAt, AdminAt, ListAt, Uploading, NoTask, NoAdmin
  <1>7. CASE UNCHANGED vars
    <2>1. UNCHANGED <<status, up, task, adm, wpc, list>>
      BY <1>7 DEF vars, rowVars, procVars
    <2>2. \A v \in Uploads : Live(v) => Live(v)'
      BY <2>1 DEF Live
    <2> QED
      BY <1>0, <2>1, <2>2, SamePlaces, WorkGoesOn
  <1> QED
    BY <1>1, <1>2, <1>3, <1>4, <1>5, <1>6, <1>7 DEF Next

\* Only a conversion makes a directory.
LEMMA HereBegins ==
  ASSUME Types, [Next]_vars, NEW f \in Files, dir'[f].here
  PROVE  dir[f].here \/ \E t \in Tasks : TaskAt(t, f)
  <1> USE StoreAssumption DEF Types
  <1>1. ASSUME NEW u \in Uploads,
               UploadCreate(u) \/ UploadStep(u) \/ UploadAbort(u) \/ UploadStoreFails(u)
        PROVE  dir[f].here
    <2>1. CASE UploadDropDir(u)
      BY <2>1 DEF UploadDropDir, NoDir, TypeOK
    <2>2. CASE UNCHANGED dir
      BY <2>2
    <2> QED
      BY <1>1, <2>1, <2>2
         DEF UploadStep, UploadCreate, UploadWrite, UploadRename, UploadStore, UploadFinish, UploadAbort,
             UploadStoreFails, fileVars
  <1>2. ASSUME NEW t \in Tasks, TaskStep(t) \/ ConvertError(t)
        PROVE  dir[f].here \/ TaskAt(t, f)
    <2>1. f # fileOf[task[t].u] => dir'[f] = dir[f]
      BY <1>2, TaskReach
    <2> QED
      BY <1>2, <2>1, TaskGoesOn DEF TaskAt
  <1>3. CASE WorkerStep
    <2>1. UNCHANGED dir \/ \E u \in Uploads : dir' = [dir EXCEPT ![fileOf[u]] = NoDir]
      BY <1>3 DEF WorkerStep, CleanupSelect, CleanupRemove, CleanupReset, BackfillOne, BackfillDone,
                  TickerSelect, TickerConvert, fileVars
    <2> QED
      BY <2>1 DEF NoDir, TypeOK
  <1>4. ASSUME NEW a \in Admins,
               AdminStep(a) \/ \E u \in Uploads : RetryCheck(a, u) \/ DeleteRow(a, u)
        PROVE  dir[f].here
    <2>1. UNCHANGED dir \/ dir' = [dir EXCEPT ![fileOf[adm[a].u]] = NoDir]
      BY <1>4 DEF AdminStep, RetryRemove, RetryReset, RetryResetFails, DeleteJson, DeleteDir, RetryCheck,
                  DeleteRow, fileVars
    <2> QED
      BY <2>1 DEF NoDir, TypeOK
  <1>5. CrashAndRestart \/ UNCHANGED vars => UNCHANGED dir
    BY DEF CrashAndRestart, vars, fileVars
  <1> QED
    BY <1>1, <1>2, <1>3, <1>4, <1>5 DEF Next

\* A request that deletes a row goes on to remove the directory.
LEMMA DeleterGoesOn ==
  ASSUME Types, [Next]_vars, ~CrashAndRestart, NEW a \in Admins, adm[a].pc \in {"deleteJson", "deleteDir"}
  PROVE  \/ adm'[a].pc \in {"deleteJson", "deleteDir"} /\ adm'[a].u = adm[a].u
         \/ DeleteDir(a)
  <1> USE DEF Types
  <1>1. ASSUME NEW u \in Uploads,
               UploadCreate(u) \/ UploadStep(u) \/ UploadAbort(u) \/ UploadStoreFails(u)
        PROVE  UNCHANGED adm
    BY <1>1 DEF UploadStep, UploadCreate, UploadWrite, UploadAbort, UploadRename, UploadStore,
                UploadStoreFails, UploadDropDir, UploadFinish
  <1>2. ASSUME NEW t \in Tasks, TaskStep(t) \/ ConvertError(t) PROVE UNCHANGED adm
    BY <1>2, TaskGoesOn
  <1>3. WorkerStep => UNCHANGED adm
    BY DEF WorkerStep, CleanupSelect, CleanupRemove, CleanupReset, BackfillOne, BackfillDone, TickerSelect,
           TickerConvert
  <1>4. ASSUME NEW b \in Admins,
               AdminStep(b) \/ \E u \in Uploads : RetryCheck(b, u) \/ DeleteRow(b, u)
        PROVE  b # a => adm'[a] = adm[a]
    <2>1. CASE RetryRemove(b) \/ DeleteJson(b) \/ DeleteDir(b)
      BY <2>1 DEF RetryRemove, DeleteJson, DeleteDir, TypeOK
    <2>2. CASE RetryReset(b) \/ RetryResetFails(b)
      BY <2>2 DEF RetryReset, RetryResetFails, TypeOK
    <2>3. CASE \E u \in Uploads : RetryCheck(b, u) \/ DeleteRow(b, u)
      BY <2>3 DEF RetryCheck, DeleteRow, TypeOK
    <2> QED
      BY <1>4, <2>1, <2>2, <2>3 DEF AdminStep
  <1>5. AdminStep(a) => (adm'[a].pc = "deleteDir" /\ adm'[a].u = adm[a].u) \/ DeleteDir(a)
    <2>1. DeleteJson(a) => adm'[a].pc = "deleteDir" /\ adm'[a].u = adm[a].u
      BY DEF DeleteJson, TypeOK
    <2>2. ~RetryRemove(a) /\ ~RetryReset(a) /\ ~RetryResetFails(a)
      BY DEF RetryRemove, RetryReset, RetryResetFails
    <2> QED
      BY <2>1, <2>2 DEF AdminStep
  <1>6. \A u \in Uploads : ~RetryCheck(a, u) /\ ~DeleteRow(a, u)
    BY DEF RetryCheck, DeleteRow
  <1>7. UNCHANGED vars => UNCHANGED adm
    BY DEF vars, procVars
  <1> QED
    BY <1>1, <1>2, <1>3, <1>4, <1>5, <1>6, <1>7 DEF Next

LEMMA DirsKeptNext ==
  ASSUME SourcesKnown, OrphansInv, [Next]_vars
  PROVE  DirsKept'
  <1> USE StoreAssumption DEF SourcesKnown, RowsKnown, Types, OrphansInv
  <1> SUFFICES ASSUME NEW f \in Files, f \notin race', dir'[f].here, crashes' = 0 PROVE Claimant(f)'
    BY DEF DirsKept
  <1>1. ~CrashAndRestart /\ crashes = 0 /\ f \notin race
    <2>1. CrashAndRestart => crashes' # 0
      BY DEF CrashAndRestart, TypeOK
    <2>2. ~CrashAndRestart => UNCHANGED crashes
      <3>1. ASSUME NEW u \in Uploads,
                   UploadCreate(u) \/ UploadStep(u) \/ UploadAbort(u) \/ UploadStoreFails(u)
            PROVE  UNCHANGED crashes
        BY <3>1 DEF UploadStep, UploadCreate, UploadWrite, UploadAbort, UploadRename, UploadStore,
                    UploadStoreFails, UploadDropDir, UploadFinish, envVars
      <3>2. ASSUME NEW t \in Tasks, TaskStep(t) \/ ConvertError(t) PROVE UNCHANGED crashes
        BY <3>2 DEF TaskStep, MarkConverting, OpenJson, BucketPositions, AssembleChunks, WriteManifest,
                    RecordStats, SetProtobuf, Finish, ConvertError, envVars
      <3>3. WorkerStep => UNCHANGED crashes
        BY DEF WorkerStep, CleanupSelect, CleanupRemove, CleanupReset, BackfillOne, BackfillDone,
               TickerSelect, TickerConvert, envVars
      <3>4. ASSUME NEW a \in Admins,
                   AdminStep(a) \/ \E u \in Uploads : RetryCheck(a, u) \/ DeleteRow(a, u)
            PROVE  UNCHANGED crashes
        BY <3>4 DEF AdminStep, RetryRemove, RetryReset, RetryResetFails, DeleteJson, DeleteDir, RetryCheck,
                    DeleteRow, envVars
      <3>5. UNCHANGED vars => UNCHANGED crashes
        BY DEF vars, envVars
      <3> QED
        BY <3>1, <3>2, <3>3, <3>4, <3>5 DEF Next
    <2> QED
      BY <2>1, <2>2, RaceGrows
  <1>2. Claimant(f)
    <2>1. CASE dir[f].here
      BY <1>1, <2>1 DEF DirsKept
    <2>2. ASSUME NEW t \in Tasks, TaskAt(t, f) PROVE Claimant(f)
      <3>1. Live(task[t].u) /\ task[t].u \in Uploads /\ fileOf[task[t].u] = f
        BY <1>1, <2>2 DEF WorkLive, WorkAt, TaskAt, TypeOK
      <3> QED
        BY <3>1 DEF Claimant
    <2> QED
      BY <2>1, <2>2, HereBegins
  <1>3. ASSUME NEW a \in Admins, AdminAt(a, f), adm[a].pc \in {"deleteJson", "deleteDir"}
        PROVE  Claimant(f)'
    <2>1. ~DeleteDir(a)
      BY <1>3 DEF DeleteDir, AdminAt, NoDir, TypeOK
    <2>2. adm'[a].pc \in {"deleteJson", "deleteDir"} /\ adm'[a].u = adm[a].u
      BY <1>1, <1>3, <2>1, DeleterGoesOn
    <2> QED
      BY <1>3, <2>2 DEF Claimant, AdminAt
  <1>4. ASSUME NEW u \in Uploads, Live(u), fileOf[u] = f PROVE Claimant(f)'
    <2>1. CASE Live(u)'
      BY <1>4, <2>1 DEF Claimant
    <2>2. ASSUME NEW w \in Uploads, UploadStore(w) PROVE Live(u)' \/ (Live(w)' /\ fileOf[w] = f)
      BY <1>4, <2>2 DEF UploadStore, Live
    <2>3. ASSUME NEW a \in Admins, NEW v \in Uploads, DeleteRow(a, v), v = u PROVE Claimant(f)'
      <3>1. adm'[a].pc = "deleteJson" /\ adm'[a].u = u
        BY <2>3 DEF DeleteRow, TypeOK
      <3> QED
        BY <1>4, <3>1 DEF Claimant, AdminAt
    <2>4. ASSUME NEW a \in Admins, NEW v \in Uploads, DeleteRow(a, v), v # u PROVE Live(u)'
      BY <1>4, <2>4 DEF DeleteRow, Live, TypeOK
    <2>5. CASE \A w \in Uploads : ~UploadStore(w) /\ \A a \in Admins : ~DeleteRow(a, w)
      BY <1>4, <2>1, <2>5, LiveKept
    <2> QED
      BY <2>1, <2>2, <2>3, <2>4, <2>5 DEF Claimant
  <1> QED
    BY <1>2, <1>3, <1>4 DEF Claimant

LEMMA OrphansAlways == Spec => [](RowsKnown /\ OrphansInv)
  <1>1. SourcesKnown /\ OrphansInv /\ [Next]_vars => OrphansInv'
    BY WorkNext, DirsKeptNext DEF OrphansInv
  <1> QED
    BY <1>1, OrphansInit, SourcesAlways, PTL DEF Spec, SourcesKnown

\* No directory is left without a row (NoOrphanDir of the run store_replace): what
\* failed conversions, retries, replacements and deletes leave on the disk belongs
\* to a row, unless the server died in between.
THEOREM NoGarbage == Spec => []NoOrphanDir
  <1>1. RowsKnown /\ OrphansInv => NoOrphanDir
    <2> SUFFICES ASSUME OrphansInv, NEW f \in Files, dir[f].here, crashes = 0, f \notin race, ~Busy(f)
                 PROVE  \E u \in Uploads : Live(u) /\ fileOf[u] = f
      BY DEF NoOrphanDir
    <2>1. Claimant(f)
      BY DEF OrphansInv, DirsKept
    <2>2. \A a \in Admins : ~AdminAt(a, f)
      BY BusyWith
    <2> QED
      BY <2>1, <2>2 DEF Claimant
  <1> QED
    BY <1>1, OrphansAlways, PTL

(***************************************************************************)
(* The life of a recording. Nobody but a retry is at work for a failed row,*)
(* so what a step does to the status of a row is what the life allows.     *)
(***************************************************************************)
Working(f) ==
    \/ \E t \in Tasks : TaskAt(t, f)
    \/ \E u \in Uploads : ListAt(u, f)
    \/ \E u \in Uploads : up[u] \in {"stored", "dropped"} /\ fileOf[u] = f

NoneFailed(f) == \A u \in Uploads : fileOf[u] = f => status[u] # "failed"

Unfailed == \A f \in Files \ race : Working(f) => NoneFailed(f)

LEMMA UnfailedInit == Init => Unfailed
  BY DEF Init, Unfailed, NoneFailed

\* Where nothing begins and nothing fails.
LEMMA UnfailedKept ==
  ASSUME Unfailed, NEW f \in Files \ race, Working(f)' => Working(f),
         \A u \in Uploads : fileOf[u] = f /\ status'[u] = "failed" => status[u] = "failed"
  PROVE  Working(f)' => NoneFailed(f)'
  BY DEF Unfailed, NoneFailed

LEMMA UnfailedUpload ==
  ASSUME Types, Unfailed, NEW u \in Uploads,
         UploadCreate(u) \/ UploadStep(u) \/ UploadAbort(u) \/ UploadStoreFails(u),
         NEW f \in Files \ race'
  PROVE  Working(f)' => NoneFailed(f)'
  <1> USE DEF Types
  <1>0. f \in Files \ race
    BY DEF UploadStep, UploadCreate, UploadWrite, UploadAbort, UploadRename, UploadStore,
           UploadStoreFails, UploadDropDir, UploadFinish, history
  <1>1. CASE UploadStore(u)
    <2>1. /\ up' = [up EXCEPT ![u] = "stored"]
          /\ UNCHANGED <<task, adm, wpc, list>>
      BY <1>1 DEF UploadStore
    <2>2. \A v \in Uploads : IF fileOf[v] = fileOf[u] THEN status'[v] \in {"pending", "absent"}
                             ELSE status'[v] = status[v]
      BY <1>1 DEF UploadStore, Live
    <2>3. CASE f = fileOf[u]
      BY <2>2, <2>3 DEF NoneFailed
    <2>4. CASE f # fileOf[u]
      <3>1. \A v \in Uploads \ {u} : up'[v] = up[v]
        BY <2>1 DEF TypeOK
      <3>2. Working(f)' => Working(f)
        BY <2>1, <2>4, <3>1, SamePlaces DEF Working
      <3> QED
        BY <1>0, <2>2, <2>4, <3>2, UnfailedKept
    <2> QED
      BY <2>3, <2>4
  <1>2. CASE UploadFinish(u)
    <2>1. /\ up[u] = "dropped" /\ up' = [up EXCEPT ![u] = "done"]
          /\ UNCHANGED <<adm, wpc, list>>
          /\ task' = [task EXCEPT ![u] = NewTask(u)] \/ UNCHANGED task
          /\ status' = SetStatus(u, "completed") \/ UNCHANGED status
      BY <1>2 DEF UploadFinish, Trigger
    <2>2. \A v \in Uploads : up'[v] = IF v = u THEN "done" ELSE up[v]
      BY <2>1 DEF TypeOK
    <2>3. \A t \in Tasks : TaskAt(t, f)' => TaskAt(t, f) \/ f = fileOf[u]
      <3>1. u \in Tasks
        BY DEF Tasks
      <3> QED
        BY <2>1, <3>1, SamePlaces, TaskBegins
    <2>4. Working(f)' => Working(f)
      BY <2>1, <2>2, <2>3, SamePlaces DEF Working
    <2>5. \A v \in Uploads : status'[v] = "failed" => status[v] = "failed"
      BY <2>1, SetStatusAt DEF Statuses
    <2> QED
      BY <1>0, <2>4, <2>5, UnfailedKept
  <1>3. CASE \/ UploadCreate(u) \/ UploadWrite(u) \/ UploadAbort(u) \/ UploadRename(u)
             \/ UploadDropDir(u) \/ UploadStoreFails(u)
    <2>1. UNCHANGED <<status, task, adm, wpc, list>>
      BY <1>3 DEF UploadCreate, UploadWrite, UploadAbort, UploadRename, UploadDropDir, UploadStoreFails,
                  rowVars
    <2>2. \A v \in Uploads : up'[v] \in {"stored", "dropped"} => up[v] \in {"stored", "dropped"}
      BY <1>3 DEF UploadCreate, UploadWrite, UploadAbort, UploadRename, UploadDropDir, UploadStoreFails,
                  TypeOK
    <2>3. Working(f)' => Working(f)
      BY <2>1, <2>2, SamePlaces DEF Working
    <2> QED
      BY <1>0, <2>1, <2>3, UnfailedKept
  <1> QED
    BY <1>1, <1>2, <1>3 DEF UploadStep

LEMMA UnfailedTask ==
  ASSUME Types, Alone, Unfailed, NEW t \in Tasks, TaskStep(t) \/ ConvertError(t),
         NEW f \in Files \ race'
  PROVE  Working(f)' => NoneFailed(f)'
  <1> USE DEF Types
  <1> DEFINE u == task[t].u
  <1>1. /\ \A q \in Tasks \ {t} : task'[q] = task[q]
        /\ task'[t].pc # "idle" => task'[t].u = u
        /\ task[t].pc # "idle" /\ u \in Uploads
        /\ UNCHANGED <<up, adm, wpc, list, race>>
    BY TaskGoesOn DEF TypeOK
  <1>2. f \in Files \ race /\ AloneAt(f)
    BY <1>1 DEF Alone
  <1>3. Working(f)' => Working(f)
    BY <1>1, SamePlaces DEF Working, TaskAt
  <1>4. CASE Finish(t)
    <2>1. \A v \in Uploads \ {u} : status'[v] = status[v]
      BY <1>1, <1>4, SetStatusAt DEF Finish, Statuses
    <2>2. CASE f = fileOf[u]
      <3>1. TaskAt(t, f)
        BY <1>1, <2>2 DEF TaskAt
      <3>2. \A q \in Tasks : ~TaskAt(q, f)'
        <4>1. task'[t] = NoTask
          BY <1>4 DEF Finish, TypeOK
        <4> QED
          BY <1>1, <1>2, <3>1, <4>1 DEF AloneAt, TaskAt, NoTask
      <3> QED
        BY <1>1, <1>2, <3>1, <3>2, SamePlaces DEF Working, AloneAt, UploadAt, Uploading
    <2>3. CASE f # fileOf[u]
      BY <1>2, <1>3, <2>1, <2>3, UnfailedKept
    <2> QED
      BY <2>2, <2>3
  <1>5. CASE MarkConverting(t)
    <2>1. \A v \in Uploads : status'[v] = "failed" => status[v] = "failed"
      BY <1>1, <1>5, SetStatusAt DEF MarkConverting, Statuses
    <2> QED
      BY <1>2, <1>3, <2>1, UnfailedKept
  <1>6. CASE UNCHANGED status
    BY <1>2, <1>3, <1>6, UnfailedKept
  <1>7. TaskStep(t) \/ ConvertError(t) => Finish(t) \/ MarkConverting(t) \/ UNCHANGED status
    BY DEF TaskStep, OpenJson, BucketPositions, AssembleChunks, WriteManifest, RecordStats, SetProtobuf,
           ConvertError, rowVars
  <1> QED
    BY <1>4, <1>5, <1>6, <1>7

\* The worker goroutine selects rows that have not failed.
LEMMA UnfailedSelect ==
  ASSUME Types, RowsInv, Unfailed, NEW S, NEW s \in Statuses \ {"failed"},
         S \subseteq RowsWith(s),
         UNCHANGED <<status, up, task, adm>>, list' = S, NEW f \in Files \ race
  PROVE  Working(f)' => NoneFailed(f)'
  <1>1. CASE \E u \in S : fileOf[u] = f
    <2>1. PICK u \in S : fileOf[u] = f
      BY <1>1
    <2>2. u \in Uploads /\ status[u] = s /\ Live(u)
      BY <2>1 DEF RowsWith, Live, Statuses
    <2> QED
      BY <2>1, <2>2 DEF NoneFailed, RowsInv, UniqueFilename, Live
  <1>2. CASE ~\E u \in S : fileOf[u] = f
    <2>1. \A u \in Uploads : ~ListAt(u, f)'
      BY <1>2 DEF ListAt
    <2>2. Working(f)' => Working(f)
      BY <2>1, SamePlaces DEF Working
    <2> QED
      BY <2>2, UnfailedKept
  <1> QED
    BY <1>1, <1>2

LEMMA UnfailedWorker ==
  ASSUME Types, RowsInv, Unfailed, WorkerStep, NEW f \in Files \ race'
  PROVE  Working(f)' => NoneFailed(f)'
  <1> USE DEF Types
  <1>0. f \in Files \ race
    BY DEF WorkerStep, CleanupSelect, CleanupRemove, CleanupReset, BackfillOne, BackfillDone, TickerSelect,
           TickerConvert, history
  <1>1. CASE CleanupSelect
    BY <1>0, <1>1, UnfailedSelect DEF CleanupSelect, Statuses, rowVars
  <1>2. CASE TickerSelect
    <2>1. SelectPending(BatchSize) \subseteq RowsWith("pending")
      BY DEF SelectPending
    <2> QED
      BY <1>0, <1>2, <2>1, UnfailedSelect DEF TickerSelect, Statuses, rowVars
  <1>3. CASE CleanupReset \/ BackfillDone \/ \E u \in Uploads : CleanupRemove(u) \/ BackfillOne(u)
    <2>1. /\ UNCHANGED <<up, task, adm>>
          /\ wpc' \in {"sweep", "ready"} => (wpc' = wpc /\ list' \subseteq list) \/ list' = {}
      BY <1>3 DEF CleanupReset, BackfillDone, CleanupRemove, BackfillOne
    <2>2. \A u \in Uploads : status'[u] = "failed" => status[u] = "failed"
      BY <1>3 DEF CleanupReset, BackfillDone, CleanupRemove, BackfillOne, rowVars
    <2>3. Working(f)' => Working(f)
      BY <2>1, SamePlaces DEF Working, ListAt
    <2> QED
      BY <1>0, <2>2, <2>3, UnfailedKept
  <1>4. ASSUME NEW u \in Uploads, TickerConvert(u)
        PROVE  Working(f)' => NoneFailed(f)'
    <2>1. /\ UNCHANGED <<status, up, adm, wpc>> /\ wpc = "ready" /\ u \in list /\ list' = list \ {u}
          /\ Ticker \in Tasks /\ task' = [task EXCEPT ![Ticker] = NewTask(u)]
      BY <1>4 DEF TickerConvert, Tasks, rowVars
    <2>2. \A t \in Tasks : TaskAt(t, f)' => TaskAt(t, f) \/ ListAt(u, f)
      BY <2>1, TaskBegins DEF ListAt
    <2>3. Working(f)' => Working(f)
      BY <2>1, <2>2, SamePlaces DEF Working, ListAt
    <2> QED
      BY <1>0, <2>1, <2>3, UnfailedKept
  <1> QED
    BY <1>1, <1>2, <1>3, <1>4 DEF WorkerStep

\* A retry hands its row, which is the only one of its filename, over as pending.
LEMMA UnfailedAdmin ==
  ASSUME Types, RowsInv, WorkLive, Unfailed, NEW a \in Admins,
         AdminStep(a) \/ \E u \in Uploads : RetryCheck(a, u) \/ DeleteRow(a, u),
         NEW f \in Files \ race'
  PROVE  Working(f)' => NoneFailed(f)'
  <1> USE DEF Types
  <1>0. f \in Files \ race
    BY DEF AdminStep, RetryRemove, RetryReset, RetryResetFails, DeleteJson, DeleteDir, RetryCheck,
           DeleteRow, history
  <1>1. CASE RetryReset(a)
    <2> DEFINE u == adm[a].u
    <2>1. /\ UNCHANGED <<up, wpc, list>> /\ adm[a].pc = "retryReset"
          /\ task' = task \/ task' = [task EXCEPT ![u] = NewTask(u)]
          /\ u \in Uploads /\ u \in Tasks /\ status' = SetStatus(u, "pending")
      BY <1>1 DEF RetryReset, Trigger, TypeOK, Tasks
    <2>2. /\ \A v \in Uploads \ {u} : status'[v] = status[v]
          /\ status'[u] # "failed"
      BY <2>1, SetStatusAt DEF Statuses
    <2>3. CASE f = fileOf[u]
      <3>1. Live(u)
        BY <1>0, <2>1, <2>3 DEF WorkLive, WorkAt, AdminAt
      <3> QED
        BY <2>1, <2>2, <2>3, <3>1 DEF NoneFailed, RowsInv, UniqueFilename, Live
    <2>4. CASE f # fileOf[u]
      <3>1. \A t \in Tasks : TaskAt(t, f)' => TaskAt(t, f)
        BY <2>1, <2>4, SamePlaces, TaskBegins
      <3>2. Working(f)' => Working(f)
        BY <2>1, <3>1, SamePlaces DEF Working
      <3> QED
        BY <1>0, <2>1, <2>2, <3>2, UnfailedKept
    <2> QED
      BY <2>3, <2>4
  <1>2. CASE \/ RetryRemove(a) \/ RetryResetFails(a) \/ DeleteJson(a) \/ DeleteDir(a)
             \/ \E u \in Uploads : RetryCheck(a, u) \/ DeleteRow(a, u)
    <2>1. UNCHANGED <<up, task, wpc, list>>
      BY <1>2 DEF RetryRemove, RetryResetFails, DeleteJson, DeleteDir, RetryCheck, DeleteRow
    <2>2. \A u \in Uploads : status'[u] = "failed" => status[u] = "failed"
      BY <1>2 DEF RetryRemove, RetryResetFails, DeleteJson, DeleteDir, RetryCheck, DeleteRow, TypeOK, rowVars
    <2>3. Working(f)' => Working(f)
      BY <2>1, SamePlaces DEF Working
    <2> QED
      BY <1>0, <2>2, <2>3, UnfailedKept
  <1> QED
    BY <1>1, <1>2 DEF AdminStep

LEMMA UnfailedNext ==
  ASSUME RowsKnown, WorkLive, Unfailed, [Next]_vars
  PROVE  Unfailed'
  <1> SUFFICES ASSUME NEW f \in Files \ race', Working(f)'
               PROVE  NoneFailed(f)'
    BY DEF Unfailed
  <1> USE DEF RowsKnown
  <1>1. ASSUME NEW u \in Uploads,
               UploadCreate(u) \/ UploadStep(u) \/ UploadAbort(u) \/ UploadStoreFails(u)
        PROVE  NoneFailed(f)'
    BY <1>1, UnfailedUpload
  <1>2. ASSUME NEW t \in Tasks, TaskStep(t) \/ ConvertError(t) PROVE NoneFailed(f)'
    BY <1>2, UnfailedTask
  <1>3. CASE WorkerStep
    BY <1>3, UnfailedWorker
  <1>4. ASSUME NEW a \in Admins,
               AdminStep(a) \/ \E u \in Uploads : RetryCheck(a, u) \/ DeleteRow(a, u)
        PROVE  NoneFailed(f)'
    BY <1>4, UnfailedAdmin
  <1>5. CASE CrashAndRestart
    BY <1>5 DEF CrashAndRestart, Working, TaskAt, ListAt, Uploading, NoTask
  <1>6. CASE UNCHANGED vars
    <2>1. UNCHANGED <<status, up, task, adm, wpc, list, race>>
      BY <1>6 DEF vars, rowVars, procVars, history
    <2> QED
      BY <2>1, SamePlaces DEF Unfailed, Working, NoneFailed
  <1> QED
    BY <1>1, <1>2, <1>3, <1>4, <1>5, <1>6 DEF Next

\* What is known of a life: nobody works for a failed row, retries have a row,
\* what is stored can be played, and no row is without its source.
LifeInv == RowsKnown /\ WorkLive /\ Unfailed /\ SourceKept /\ Playable

LEMMA LifeAlways == Spec => []LifeInv
  <1>1. RowsKnown /\ WorkLive /\ Unfailed /\ [Next]_vars => Unfailed'
    BY UnfailedNext
  <1>2. RowsKnown /\ OrphansInv => RowsKnown /\ WorkLive
    BY DEF OrphansInv
  <1> QED
    BY <1>1, <1>2, UnfailedInit, OrphansAlways, SourceNeverLost, CompletedPlays, PTL DEF Spec, LifeInv

\* Of a row that plays, its status says all.
LEMMA LifeIsStanding ==
  ASSUME LifeInv, LifeInv', NEW u \in Uploads
  PROVE  LifeOf(u) = Standing(u) /\ LifeOf(u)' = Standing(u)'
  <1>1. Live(u) /\ fileOf[u] \notin race => Sound(u)
    BY DEF LifeInv, SourceKept, Playable, RowsWith, Sound
  <1>2. (Live(u) /\ fileOf[u] \notin race => Sound(u))'
    BY DEF LifeInv, SourceKept, Playable, RowsWith, Sound
  <1> QED
    BY <1>1, <1>2 DEF LifeOf

\* What a status says.
LEMMA StandingOf ==
  ASSUME TypeOK, NEW u \in Uploads
  PROVE  /\ Standing(u) \in Life!Stored <=> Live(u)
         /\ Standing(u) = "unknown" <=> ~Live(u) /\ rowId[u] = 0
         /\ Standing(u) = "gone" <=> ~Live(u) /\ rowId[u] # 0
         /\ Standing(u) = "waiting" <=> status[u] \in {"pending", "converting"}
         /\ Standing(u) = "playable" <=> status[u] = "completed"
         /\ Standing(u) = "failed" <=> status[u] = "failed"
  BY DEF Standing, TypeOK, Statuses, Live, Life!Stored

\* A replacement.
LEMMA LifePut ==
  ASSUME LifeInv, LifeInv', NEW u \in Uploads, UploadStore(u)
  PROVE  Life!Put(u)
  <1> USE StoreAssumption DEF LifeInv, RowsKnown, Types
  <1>1. /\ ~Live(u) /\ rowId[u] = 0 /\ UNCHANGED race
        /\ \A v \in Uploads : rowId'[v] = IF v = u THEN nextId ELSE rowId[v]
        /\ \A v \in Uploads : status'[v] = IF v = u THEN "pending"
                                           ELSE IF Live(v) /\ fileOf[v] = fileOf[u] THEN "absent" ELSE status[v]
    BY DEF UploadStore, RowsInv, StoredOnce, LiveStored, TypeOK, history
  <1>2. \A v \in Uploads : Live(v) => rowId[v] # 0
    BY DEF LiveStored
  <1>3. \A v \in Uploads :
            Standing(v)' = IF v = u THEN "waiting"
                           ELSE IF fileOf[v] = fileOf[u] /\ Standing(v) \in Life!Stored THEN "gone" ELSE Standing(v)
    <2> TAKE v \in Uploads
    <2>1. CASE v = u
      BY <1>1, <2>1 DEF Standing
    <2>2. CASE v # u /\ fileOf[v] = fileOf[u] /\ Live(v)
      BY <1>1, <1>2, <2>2, StandingOf DEF Standing
    <2>3. CASE v # u /\ ~(fileOf[v] = fileOf[u] /\ Live(v))
      <3>1. Standing(v)' = Standing(v)
        BY <1>1, <2>3 DEF Standing
      <3> QED
        BY <2>3, <3>1, StandingOf
    <2> QED
      BY <2>1, <2>2, <2>3
  <1>4. Standing(u) = "unknown"
    BY <1>1, StandingOf
  <1>5. \A v \in Uploads : LifeOf(v) = Standing(v) /\ LifeOf(v)' = Standing(v)'
    BY LifeIsStanding
  <1> QED
    BY <1>1, <1>3, <1>4, <1>5 DEF Life!Put

\* A step that gives one row another status, by its id.
LEMMA LifeSet ==
  ASSUME LifeInv, LifeInv', NEW u \in Uploads, NEW s \in Statuses,
         status' = SetStatus(u, s), UNCHANGED <<rowId, race>>,
         \/ fileOf[u] \in race
         \/ status[u] \in {"pending", "converting", "absent"}
         \/ s = "pending" /\ status[u] # "completed"
  PROVE  Life!Next \/ \A v \in Uploads : LifeOf(v)' = LifeOf(v)
  <1> USE StoreAssumption DEF LifeInv, RowsKnown, Types
  <1>1. \A v \in Uploads \ {u} : status'[v] = status[v]
    BY SetStatusAt
  <1>2. \A v \in Uploads : LifeOf(v) = Standing(v) /\ LifeOf(v)' = Standing(v)'
    BY LifeIsStanding
  <1>3. \A v \in Uploads \ {u} : LifeOf(v)' = LifeOf(v)
    BY <1>1, <1>2 DEF Standing
  <1>4. CASE ~Live(u)
    <2>1. status'[u] = status[u]
      BY <1>4 DEF SetStatus
    <2> QED
      BY <1>2, <1>3, <2>1 DEF Standing
  <1>5. CASE Live(u)
    <2>1. status'[u] = s
      BY <1>5, SetStatusAt DEF Live
    <2>2. /\ LifeOf(u)' \in Life!Stored
          /\ LifeOf(u)' = "waiting" <=> s \in {"pending", "converting"}
      BY <1>2, <2>1 DEF Standing, Statuses, Life!Stored
    <2>3. /\ LifeOf(u) \in Life!Stored
          /\ LifeOf(u) = "waiting" <=> status[u] \in {"pending", "converting"}
          /\ LifeOf(u) = "failed" <=> status[u] = "failed"
      BY <1>2, <1>5, StandingOf
    <2> DEFINE l == [v \in Uploads |-> LifeOf(v)]
    <2>4. [v \in Uploads |-> LifeOf(v)'] = [l EXCEPT ![u] = LifeOf(u)']
      BY <1>3
    <2>5. CASE fileOf[u] \in race
      <3>1. Life!Stray(u)
        BY <2>2, <2>3, <2>4, <2>5 DEF Life!Stray
      <3> QED
        BY <3>1 DEF Life!Next
    <2>6. CASE LifeOf(u)' = LifeOf(u)
      BY <1>3, <2>6
    <2>7. CASE LifeOf(u) = "waiting" /\ LifeOf(u)' # "waiting"
      <3>1. Life!End(u)
        BY <2>2, <2>4, <2>7 DEF Life!End, Life!Stored
      <3> QED
        BY <3>1 DEF Life!Next
    <2>8. CASE LifeOf(u) = "failed" /\ LifeOf(u)' = "waiting"
      <3>1. Life!Retry({u})
        BY <1>3, <2>8 DEF Life!Retry
      <3> QED
        BY <3>1 DEF Life!Next
    <2>9. status[u] \in Statuses
      BY <1>5 DEF TypeOK, Live
    <2> QED
      BY <1>5, <2>2, <2>3, <2>5, <2>6, <2>7, <2>8, <2>9 DEF Live, Statuses
  <1> QED
    BY <1>4, <1>5

\* A step that changes no row; whom it makes meet, it makes.
LEMMA LifeSame ==
  ASSUME LifeInv, LifeInv', UNCHANGED <<status, rowId>>, race \subseteq race'
  PROVE  Life!Next
  <1>1. \A v \in Uploads : LifeOf(v)' = LifeOf(v)
    BY LifeIsStanding DEF LifeInv, Standing
  <1>2. race' \subseteq Files
    BY DEF LifeInv, RowsKnown, Types, TypeOK
  <1>3. Life!Meet
    BY <1>1, <1>2 DEF Life!Meet
  <1> QED
    BY <1>3 DEF Life!Next

LEMMA LifeDelete ==
  ASSUME LifeInv, LifeInv', NEW a \in Admins, NEW u \in Uploads, DeleteRow(a, u)
  PROVE  Life!Remove(u)
  <1> USE StoreAssumption DEF LifeInv, RowsKnown, Types
  <1>1. /\ Live(u) /\ rowId[u] # 0 /\ UNCHANGED rowId
        /\ \A v \in Uploads : status'[v] = IF v = u THEN "absent" ELSE status[v]
        /\ race' \in {race, race \cup {fileOf[u]}}
    BY DEF DeleteRow, LiveStored, TypeOK, BusyOnes
  <1>2. \A v \in Uploads : LifeOf(v) = Standing(v) /\ LifeOf(v)' = Standing(v)'
    BY LifeIsStanding
  <1>3. \A v \in Uploads : LifeOf(v)' = IF v = u THEN "gone" ELSE LifeOf(v)
    BY <1>1, <1>2 DEF Standing
  <1>4. LifeOf(u) \in Life!Stored
    BY <1>1, <1>2, StandingOf
  <1> QED
    BY <1>1, <1>3, <1>4 DEF Life!Remove

\* A start of the server makes failed recordings wait again.
LEMMA LifeReset ==
  ASSUME LifeInv, LifeInv', CleanupReset
  PROVE  Life!Next
  <1> USE StoreAssumption DEF LifeInv, RowsKnown, Types
  <1> DEFINE S == {u \in Uploads : RetryFailed /\ status[u] = "failed"}
  <1>1. /\ UNCHANGED <<rowId, race>>
        /\ \A v \in Uploads : status'[v] = IF status[v] = "converting" \/ v \in S THEN "pending" ELSE status[v]
    BY DEF CleanupReset, history
  <1>2. \A v \in Uploads : LifeOf(v) = Standing(v) /\ LifeOf(v)' = Standing(v)'
    BY LifeIsStanding
  <1>3. \A v \in Uploads : LifeOf(v)' = IF v \in S THEN "waiting" ELSE LifeOf(v)
    BY <1>1, <1>2 DEF Standing
  <1>4. \A v \in S : LifeOf(v) = "failed"
    BY <1>2 DEF Standing
  <1>5. [v \in Uploads |-> LifeOf(v)'] = [v \in Uploads |-> IF v \in S THEN "waiting" ELSE LifeOf(v)]
    BY <1>3
  <1>6. S \subseteq Uploads
    BY DEF S
  <1> HIDE DEF S
  <1>7. Life!Retry(S)
    BY <1>1, <1>4, <1>5, <1>6 DEF Life!Retry
  <1> QED
    BY <1>6, <1>7 DEF Life!Next

\* Every step of the server is one of the life of a recording, or none.
LEMMA LifeStep ==
  ASSUME LifeInv, LifeInv', [Next]_vars
  PROVE  Life!Next \/ (UNCHANGED race /\ \A v \in Uploads : LifeOf(v)' = LifeOf(v))
  <1> USE StoreAssumption
  <1>0. race \subseteq race' /\ Types
    BY RaceGrows DEF LifeInv, RowsKnown
  <1>1. ASSUME NEW u \in Uploads,
               UploadCreate(u) \/ UploadStep(u) \/ UploadAbort(u) \/ UploadStoreFails(u)
        PROVE  Life!Next \/ (UNCHANGED race /\ \A v \in Uploads : LifeOf(v)' = LifeOf(v))
    <2>1. CASE UploadStore(u)
      BY <2>1, LifePut DEF Life!Next
    <2>2. CASE UploadFinish(u) /\ status' = SetStatus(u, "completed")
      <3>1. up[u] = "dropped" /\ UNCHANGED <<rowId, race>>
        BY <2>2 DEF UploadFinish, history
      <3>2. fileOf[u] \notin race => status[u] \in {"pending", "converting", "absent"}
        <4> SUFFICES ASSUME fileOf[u] \notin race PROVE status[u] \notin {"completed", "failed"}
          BY <1>0 DEF Types, TypeOK, Statuses
        <4>1. fileOf[u] \in Files \ race
          OBVIOUS
        <4> QED
          BY <3>1, <4>1 DEF LifeInv, RowsKnown, Unfinished, Claimed, NoneCompleted, Unfailed, Working, NoneFailed
      <3> QED
        BY <2>2, <3>1, <3>2, LifeSet DEF Statuses
    <2>3. CASE UNCHANGED <<status, rowId>>
      BY <1>0, <2>3, LifeSame
    <2>4. UploadStore(u) \/ (UploadFinish(u) /\ status' = SetStatus(u, "completed")) \/ UNCHANGED <<status, rowId>>
      BY <1>1 DEF UploadStep, UploadCreate, UploadWrite, UploadAbort, UploadRename, UploadStoreFails,
                  UploadDropDir, UploadFinish, rowVars
    <2> QED
      BY <2>1, <2>2, <2>3, <2>4
  <1>2. ASSUME NEW t \in Tasks, TaskStep(t) \/ ConvertError(t)
        PROVE  Life!Next \/ (UNCHANGED race /\ \A v \in Uploads : LifeOf(v)' = LifeOf(v))
    <2> DEFINE u == task[t].u
    <2>1. u \in Uploads /\ task[t].pc # "idle" /\ UNCHANGED race
      BY <1>0, <1>2, TaskGoesOn DEF Types, TypeOK
    <2>2. \/ UNCHANGED <<status, rowId>>
          \/ \E s \in Statuses : status' = SetStatus(u, s) /\ UNCHANGED rowId
      BY <1>2 DEF TaskStep, MarkConverting, OpenJson, BucketPositions, AssembleChunks, WriteManifest,
                  RecordStats, SetProtobuf, Finish, ConvertError, Statuses, rowVars
    <2>3. fileOf[u] \notin race => status[u] \in {"pending", "converting", "absent"}
      <3> SUFFICES ASSUME fileOf[u] \notin race PROVE status[u] \notin {"completed", "failed"}
        BY <1>0, <2>1 DEF Types, TypeOK, Statuses
      <3>1. fileOf[u] \in Files \ race /\ TaskAt(t, fileOf[u])
        BY <2>1 DEF TaskAt
      <3> QED
        BY <2>1, <3>1 DEF LifeInv, RowsKnown, Unfinished, Claimed, NoneCompleted, Unfailed, Working, NoneFailed
    <2> HIDE DEF u
    <2> QED
      BY <1>0, <2>1, <2>2, <2>3, LifeSet, LifeSame
  <1>3. CASE WorkerStep
    <2>1. CleanupReset \/ UNCHANGED <<status, rowId>>
      BY <1>3 DEF WorkerStep, CleanupSelect, CleanupRemove, BackfillOne, BackfillDone, TickerSelect,
                  TickerConvert, rowVars
    <2> QED
      BY <1>0, <2>1, LifeReset, LifeSame
  <1>4. ASSUME NEW a \in Admins, AdminStep(a)
        PROVE  Life!Next \/ (UNCHANGED race /\ \A v \in Uploads : LifeOf(v)' = LifeOf(v))
    <2>1. CASE RetryReset(a)
      <3> DEFINE u == adm[a].u
      <3>1. /\ u \in Uploads /\ adm[a].pc # "idle" /\ UNCHANGED <<rowId, race>>
            /\ status' = SetStatus(u, "pending")
        BY <1>0, <2>1 DEF RetryReset, Types, TypeOK, history
      <3>2. fileOf[u] \notin race => status[u] # "completed"
        <4> SUFFICES ASSUME fileOf[u] \notin race PROVE status[u] # "completed"
          OBVIOUS
        <4>1. fileOf[u] \in Files \ race /\ AdminAt(a, fileOf[u])
          BY <3>1 DEF AdminAt
        <4> QED
          BY <3>1, <4>1 DEF LifeInv, RowsKnown, Unfinished, Claimed, NoneCompleted
      <3> HIDE DEF u
      <3> QED
        BY <3>1, <3>2, LifeSet DEF Statuses
    <2>2. CASE UNCHANGED <<status, rowId>>
      BY <1>0, <2>2, LifeSame
    <2> QED
      BY <1>4, <2>1, <2>2 DEF AdminStep, RetryRemove, RetryResetFails, DeleteJson, DeleteDir, rowVars
  <1>5. ASSUME NEW a \in Admins, NEW u \in Uploads, RetryCheck(a, u) \/ DeleteRow(a, u)
        PROVE  Life!Next
    <2>1. CASE RetryCheck(a, u)
      BY <1>0, <2>1, LifeSame DEF RetryCheck, rowVars
    <2>2. CASE DeleteRow(a, u)
      BY <2>2, LifeDelete DEF Life!Next
    <2> QED
      BY <1>5, <2>1, <2>2
  <1>6. CASE CrashAndRestart \/ UNCHANGED vars
    <2>1. UNCHANGED <<status, rowId>>
      BY <1>6 DEF CrashAndRestart, vars, rowVars
    <2> QED
      BY <1>0, <2>1, LifeSame
  <1> QED
    BY <1>1, <1>2, <1>3, <1>4, <1>5, <1>6 DEF Next

\* The recording store implements RecordingLife (IsRecordingLife of the run
\* store_replace): whatever uploads, conversions, retries, deletes, failures and
\* deaths of the server do to rows and files, a recording is put, ends, may be
\* retried and goes, and strays only where two processes have met on its filename.
THEOREM StoreIsRecordingLife == Spec => IsRecordingLife
  <1>1. Init => Life!Init
    <2> SUFFICES ASSUME Init PROVE Life!Init
      OBVIOUS
    <2>1. \A u \in Uploads : LifeOf(u) = "unknown"
      BY DEF Init, LifeOf, Live, Standing
    <2> QED
      BY <2>1 DEF Init, Life!Init
  <1>2. LifeInv /\ LifeInv' /\ [Next]_vars => [Life!Next]_<<[u \in Uploads |-> LifeOf(u)], race>>
    <2> SUFFICES ASSUME LifeInv, LifeInv', [Next]_vars
                 PROVE  [Life!Next]_<<[u \in Uploads |-> LifeOf(u)], race>>
      OBVIOUS
    <2>1. CASE Life!Next
      BY <2>1
    <2>2. CASE UNCHANGED race /\ \A v \in Uploads : LifeOf(v)' = LifeOf(v)
      <3>1. [u \in Uploads |-> LifeOf(u)]' = [u \in Uploads |-> LifeOf(u)]
        BY <2>2
      <3> QED
        BY <2>2, <3>1
    <2> QED
      BY <2>1, <2>2, LifeStep
  <1> QED
    BY <1>1, <1>2, LifeAlways, PTL DEF Spec, IsRecordingLife, Life!Spec

=============================================================================
