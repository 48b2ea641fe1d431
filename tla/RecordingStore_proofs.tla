------------------------ MODULE RecordingStore_proofs ------------------------
(***************************************************************************)
(* Theorems about RecordingStore, for any number of uploads, filenames,    *)
(* admin requests, crashes, and any configuration:                         *)
(*                                                                         *)
(*   TypeCorrect       Spec => []TypeOK                                    *)
(*   OneRowPerFilename Spec => []UniqueFilename                            *)
(*   SourceWhole       Spec => []JsonWhole                                 *)
(*   DeletedForGood    Spec => NoResurrection                              *)
(*                                                                         *)
(* and, of the filenames no two processes have worked on at the same time  *)
(* (`race`):                                                               *)
(*                                                                         *)
(*   CompletedStays    Spec => CompletedStable                             *)
(*   SourceNeverLost   Spec => []SourceKept                                *)
(***************************************************************************)
EXTENDS RecordingStore, TLAPS

(***************************************************************************)
(* Types. TypeOK is not inductive: what an upload or a conversion step     *)
(* writes is well-typed only because the earlier step of the same process  *)
(* opened a file or read a recording.                                      *)
(***************************************************************************)
OpenFiles == \A u \in Uploads : up[u] \in {"created", "half"} => fd[u] \in Uploads

Sourced ==
    \A t \in Tasks :
        /\ task[t].pc = "bucket" => task[t].src \in Uploads
        /\ task[t].pc \in {"assemble", "manifest"} => task[t].got \in Uploads

Types == TypeOK /\ OpenFiles /\ Sourced

\* Cleaning the bucket up leaves a directory well-typed.
LEMMA WithoutBucketType == ASSUME NEW d \in Dirs PROVE WithoutBucket(d) \in Dirs
  BY DEF WithoutBucket, Dirs

\* A status update by id leaves the status column well-typed.
LEMMA SetStatusType ==
  ASSUME TypeOK, NEW u \in Uploads, NEW s \in Statuses
  PROVE  SetStatus(u, s) \in [Uploads -> Statuses \cup {"absent"}]
  BY DEF SetStatus, TypeOK, Statuses

\* The initial state is well-typed.
LEMMA TypesInit == Init => Types
  <1> SUFFICES ASSUME Init PROVE Types
    OBVIOUS
  <1> USE StoreAssumption
  <1>1. [f \in Files |-> NoDir] \in [Files -> Dirs]
    BY DEF NoDir, Dirs
  <1>2. wpc \in WorkerPcs /\ enabled \in BOOLEAN
    BY DEF Init, WorkerPcs
  <1>3. TypeOK
    BY <1>1, <1>2 DEF Init, TypeOK, Statuses, Halves, Empty, UploadPcs, TaskPcs, AdminPcs, NoTask, NoAdmin
  <1>4. OpenFiles
    BY DEF Init, OpenFiles
  <1>5. Sourced
    BY DEF Init, Sourced, NoTask
  <1> QED
    BY <1>3, <1>4, <1>5 DEF Types

TaskRecs == [pc : TaskPcs, u : Uploads \cup {None}, src : Uploads \cup {None}, got : Uploads \cup {None}]

TaskOK(r) ==
    /\ r \in TaskRecs
    /\ r.pc # "idle" => r.u \in Uploads
    /\ r.pc = "bucket" => r.src \in Uploads
    /\ r.pc \in {"assemble", "manifest"} => r.got \in Uploads

\* The conjuncts of Types about conversion tasks.
TasksOK ==
    /\ task \in [Tasks -> TaskRecs]
    /\ \A t \in Tasks : task[t].pc # "idle" => task[t].u \in Uploads
    /\ Sourced

\* Replacing one task by a well-formed one keeps the tasks well-formed.
LEMMA TaskUpdate ==
  ASSUME TasksOK, NEW t \in Tasks, NEW r, TaskOK(r), task' = [task EXCEPT ![t] = r]
  PROVE  TasksOK'
  BY DEF TasksOK, TaskOK, Sourced

\* Every upload step keeps the types.
LEMMA TypesUpload ==
  ASSUME Types, NEW u \in Uploads,
         UploadCreate(u) \/ UploadStep(u) \/ UploadAbort(u) \/ UploadStoreFails(u)
  PROVE  Types'
  <1> USE StoreAssumption DEF Types
  <1>1. CASE UploadCreate(u)
    BY <1>1 DEF UploadCreate, TypeOK, OpenFiles, Sourced, UploadPcs, Halves, Empty, BusyOnes,
       rowVars, envVars
  <1>2. CASE UploadWrite(u)
    <2>1. fd[u] \in Uploads /\ data[fd[u]] \in Halves /\ data \in [Uploads -> Halves]
      BY <1>2 DEF UploadWrite, TypeOK, OpenFiles
    <2>2. <<u, data[fd[u]][2]>> \in Halves /\ <<data[fd[u]][1], u>> \in Halves
      BY <2>1 DEF Halves
    <2>3. data' \in [Uploads -> Halves] /\ up' \in [Uploads -> UploadPcs]
      <3>1. \/ data' = [data EXCEPT ![fd[u]] = <<u, data[fd[u]][2]>>]
            \/ data' = [data EXCEPT ![fd[u]] = <<data[fd[u]][1], u>>]
        BY <1>2, <2>1 DEF UploadWrite
      <3>2. data' \in [Uploads -> Halves]
        BY <2>1, <2>2, <3>1
      <3>3. up' = [up EXCEPT ![u] = "half"] \/ up' = [up EXCEPT ![u] = "written"]
        BY <1>2 DEF UploadWrite
      <3>4. up' \in [Uploads -> UploadPcs]
        BY <3>3 DEF TypeOK, UploadPcs
      <3> QED
        BY <3>2, <3>4
    <2>4. OpenFiles'
      BY <1>2, <2>1 DEF UploadWrite, TypeOK, OpenFiles
    <2> QED
      BY <1>2, <2>3, <2>4 DEF UploadWrite, TypeOK, Sourced, rowVars, envVars, history
  <1>3. CASE UploadAbort(u)
    BY <1>3 DEF UploadAbort, TypeOK, OpenFiles, Sourced, UploadPcs, rowVars, envVars, history
  <1>4. CASE UploadRename(u)
    BY <1>4 DEF UploadRename, TypeOK, OpenFiles, Sourced, UploadPcs, rowVars, envVars, history
  <1>5. CASE UploadStore(u)
    BY <1>5 DEF UploadStore, TypeOK, OpenFiles, Sourced, UploadPcs, Statuses, fileVars, envVars, history
  <1>6. CASE UploadStoreFails(u)
    BY <1>6 DEF UploadStoreFails, TypeOK, OpenFiles, Sourced, UploadPcs, rowVars, fileVars, envVars, history
  <1>7. CASE UploadDropDir(u)
    BY <1>7 DEF UploadDropDir, TypeOK, OpenFiles, Sourced, UploadPcs, NoDir, Dirs, rowVars, envVars, history
  <1>8. CASE UploadFinish(u)
    <2>1. SetStatus(u, "completed") \in [Uploads -> Statuses \cup {"absent"}]
      BY SetStatusType DEF Statuses
    <2>2. status' \in [Uploads -> Statuses \cup {"absent"}]
      BY <1>8, <2>1 DEF UploadFinish, TypeOK
    <2>3. TaskOK(NewTask(u)) /\ u \in Tasks /\ TasksOK
      BY DEF TaskOK, TaskRecs, NewTask, TaskPcs, Tasks, TasksOK, TypeOK
    <2>4. TasksOK'
      <3>1. CASE task' = [task EXCEPT ![u] = NewTask(u)]
        BY <2>3, <3>1, TaskUpdate
      <3>2. CASE task' = task
        BY <2>3, <3>2 DEF TasksOK, Sourced
      <3> QED
        BY <1>8, <3>1, <3>2 DEF UploadFinish, Trigger
    <2>5. up' \in [Uploads -> UploadPcs] /\ OpenFiles'
      BY <1>8 DEF UploadFinish, TypeOK, OpenFiles, UploadPcs
    <2>6. UNCHANGED <<format, stats, rowId, nextId, fileVars, fd, wpc, list, adm, envVars, history>>
      BY <1>8 DEF UploadFinish
    <2>7. TypeOK'
      BY <2>2, <2>4, <2>5, <2>6 DEF TypeOK, TasksOK, TaskRecs, fileVars, envVars, history
    <2> QED
      BY <2>4, <2>5, <2>7 DEF TasksOK
  <1> QED
    BY <1>1, <1>2, <1>3, <1>4, <1>5, <1>6, <1>7, <1>8 DEF UploadStep

\* So does moving one on to a place that needs nothing it has not got.
LEMMA GotoUpdate ==
  ASSUME TasksOK, NEW t \in Tasks, NEW pc \in TaskPcs, task[t].pc # "idle", Goto(t, pc),
         pc \notin {"bucket", "assemble"}, pc = "manifest" => task[t].got \in Uploads
  PROVE  TasksOK'
  <1> DEFINE r == [task[t] EXCEPT !.pc = pc]
  <1>1. TaskOK(r)
    BY DEF TasksOK, TaskOK, TaskRecs
  <1>2. task' = [task EXCEPT ![t] = r]
    BY DEF Goto, TasksOK
  <1> QED
    BY <1>1, <1>2, TaskUpdate

\* Every conversion step keeps the types.
LEMMA TypesTask ==
  ASSUME Types, NEW t \in Tasks, TaskStep(t) \/ ConvertError(t)
  PROVE  Types'
  <1> USE StoreAssumption DEF Types
  <1> DEFINE f == TaskFile(t)
  <1>a. TasksOK /\ task[t] \in TaskRecs
    BY DEF TypeOK, TasksOK, TaskRecs
  <1>b. task[t].pc # "idle" => task[t].u \in Uploads /\ f \in Files /\ dir[f] \in Dirs
    BY DEF TypeOK, TaskFile
  <1>c. TasksOK' => /\ task' \in [Tasks -> [pc : TaskPcs, u : Uploads \cup {None},
                                           src : Uploads \cup {None}, got : Uploads \cup {None}]]
                    /\ (\A x \in Tasks : task[x].pc # "idle" => task[x].u \in Uploads)'
                    /\ Sourced'
    BY DEF TasksOK, TaskRecs
  <1>1. CASE MarkConverting(t)
    <2>1. status' \in [Uploads -> Statuses \cup {"absent"}]
      BY <1>b, <1>1, SetStatusType DEF MarkConverting, At, Statuses
    <2>2. TasksOK'
      BY <1>1, <1>a, GotoUpdate DEF MarkConverting, At, TaskPcs
    <2> QED
      BY <1>1, <1>c, <2>1, <2>2 DEF MarkConverting, TypeOK, OpenFiles, fileVars, envVars, history
  <1>2. CASE OpenJson(t)
    <2>1. NewDir \in Dirs
      BY DEF NewDir, NoDir, Dirs
    <2>2. CASE Goto(t, "fail") /\ UNCHANGED dir
      <3>1. TasksOK'
        BY <1>2, <1>a, <2>2, GotoUpdate DEF OpenJson, At, TaskPcs
      <3> QED
        BY <1>2, <1>c, <2>2, <3>1 DEF OpenJson, TypeOK, OpenFiles, rowVars, envVars, history
    <2>3. CASE /\ json[f] # None
               /\ dir' = [dir EXCEPT ![f] = NewDir]
               /\ task' = [task EXCEPT ![t].pc = "bucket", ![t].src = json[f]]
      <3> DEFINE r == [task[t] EXCEPT !.pc = "bucket", !.src = json[f]]
      <3>1. json[f] \in Uploads /\ task[t].u \in Uploads
        BY <1>2, <1>b, <2>3 DEF OpenJson, At, TypeOK
      <3>2. TaskOK(r)
        BY <1>a, <3>1 DEF TaskOK, TaskRecs, TaskPcs
      <3>3. task' = [task EXCEPT ![t] = r]
        BY <1>a, <2>3 DEF TasksOK
      <3>4. TasksOK'
        BY <1>a, <3>2, <3>3, TaskUpdate
      <3> QED
        BY <1>2, <1>c, <2>1, <2>3, <3>4 DEF OpenJson, TypeOK, OpenFiles, rowVars, envVars, history
    <2> QED
      BY <1>2, <2>2, <2>3 DEF OpenJson
  <1>3. CASE BucketPositions(t)
    <2> DEFINE c == data[task[t].src][1]
    <2>1. task[t].u \in Uploads /\ f \in Files /\ dir[f] \in Dirs
      BY <1>3, <1>b DEF BucketPositions, At
    <2>2. task[t].src \in Uploads /\ data[task[t].src] \in Halves
      BY <1>3 DEF BucketPositions, At, TypeOK, Sourced
    <2>3. c \in Uploads \cup {None}
      BY <2>2 DEF Halves
    <2>4. CASE /\ c # None
               /\ dir' = [dir EXCEPT ![f].bucket = @ \cup {<<t, c>>}]
               /\ task' = [task EXCEPT ![t].pc = "assemble", ![t].got = c]
      <3> DEFINE r == [task[t] EXCEPT !.pc = "assemble", !.got = c]
                 d == [dir[f] EXCEPT !.bucket = @ \cup {<<t, c>>}]
      <3>1. c \in Uploads
        BY <2>3, <2>4
      <3> HIDE DEF c
      <3>2. d \in Dirs
        BY <2>1, <3>1 DEF Dirs
      <3>3. TaskOK(r)
        BY <1>a, <2>1, <3>1 DEF TaskOK, TaskRecs, TaskPcs
      <3>4. task' = [task EXCEPT ![t] = r] /\ dir' = [dir EXCEPT ![f] = d]
        BY <1>a, <2>1, <2>4 DEF TasksOK, TypeOK
      <3> HIDE DEF d, r
      <3>5. TasksOK' /\ dir' \in [Files -> Dirs]
        BY <1>a, <3>2, <3>3, <3>4, TaskUpdate DEF TypeOK
      <3> QED
        BY <1>3, <1>c, <3>5 DEF BucketPositions, TypeOK, OpenFiles, rowVars, envVars, history
    <2>5. CASE dir' = [dir EXCEPT ![f] = WithoutBucket(@)] /\ Goto(t, "fail")
      <3>1. TasksOK'
        BY <1>3, <1>a, <2>5, GotoUpdate DEF BucketPositions, At, TaskPcs
      <3>2. dir' \in [Files -> Dirs]
        BY <2>1, <2>5, WithoutBucketType DEF TypeOK
      <3> QED
        BY <1>3, <1>c, <3>1, <3>2 DEF BucketPositions, TypeOK, OpenFiles, rowVars, envVars, history
    <2> QED
      BY <1>3, <2>4, <2>5 DEF BucketPositions
  <1>4. CASE AssembleChunks(t)
    <2> DEFINE c == task[t].got
               e == \E t2 \in Tasks : dir[f].bucket = {<<t2, c>>}
               new == {x \in dir[f].chunks : x.of # c} \cup {[of |-> c, ok |-> e]}
               d == [dir[f] EXCEPT !.here = TRUE, !.chunks = new]
    <2>1. f \in Files /\ dir[f] \in Dirs /\ c \in Uploads /\ e \in BOOLEAN
      BY <1>b, <1>4 DEF AssembleChunks, At, Sourced
    <2>2. dir' = [dir EXCEPT ![f] = d]
      BY <1>4, <2>1 DEF AssembleChunks, TypeOK
    <2> HIDE DEF e
    <2>3. new \in SUBSET [of : Uploads, ok : BOOLEAN]
      BY <2>1 DEF Dirs
    <2> HIDE DEF new
    <2>4. d \in Dirs
      BY <2>1, <2>3 DEF Dirs
    <2> HIDE DEF d
    <2>5. dir' \in [Files -> Dirs]
      BY <2>1, <2>2, <2>4 DEF TypeOK
    <2>6. TasksOK'
      BY <1>a, <1>4, <2>1, GotoUpdate DEF AssembleChunks, At, TaskPcs
    <2> QED
      BY <1>4, <1>c, <2>5, <2>6 DEF AssembleChunks, TypeOK, OpenFiles, rowVars, envVars, history
  <1>5. CASE WriteManifest(t)
    <2>1. f \in Files /\ dir[f] \in Dirs
      BY <1>b, <1>5 DEF WriteManifest, At
    <2>2. [WithoutBucket(dir[f]) EXCEPT !.manifest = task[t].got] \in Dirs
      <3>1. WithoutBucket(dir[f]) \in Dirs /\ task[t].got \in Uploads \cup {None}
        BY <1>a, <2>1, WithoutBucketType DEF TaskRecs
      <3> HIDE DEF f
      <3> QED
        BY <3>1 DEF Dirs
    <2>3. TasksOK'
      BY <1>a, <1>5, GotoUpdate DEF WriteManifest, At, TaskPcs
    <2>4. dir' \in [Files -> Dirs]
      BY <1>5, <2>1, <2>2 DEF WriteManifest, TypeOK
    <2> QED
      BY <1>5, <1>c, <2>3, <2>4 DEF WriteManifest, TypeOK, OpenFiles, rowVars, envVars, history
  <1>6. CASE RecordStats(t)
    <2>1. dir[f].manifest \in Uploads \cup {None} /\ task[t].u \in Uploads
      BY <1>b, <1>6 DEF RecordStats, At, Dirs
    <2>2. stats' \in [Uploads -> Uploads \cup {None}]
      BY <1>6, <2>1 DEF RecordStats, TypeOK
    <2>3. TasksOK'
      BY <1>a, <1>6, GotoUpdate DEF RecordStats, At, TaskPcs
    <2> QED
      BY <1>6, <1>c, <2>2, <2>3 DEF RecordStats, TypeOK, OpenFiles, fileVars, envVars, history
  <1>7. CASE SetProtobuf(t)
    <2>1. TasksOK'
      BY <1>a, <1>7, GotoUpdate DEF SetProtobuf, At, TaskPcs
    <2> QED
      BY <1>7, <1>c, <2>1 DEF SetProtobuf, TypeOK, OpenFiles, fileVars, envVars, history
  <1>8. CASE Finish(t)
    <2>1. task[t].u \in Uploads
      BY <1>b, <1>8 DEF Finish
    <2>2. status' \in [Uploads -> Statuses \cup {"absent"}]
      BY <1>8, <2>1, SetStatusType DEF Finish, Statuses
    <2>3. TaskOK(NoTask)
      BY DEF TaskOK, TaskRecs, TaskPcs, NoTask
    <2>4. TasksOK'
      BY <1>a, <1>8, <2>3, TaskUpdate DEF Finish
    <2> QED
      BY <1>8, <1>c, <2>2, <2>4 DEF Finish, TypeOK, OpenFiles, fileVars, envVars, history
  <1>9. CASE ConvertError(t)
    <2>1. f \in Files
      BY <1>b, <1>9 DEF ConvertError
    <2>2. dir' \in [Files -> Dirs]
      BY <1>9, <2>1, WithoutBucketType DEF ConvertError, TypeOK
    <2>3. TasksOK'
      BY <1>a, <1>9, GotoUpdate DEF ConvertError, TaskPcs
    <2> QED
      BY <1>9, <1>c, <2>2, <2>3 DEF ConvertError, TypeOK, OpenFiles, rowVars, envVars, history
  <1> QED
    BY <1>1, <1>2, <1>3, <1>4, <1>5, <1>6, <1>7, <1>8, <1>9 DEF TaskStep

\* Every step of the worker goroutine, an admin request or a restart keeps the types.
LEMMA TypesRest ==
  ASSUME Types,
         \/ WorkerStep
         \/ \E a \in Admins : AdminStep(a) \/ \E u \in Uploads : RetryCheck(a, u) \/ DeleteRow(a, u)
         \/ CrashAndRestart
  PROVE  Types'
  <1> USE StoreAssumption DEF Types
  <1>1. CASE WorkerStep
    <2>1. CASE CleanupSelect
      BY <2>1 DEF CleanupSelect, TypeOK, OpenFiles, Sourced, WorkerPcs, RowsWith, BusyOnes, FilesOf,
         rowVars, fileVars, envVars
    <2>2. ASSUME NEW u \in Uploads, CleanupRemove(u) PROVE Types'
      BY <2>2 DEF CleanupRemove, TypeOK, OpenFiles, Sourced, NoDir, Dirs, rowVars, envVars, history
    <2>3. CASE CleanupReset
      BY <2>3 DEF CleanupReset, TypeOK, OpenFiles, Sourced, WorkerPcs, Statuses, RowsWith,
         fileVars, envVars, history
    <2>4. ASSUME NEW u \in Uploads, BackfillOne(u) PROVE Types'
      <3>1. fileOf[u] \in Files /\ dir[fileOf[u]].manifest \in Uploads \cup {None}
        BY DEF TypeOK, Dirs
      <3>2. json[fileOf[u]] # None => data[json[fileOf[u]]][1] \in Uploads \cup {None}
        BY <3>1 DEF TypeOK, Halves
      <3>3. stats' \in [Uploads -> Uploads \cup {None}]
        BY <2>4, <3>1, <3>2 DEF BackfillOne, TypeOK
      <3> QED
        BY <2>4, <3>3 DEF BackfillOne, TypeOK, OpenFiles, Sourced, fileVars, envVars, history
    <2>5. CASE BackfillDone
      BY <2>5 DEF BackfillDone, TypeOK, OpenFiles, Sourced, WorkerPcs, rowVars, fileVars, envVars, history
    <2>6. CASE TickerSelect
      <3>1. SelectPending(BatchSize) \subseteq Uploads
        BY DEF SelectPending, RowsWith
      <3>2. list' \subseteq Uploads
        BY <2>6, <3>1 DEF TickerSelect
      <3>3. race' \subseteq Files
        BY <2>6, <3>2 DEF TickerSelect, TypeOK, BusyOnes, FilesOf
      <3> QED
        BY <2>6, <3>2, <3>3 DEF TickerSelect, TypeOK, OpenFiles, Sourced, rowVars, fileVars, envVars
    <2>7. ASSUME NEW u \in Uploads, TickerConvert(u) PROVE Types'
      BY <2>7 DEF TickerConvert, NewTask, TypeOK, OpenFiles, Sourced, TaskPcs, Tasks,
         rowVars, fileVars, envVars, history
    <2> QED
      BY <1>1, <2>1, <2>2, <2>3, <2>4, <2>5, <2>6, <2>7 DEF WorkerStep
  <1>2. ASSUME NEW a \in Admins, AdminStep(a) PROVE Types'
    <2>0. adm[a].pc # "idle" => adm[a].u \in Uploads /\ fileOf[adm[a].u] \in Files
      BY DEF TypeOK
    <2>1. CASE RetryRemove(a)
      BY <2>0, <2>1 DEF RetryRemove, TypeOK, OpenFiles, Sourced, AdminPcs, NoDir, Dirs, rowVars, envVars, history
    <2>2. CASE RetryReset(a)
      <3>1. adm[a].u \in Uploads
        BY <2>0, <2>2 DEF RetryReset
      <3>2. status' \in [Uploads -> Statuses \cup {"absent"}]
        BY <2>2, <3>1, SetStatusType DEF RetryReset, Statuses
      <3>3. \/ task' = task
            \/ task' = [task EXCEPT ![adm[a].u] = NewTask(adm[a].u)]
        BY <2>2 DEF RetryReset, Trigger
      <3> QED
        BY <2>2, <3>1, <3>2, <3>3 DEF RetryReset, TypeOK, OpenFiles, Sourced, AdminPcs, NoAdmin,
           NewTask, TaskPcs, Tasks, fileVars, envVars, history
    <2>3. CASE DeleteJson(a)
      BY <2>0, <2>3 DEF DeleteJson, TypeOK, OpenFiles, Sourced, AdminPcs, rowVars, envVars, history
    <2>4. CASE DeleteDir(a)
      BY <2>0, <2>4 DEF DeleteDir, TypeOK, OpenFiles, Sourced, AdminPcs, NoAdmin, NoDir, Dirs,
         rowVars, envVars, history
    <2>5. CASE RetryResetFails(a)
      BY <2>5 DEF RetryResetFails, TypeOK, OpenFiles, Sourced, AdminPcs, NoAdmin,
         rowVars, fileVars, envVars, history
    <2> QED
      BY <1>2, <2>1, <2>2, <2>3, <2>4, <2>5 DEF AdminStep
  <1>3. ASSUME NEW a \in Admins, NEW u \in Uploads, RetryCheck(a, u) \/ DeleteRow(a, u) PROVE Types'
    <2>1. CASE RetryCheck(a, u)
      BY <2>1 DEF RetryCheck, TypeOK, OpenFiles, Sourced, AdminPcs, BusyOnes, rowVars, fileVars, envVars
    <2>2. CASE DeleteRow(a, u)
      BY <2>2 DEF DeleteRow, TypeOK, OpenFiles, Sourced, AdminPcs, BusyOnes, Statuses, fileVars, envVars
    <2> QED
      BY <1>3, <2>1, <2>2
  <1>4. CASE CrashAndRestart
    BY <1>4 DEF CrashAndRestart, TypeOK, OpenFiles, Sourced, UploadPcs, TaskPcs, WorkerPcs, AdminPcs,
       NoTask, NoAdmin, Uploading, rowVars, fileVars, history
  <1> QED
    BY <1>1, <1>2, <1>3, <1>4

\* Every step of the program, and every stuttering step, keeps the types.
LEMMA TypesStep == Types /\ [Next]_vars => Types'
  <1> SUFFICES ASSUME Types, [Next]_vars PROVE Types'
    OBVIOUS
  <1>1. CASE Next
    BY <1>1, TypesUpload, TypesTask, TypesRest DEF Next
  <1>2. CASE UNCHANGED vars
    BY <1>2 DEF Types, TypeOK, OpenFiles, Sourced, vars, rowVars, fileVars, procVars, envVars, history
  <1> QED
    BY <1>1, <1>2

-----------------------------------------------------------------------------
(***************************************************************************)
(* Rows. An upload stores its row once, after everything that replaced it  *)
(* was deleted in the same transaction; every other update is by id and    *)
(* skips deleted rows.                                                     *)
(***************************************************************************)
StoredOnce ==
    \A u \in Uploads : up[u] \in {"idle", "created", "half", "written", "renamed"} => rowId[u] = 0

RowsInv == UniqueFilename /\ StoredOnce

\* No row exists at the start.
LEMMA RowsInit == Init => RowsInv
  BY DEF Init, RowsInv, UniqueFilename, StoredOnce, Live

\* A step that stores no upload brings no row to life and stores nothing.
LEMMA RowsOtherwise ==
  ASSUME Types, [Next]_vars, \A u \in Uploads : ~UploadStore(u)
  PROVE  /\ \A u \in Uploads : Live(u)' => Live(u)
         /\ rowId' = rowId
         /\ \A u \in Uploads : up[u] \in {"stored", "dropped", "done"} =>
                up'[u] \in {"stored", "dropped", "done"}
  <1> USE DEF Types
  <1> DEFINE Kept == /\ \A u \in Uploads : Live(u)' => Live(u)
                     /\ rowId' = rowId
                     /\ \A u \in Uploads : up[u] \in {"stored", "dropped", "done"} =>
                            up'[u] \in {"stored", "dropped", "done"}
  <1>0. ASSUME NEW u \in Uploads, NEW s \in Statuses, status' = SetStatus(u, s)
        PROVE  \A v \in Uploads : Live(v)' => Live(v)
    BY <1>0 DEF SetStatus, Live, TypeOK
  <1>1. ASSUME NEW u \in Uploads,
               UploadCreate(u) \/ UploadStep(u) \/ UploadAbort(u) \/ UploadStoreFails(u)
        PROVE  Kept
    <2>1. CASE UploadFinish(u)
      <3>1. \A v \in Uploads : Live(v)' => Live(v)
        <4>1. CASE status' = status
          BY <4>1 DEF Live
        <4>2. CASE status' = SetStatus(u, "completed")
          BY <1>0, <4>2 DEF Statuses
        <4> QED
          BY <2>1, <4>1, <4>2 DEF UploadFinish
      <3> QED
        BY <2>1, <3>1 DEF UploadFinish, TypeOK
    <2>2. CASE UploadCreate(u) \/ UploadWrite(u) \/ UploadAbort(u) \/ UploadRename(u)
      BY <2>2 DEF UploadCreate, UploadWrite, UploadAbort, UploadRename, TypeOK, Live, rowVars
    <2>3. CASE UploadDropDir(u) \/ UploadStoreFails(u)
      BY <2>3 DEF UploadDropDir, UploadStoreFails, TypeOK, Live, rowVars
    <2> QED
      BY <1>1, <2>1, <2>2, <2>3 DEF UploadStep
  <1>2. ASSUME NEW t \in Tasks, TaskStep(t) \/ ConvertError(t)
        PROVE  Kept
    <2>1. task[t].pc # "idle" => task[t].u \in Uploads
      BY DEF TypeOK
    <2>2. CASE MarkConverting(t) \/ Finish(t)
      <3>1. \E s \in Statuses : status' = SetStatus(task[t].u, s)
        BY <2>2 DEF MarkConverting, Finish, Statuses
      <3>2. task[t].u \in Uploads
        BY <2>1, <2>2 DEF MarkConverting, Finish, At
      <3> QED
        BY <1>0, <2>2, <3>1, <3>2 DEF MarkConverting, Finish
    <2>3. CASE \/ OpenJson(t) \/ BucketPositions(t) \/ AssembleChunks(t) \/ WriteManifest(t)
               \/ ConvertError(t)
      BY <2>3 DEF OpenJson, BucketPositions, AssembleChunks, WriteManifest, ConvertError, Live, rowVars
    <2>4. CASE RecordStats(t) \/ SetProtobuf(t)
      BY <2>4 DEF RecordStats, SetProtobuf, Live
    <2> QED
      BY <1>2, <2>2, <2>3, <2>4 DEF TaskStep
  <1>3. CASE WorkerStep
    <2>1. CASE CleanupReset
      BY <2>1 DEF CleanupReset, Live, TypeOK
    <2>2. CASE \/ CleanupSelect \/ BackfillDone \/ TickerSelect
               \/ \E u \in Uploads : CleanupRemove(u) \/ BackfillOne(u) \/ TickerConvert(u)
      BY <2>2 DEF CleanupSelect, BackfillDone, TickerSelect, CleanupRemove, BackfillOne, TickerConvert,
         Live, rowVars
    <2> QED
      BY <1>3, <2>1, <2>2 DEF WorkerStep
  <1>4. ASSUME NEW a \in Admins, AdminStep(a) PROVE Kept
    <2>1. CASE RetryReset(a)
      <3>1. adm[a].u \in Uploads
        BY <2>1 DEF RetryReset, TypeOK
      <3> QED
        BY <1>0, <2>1, <3>1 DEF RetryReset, Statuses
    <2>2. CASE RetryRemove(a) \/ RetryResetFails(a) \/ DeleteJson(a) \/ DeleteDir(a)
      BY <2>2 DEF RetryRemove, RetryResetFails, DeleteJson, DeleteDir, Live, rowVars
    <2> QED
      BY <1>4, <2>1, <2>2 DEF AdminStep
  <1>5. ASSUME NEW a \in Admins, NEW u \in Uploads, RetryCheck(a, u) \/ DeleteRow(a, u)
        PROVE  Kept
    BY <1>5 DEF RetryCheck, DeleteRow, Live, TypeOK, rowVars
  <1>6. CASE CrashAndRestart
    BY <1>6 DEF CrashAndRestart, Live, Uploading, TypeOK, rowVars
  <1>7. CASE UNCHANGED vars
    BY <1>7 DEF vars, Live, rowVars, procVars
  <1> QED
    BY <1>1, <1>2, <1>3, <1>4, <1>5, <1>6, <1>7 DEF Next

\* Storing u leaves u as the only row of its filename.
LEMMA RowsStore ==
  ASSUME Types, RowsInv, NEW u \in Uploads, UploadStore(u)
  PROVE  /\ RowsInv'
         /\ \A v \in Uploads : rowId[v] # 0 /\ ~Live(v) => ~Live(v)'
  <1>1. \A v \in Uploads : Live(v)' <=> v = u \/ (Live(v) /\ fileOf[v] # fileOf[u])
    BY DEF Types, UploadStore, Live, TypeOK
  <1>2. UniqueFilename'
    BY <1>1 DEF RowsInv, UniqueFilename
  <1>3. StoredOnce'
    BY DEF Types, RowsInv, StoredOnce, UploadStore, TypeOK
  <1>4. rowId[u] = 0
    BY DEF RowsInv, StoredOnce, UploadStore
  <1> QED
    BY <1>1, <1>2, <1>3, <1>4 DEF RowsInv

\* Every step keeps one row per filename and never revives a stored row.
LEMMA RowsStep ==
  ASSUME Types, RowsInv, [Next]_vars
  PROVE  /\ RowsInv'
         /\ \A u \in Uploads : rowId[u] # 0 /\ ~Live(u) => ~Live(u)'
  <1>1. CASE \E u \in Uploads : UploadStore(u)
    BY <1>1, RowsStore
  <1>2. CASE \A u \in Uploads : ~UploadStore(u)
    <2>1. /\ \A u \in Uploads : Live(u)' => Live(u)
          /\ rowId' = rowId
          /\ \A u \in Uploads : up[u] \in {"stored", "dropped", "done"} =>
                up'[u] \in {"stored", "dropped", "done"}
      BY <1>2, RowsOtherwise
    <2>2. UniqueFilename'
      BY <2>1 DEF RowsInv, UniqueFilename
    <2>3. StoredOnce'
      BY <2>1 DEF Types, TypeOK, UploadPcs, RowsInv, StoredOnce
    <2> QED
      BY <2>1, <2>2, <2>3 DEF RowsInv
  <1> QED
    BY <1>1, <1>2

(***************************************************************************)
(* Files. An inode belongs to one filename, and a filename that no two     *)
(* uploads wrote concurrently has at most one upload, which owns the inode *)
(* at its .tmp name until it renames it.                                   *)
(***************************************************************************)
Owned ==
    /\ \A f \in Files : /\ tmp[f] # None => fileOf[tmp[f]] = f
                        /\ json[f] # None => fileOf[json[f]] = f
    /\ \A u \in Uploads :
        up[u] \in {"created", "half"} => fd[u] \in Uploads /\ fileOf[fd[u]] = fileOf[u]

Fresh == \A u \in Uploads : up[u] = "idle" => \A f \in Files : json[f] # u /\ tmp[f] # u

Sole ==
    \A u, v \in Uploads :
        Uploading(u) /\ Uploading(v) /\ fileOf[u] = fileOf[v] /\ fileOf[u] \notin uploadRace => u = v

Progress ==
    \A u \in Uploads :
        up[u] \in {"created", "half", "written"} /\ fileOf[u] \notin uploadRace =>
            /\ fd[u] \in Uploads
            /\ tmp[fileOf[u]] = fd[u]
            /\ up[u] = "half" => data[fd[u]][1] = u
            /\ up[u] = "written" => data[fd[u]] = <<u, u>>

Landed ==
    \A f \in Files : json[f] # None /\ f \notin uploadRace => Whole(json[f]) /\ json[f] # tmp[f]

FilesInv == Owned /\ Fresh /\ Sole /\ Progress /\ Landed

\* No file exists at the start.
LEMMA FilesInit == Init => FilesInv
  BY StoreAssumption DEF Init, FilesInv, Owned, Fresh, Sole, Progress, Landed, Uploading

\* Steps that touch no source file, no temporary file and no upload.
LEMMA FilesSame ==
  ASSUME FilesInv, UNCHANGED <<json, tmp, data, up, fd, uploadRace>>
  PROVE  FilesInv'
  BY DEF FilesInv, Owned, Fresh, Sole, Progress, Landed, Uploading, Whole

\* Upload steps. Two inodes of different filenames differ (Owned), and so do those at
\* the two names of one filename (Landed): a write lands in no other recording.
LEMMA FilesUpload ==
  ASSUME Types, FilesInv, NEW u \in Uploads,
         UploadCreate(u) \/ UploadStep(u) \/ UploadAbort(u) \/ UploadStoreFails(u)
  PROVE  FilesInv'
  <1> USE StoreAssumption DEF Types, FilesInv
  <1> DEFINE f == fileOf[u]
  <1>1. CASE UploadCreate(u)
    <2> DEFINE i == IF tmp[f] = None THEN u ELSE tmp[f]
    <2>1. /\ i \in Uploads /\ fileOf[i] = f /\ f \in Files
          /\ \A g \in Files : json[g] # None /\ g \notin uploadRace => json[g] # i
          /\ \A g \in Files : g # f => json[g] # i /\ tmp[g] # i
      BY <1>1 DEF UploadCreate, TypeOK, Owned, Fresh, Landed
    <2>2. /\ up' = [up EXCEPT ![u] = "created"] /\ tmp' = [tmp EXCEPT ![f] = i]
          /\ fd' = [fd EXCEPT ![u] = i] /\ data' = [data EXCEPT ![i] = Empty]
          /\ json' = json /\ up[u] = "idle"
          /\ uploadRace' = IF UploadingTo(f) THEN uploadRace \cup {f} ELSE uploadRace
      BY <1>1 DEF UploadCreate
    <2> HIDE DEF i
    <2>3. Owned'
      BY <2>1, <2>2 DEF Owned, TypeOK
    <2>4. Fresh'
      <3> SUFFICES ASSUME NEW v \in Uploads, (up[v] = "idle")', NEW g \in Files
                   PROVE  (json[g] # v /\ tmp[g] # v)'
        BY DEF Fresh
      <3>1. up[v] = "idle" /\ v # u
        BY <2>2 DEF TypeOK
      <3>2. json[g] # v /\ tmp[g] # v /\ i # v
        BY <3>1, <2>2 DEF Fresh, i
      <3> QED
        BY <2>2, <3>2 DEF TypeOK
    <2>5. Sole'
      BY <2>1, <2>2 DEF Sole, UploadingTo, Uploading, TypeOK
    <2>6. Progress'
      <3> SUFFICES ASSUME NEW v \in Uploads,
                          (up[v] \in {"created", "half", "written"} /\ fileOf[v] \notin uploadRace)'
                   PROVE  (/\ fd[v] \in Uploads
                           /\ tmp[fileOf[v]] = fd[v]
                           /\ up[v] = "half" => data[fd[v]][1] = v
                           /\ up[v] = "written" => data[fd[v]] = <<v, v>>)'
        BY DEF Progress
      <3>1. CASE v = u
        BY <2>1, <2>2, <3>1 DEF TypeOK
      <3>2. CASE v # u
        <4>1. fileOf[v] # f
          BY <2>2, <3>2 DEF UploadingTo, Uploading, TypeOK
        <4>2. up[v] = up'[v] /\ fd'[v] = fd[v] /\ fileOf[v] \notin uploadRace /\ fileOf[v] \in Files
          BY <2>2, <3>2 DEF TypeOK
        <4>3. fd[v] # i /\ tmp'[fileOf[v]] = tmp[fileOf[v]]
          BY <2>1, <2>2, <4>1, <4>2 DEF Progress, TypeOK
        <4> QED
          BY <2>2, <4>2, <4>3 DEF Progress, TypeOK
      <3> QED
        BY <3>1, <3>2
    <2>7. Landed'
      <3> SUFFICES ASSUME NEW g \in Files, (json[g] # None /\ g \notin uploadRace)'
                   PROVE  (Whole(json[g]) /\ json[g] # tmp[g])'
        BY DEF Landed
      <3>1. json[g] # None /\ g \notin uploadRace
        BY <2>2
      <3>2. Whole(json[g]) /\ json[g] # tmp[g] /\ json[g] # i /\ json[g] \in Uploads
        BY <2>1, <3>1 DEF Landed, TypeOK
      <3> QED
        BY <2>1, <2>2, <3>2 DEF Whole, TypeOK
    <2> QED
      BY <2>3, <2>4, <2>5, <2>6, <2>7
  <1>2. CASE UploadWrite(u)
    <2> DEFINE i == fd[u]
    <2>1. i \in Uploads /\ fileOf[i] = f /\ f \in Files
      BY <1>2 DEF UploadWrite, Owned, TypeOK
    <2>2. /\ json' = json /\ tmp' = tmp /\ fd' = fd /\ uploadRace' = uploadRace
          /\ \A j \in Uploads : j # i => data'[j] = data[j]
          /\ \A v \in Uploads : v # u => up'[v] = up[v]
          /\ up[u] = "created" => up'[u] = "half" /\ data'[i] = <<u, data[i][2]>>
          /\ up[u] = "half" => up'[u] = "written" /\ data'[i] = <<data[i][1], u>>
          /\ up[u] \in {"created", "half"}
      BY <1>2, <2>1 DEF UploadWrite, TypeOK, history
    <2> HIDE DEF i
    <2>3. Owned'
      BY <2>1, <2>2 DEF Owned
    <2>4. Fresh'
      BY <2>2 DEF Fresh
    <2>5. Sole'
      BY <2>2 DEF Sole, Uploading
    <2>6. Progress'
      <3> SUFFICES ASSUME NEW v \in Uploads,
                          (up[v] \in {"created", "half", "written"} /\ fileOf[v] \notin uploadRace)'
                   PROVE  (/\ fd[v] \in Uploads
                           /\ tmp[fileOf[v]] = fd[v]
                           /\ up[v] = "half" => data[fd[v]][1] = v
                           /\ up[v] = "written" => data[fd[v]] = <<v, v>>)'
        BY DEF Progress
      <3>1. CASE v = u
        <4>1. up[u] = "half" => data[i][1] = u
          BY <2>2, <3>1 DEF Progress, i
        <4>2. tmp[fileOf[v]] = fd[v]
          BY <2>2, <3>1 DEF Progress
        <4> QED
          BY <2>1, <2>2, <3>1, <4>1, <4>2 DEF i
      <3>2. CASE v # u
        <4>1. fileOf[v] # f
          BY <2>2, <3>2 DEF Sole, Uploading
        <4>2. fd[v] \in Uploads /\ tmp[fileOf[v]] = fd[v] /\ fileOf[v] \in Files
          BY <2>2, <3>2 DEF Progress
        <4>3. fd[v] # i
          BY <2>1, <4>1, <4>2 DEF Owned
        <4> QED
          BY <2>2, <3>2, <4>2, <4>3 DEF Progress
      <3> QED
        BY <3>1, <3>2
    <2>7. Landed'
      <3> SUFFICES ASSUME NEW g \in Files, json[g] # None, g \notin uploadRace
                   PROVE  Whole(json[g])' /\ json[g] # tmp[g]
        BY <2>2 DEF Landed
      <3>1. Whole(json[g]) /\ json[g] # tmp[g] /\ json[g] \in Uploads
        BY DEF Landed, TypeOK
      <3>2. json[g] # i
        BY <2>1, <2>2, <3>1 DEF Owned, Progress, i
      <3> QED
        BY <2>2, <3>1, <3>2 DEF Whole
    <2> QED
      BY <2>3, <2>4, <2>5, <2>6, <2>7
  <1>3. CASE UploadAbort(u)
    <2>1. /\ up' = [up EXCEPT ![u] = "done"] /\ tmp' = [tmp EXCEPT ![f] = None]
          /\ json' = json /\ data' = data /\ fd' = fd /\ uploadRace' = uploadRace
          /\ Uploading(u) /\ f \in Files
      BY <1>3 DEF UploadAbort, Uploading, TypeOK, history
    <2>2. Owned' /\ Fresh' /\ Sole'
      BY <2>1 DEF Owned, Fresh, Sole, Uploading, TypeOK
    <2>3. Progress'
      BY <2>1 DEF Progress, Sole, Uploading, TypeOK
    <2>4. Landed'
      BY <2>1 DEF Landed, Whole, TypeOK
    <2> QED
      BY <2>2, <2>3, <2>4
  <1>4. CASE UploadRename(u)
    <2>1. CASE tmp[f] = None
      <3>1. /\ up' = [up EXCEPT ![u] = "done"] /\ json' = json /\ tmp' = tmp
            /\ data' = data /\ fd' = fd /\ uploadRace' = uploadRace
        BY <1>4, <2>1 DEF UploadRename, history
      <3> QED
        BY <3>1 DEF Owned, Fresh, Sole, Progress, Landed, Whole, Uploading, TypeOK
    <2>2. CASE tmp[f] # None
      <3>1. /\ up' = [up EXCEPT ![u] = "renamed"] /\ json' = [json EXCEPT ![f] = tmp[f]]
            /\ tmp' = [tmp EXCEPT ![f] = None]
            /\ data' = data /\ fd' = fd /\ uploadRace' = uploadRace
            /\ up[u] = "written" /\ f \in Files
        BY <1>4, <2>2 DEF UploadRename, TypeOK, history
      <3>2. Owned' /\ Fresh' /\ Sole'
        BY <2>2, <3>1 DEF Owned, Fresh, Sole, Uploading, TypeOK
      <3>3. Progress'
        BY <3>1 DEF Progress, Sole, Uploading, TypeOK
      <3>4. Landed'
        <4>1. f \notin uploadRace => data[tmp[f]] = <<u, u>>
          BY <3>1 DEF Progress
        <4> QED
          BY <2>2, <3>1, <4>1 DEF Landed, Whole, TypeOK
      <3> QED
        BY <3>2, <3>3, <3>4
    <2> QED
      BY <2>1, <2>2
  <1>5. CASE UploadStore(u) \/ UploadStoreFails(u) \/ UploadDropDir(u) \/ UploadFinish(u)
    <2>1. /\ json' = json /\ tmp' = tmp /\ data' = data /\ fd' = fd /\ uploadRace' = uploadRace
          /\ up[u] \in {"renamed", "stored", "dropped"}
          /\ \E pc \in {"stored", "dropped", "done"} : up' = [up EXCEPT ![u] = pc]
      BY <1>5 DEF UploadStore, UploadStoreFails, UploadDropDir, UploadFinish, fileVars, history
    <2> QED
      BY <2>1 DEF Owned, Fresh, Sole, Progress, Landed, Whole, Uploading, TypeOK
  <1> QED
    BY <1>1, <1>2, <1>3, <1>4, <1>5 DEF UploadStep

\* Every step keeps the invariant of the source files.
LEMMA FilesStep ==
  ASSUME Types, FilesInv, [Next]_vars
  PROVE  FilesInv'
  <1> USE StoreAssumption DEF Types
  <1>1. ASSUME NEW u \in Uploads,
               UploadCreate(u) \/ UploadStep(u) \/ UploadAbort(u) \/ UploadStoreFails(u)
        PROVE  FilesInv'
    BY <1>1, FilesUpload
  <1>2. ASSUME NEW t \in Tasks, TaskStep(t) \/ ConvertError(t) PROVE FilesInv'
    <2>1. UNCHANGED <<json, tmp, data, up, fd, uploadRace>>
      BY <1>2 DEF TaskStep, MarkConverting, OpenJson, BucketPositions, AssembleChunks, WriteManifest,
         RecordStats, SetProtobuf, Finish, ConvertError, fileVars, history
    <2> QED
      BY <2>1, FilesSame
  <1>3. CASE WorkerStep
    <2>1. UNCHANGED <<json, tmp, data, up, fd, uploadRace>>
      BY <1>3 DEF WorkerStep, CleanupSelect, CleanupRemove, CleanupReset, BackfillOne, BackfillDone,
         TickerSelect, TickerConvert, fileVars, history
    <2> QED
      BY <2>1, FilesSame
  <1>4. ASSUME NEW a \in Admins, AdminStep(a) PROVE FilesInv'
    <2>1. CASE DeleteJson(a)
      <3>1. /\ json' = [json EXCEPT ![fileOf[adm[a].u]] = None]
            /\ UNCHANGED <<tmp, data, up, fd, uploadRace>>
        BY <2>1 DEF DeleteJson, history
      <3> QED
        BY <3>1 DEF FilesInv, Owned, Fresh, Sole, Progress, Landed, Whole, Uploading, TypeOK
    <2>2. CASE RetryRemove(a) \/ RetryReset(a) \/ RetryResetFails(a) \/ DeleteDir(a)
      <3>1. UNCHANGED <<json, tmp, data, up, fd, uploadRace>>
        BY <2>2 DEF RetryRemove, RetryReset, RetryResetFails, DeleteDir, fileVars, history
      <3> QED
        BY <3>1, FilesSame
    <2> QED
      BY <1>4, <2>1, <2>2 DEF AdminStep
  <1>5. ASSUME NEW a \in Admins, NEW u \in Uploads, RetryCheck(a, u) \/ DeleteRow(a, u)
        PROVE  FilesInv'
    <2>1. UNCHANGED <<json, tmp, data, up, fd, uploadRace>>
      BY <1>5 DEF RetryCheck, DeleteRow, fileVars
    <2> QED
      BY <2>1, FilesSame
  <1>6. CASE CrashAndRestart
    <2>1. /\ up' = [u \in Uploads |-> IF Uploading(u) THEN "done" ELSE up[u]]
          /\ UNCHANGED <<json, tmp, data, fd, uploadRace>>
      BY <1>6 DEF CrashAndRestart, fileVars, history
    <2> QED
      BY <2>1 DEF FilesInv, Owned, Fresh, Sole, Progress, Landed, Whole, Uploading, TypeOK
  <1>7. CASE UNCHANGED vars
    <2>1. UNCHANGED <<json, tmp, data, up, fd, uploadRace>>
      BY <1>7 DEF vars, fileVars, procVars, history
    <2> QED
      BY <2>1, FilesSame
  <1> QED
    BY <1>1, <1>2, <1>3, <1>4, <1>5, <1>6, <1>7 DEF Next

-----------------------------------------------------------------------------
\* The rows, the files and every process's local state are always well-typed: no
\* conversion runs without a recording, no admin request without a row it read.
THEOREM TypeCorrect == Spec => []TypeOK
  <1>1. Spec => []Types
    BY TypesInit, TypesStep, PTL DEF Spec
  <1> QED
    BY <1>1, PTL DEF Types

\* At no time do two rows have one filename, which is the key of the files on disk.
THEOREM OneRowPerFilename == Spec => []UniqueFilename
  <1>1. Spec => []Types
    BY TypesInit, TypesStep, PTL DEF Spec
  <1>2. RowsInv /\ Types /\ [Next]_vars => RowsInv'
    BY RowsStep
  <1>3. RowsInv => UniqueFilename
    BY DEF RowsInv
  <1> QED
    BY <1>1, <1>2, <1>3, RowsInit, PTL DEF Spec

\* A deleted or replaced row stays away, whatever conversion of it is still running.
THEOREM DeletedForGood == Spec => NoResurrection
  <1>1. Spec => []Types
    BY TypesInit, TypesStep, PTL DEF Spec
  <1>2. RowsInv /\ Types /\ [Next]_vars => RowsInv'
    BY RowsStep
  <1>3. RowsInv /\ Types /\ [Next]_vars =>
          [\A u \in Uploads : rowId[u] # 0 /\ ~Live(u) => ~Live(u)']_vars
    BY RowsStep
  <1> QED
    BY <1>1, <1>2, <1>3, RowsInit, PTL DEF Spec, NoResurrection

\* A source file that no two uploads wrote concurrently is complete at all times.
THEOREM SourceWhole == Spec => []JsonWhole
  <1>1. Spec => []Types
    BY TypesInit, TypesStep, PTL DEF Spec
  <1>2. FilesInv /\ Types /\ [Next]_vars => FilesInv'
    BY FilesStep
  <1>3. FilesInv => JsonWhole
    BY DEF FilesInv, Landed, JsonWhole
  <1> QED
    BY <1>1, <1>2, <1>3, FilesInit, PTL DEF Spec

-----------------------------------------------------------------------------
(* One process at a time: filenames outside `race`.                         *)

\* Who is at work on f: an upload, a conversion, an admin request, or the worker
\* goroutine, which has u on its list.
UploadAt(u, f) == Uploading(u) /\ fileOf[u] = f
TaskAt(t, f)   == task[t].pc # "idle" /\ fileOf[task[t].u] = f
AdminAt(a, f)  == adm[a].pc # "idle" /\ fileOf[adm[a].u] = f
ListAt(u, f)   == wpc \in {"sweep", "ready"} /\ u \in list /\ fileOf[u] = f

LEMMA BusyWith ==
  ASSUME NEW f
  PROVE  Busy(f) <=> \/ \E u \in Uploads : UploadAt(u, f)
                     \/ \E t \in Tasks : TaskAt(t, f)
                     \/ \E a \in Admins : AdminAt(a, f)
                     \/ wpc \in {"sweep", "ready"} /\ \E u \in list : fileOf[u] = f
  BY DEF Busy, UploadingTo, UploadAt, TaskAt, AdminAt

(***************************************************************************)
(* One at a time. A process that begins to work on a filename while        *)
(* another is at it makes a race of it; one that hands over to another     *)
(* ends as that begins.                                                    *)
(***************************************************************************)
AloneAt(f) ==
    /\ \A u, v \in Uploads : UploadAt(u, f) /\ UploadAt(v, f) => u = v
    /\ \A t, q \in Tasks : TaskAt(t, f) /\ TaskAt(q, f) => t = q
    /\ \A a, b \in Admins : AdminAt(a, f) /\ AdminAt(b, f) => a = b
    /\ \A u, v \in Uploads : ListAt(u, f) /\ ListAt(v, f) => u = v
    /\ \A u \in Uploads, t \in Tasks : ~(UploadAt(u, f) /\ TaskAt(t, f))
    /\ \A u \in Uploads, a \in Admins : ~(UploadAt(u, f) /\ AdminAt(a, f))
    /\ \A u, v \in Uploads : ~(UploadAt(u, f) /\ ListAt(v, f))
    /\ \A t \in Tasks, a \in Admins : ~(TaskAt(t, f) /\ AdminAt(a, f))
    /\ \A t \in Tasks, u \in Uploads : ~(TaskAt(t, f) /\ ListAt(u, f))
    /\ \A a \in Admins, u \in Uploads : ~(AdminAt(a, f) /\ ListAt(u, f))

Alone == \A f \in Files \ race : AloneAt(f)

\* Nobody begins to work on f.
NoneJoins(f) ==
    /\ \A u \in Uploads : UploadAt(u, f)' => UploadAt(u, f)
    /\ \A t \in Tasks : TaskAt(t, f)' => TaskAt(t, f)
    /\ \A a \in Admins : AdminAt(a, f)' => AdminAt(a, f)
    /\ \A u \in Uploads : ListAt(u, f)' => ListAt(u, f)

LEMMA NoneJoinsAlone == ASSUME NEW f, AloneAt(f), NoneJoins(f) PROVE AloneAt(f)'
  BY DEF AloneAt, NoneJoins

LEMMA AloneInit == Init => Alone
  BY DEF Init, Alone, AloneAt, UploadAt, TaskAt, AdminAt, ListAt, Uploading, NoTask, NoAdmin

\* A conversion begins.
LEMMA TaskBegins ==
  ASSUME TypeOK, NEW t \in Tasks, NEW u \in Uploads, task' = [task EXCEPT ![t] = NewTask(u)], NEW f
  PROVE  \A q \in Tasks : TaskAt(q, f)' => TaskAt(q, f) \/ (q = t /\ f = fileOf[u])
  <1>1. \A q \in Tasks : task'[q] = IF q = t THEN NewTask(u) ELSE task[q]
    BY DEF TypeOK
  <1> SUFFICES ASSUME NEW q \in Tasks, TaskAt(q, f)' PROVE TaskAt(q, f) \/ (q = t /\ f = fileOf[u])
    OBVIOUS
  <1>2. CASE q = t
    <2>1. task'[q].u = u
      BY <1>1, <1>2 DEF NewTask
    <2> QED
      BY <1>2, <2>1 DEF TaskAt
  <1>3. CASE q # t
    BY <1>1, <1>3 DEF TaskAt
  <1> QED
    BY <1>2, <1>3

\* Processes that do not move are where they were.
LEMMA SamePlaces ==
  ASSUME NEW f
  PROVE  /\ UNCHANGED up => \A u \in Uploads : UploadAt(u, f)' <=> UploadAt(u, f)
         /\ UNCHANGED task => \A t \in Tasks : TaskAt(t, f)' <=> TaskAt(t, f)
         /\ UNCHANGED adm => \A a \in Admins : AdminAt(a, f)' <=> AdminAt(a, f)
         /\ UNCHANGED <<wpc, list>> => \A u \in Uploads : ListAt(u, f)' <=> ListAt(u, f)
  BY DEF UploadAt, TaskAt, AdminAt, ListAt, Uploading

\* Uploads.
LEMMA AloneUpload ==
  ASSUME Types, Alone, NEW u \in Uploads,
         UploadCreate(u) \/ UploadStep(u) \/ UploadAbort(u) \/ UploadStoreFails(u),
         NEW f \in Files \ race'
  PROVE  AloneAt(f)'
  <1> USE DEF Types
  <1>1. CASE UploadCreate(u)
    <2>1. /\ up' = [up EXCEPT ![u] = "created"] /\ race' = race \cup BusyOnes({fileOf[u]})
          /\ UNCHANGED <<task, adm, wpc, list>>
      BY <1>1 DEF UploadCreate
    <2>2. AloneAt(f) /\ (f = fileOf[u] => ~Busy(f))
      BY <2>1 DEF Alone, BusyOnes
    <2>3. /\ \A v \in Uploads : UploadAt(v, f)' => UploadAt(v, f) \/ (v = u /\ f = fileOf[u])
          /\ \A t \in Tasks : TaskAt(t, f)' <=> TaskAt(t, f)
          /\ \A a \in Admins : AdminAt(a, f)' <=> AdminAt(a, f)
          /\ \A v \in Uploads : ListAt(v, f)' <=> ListAt(v, f)
      <3>1. \A v \in Uploads \ {u} : up'[v] = up[v]
        BY <2>1 DEF TypeOK
      <3> QED
        BY <2>1, <3>1, SamePlaces DEF UploadAt, Uploading
    <2>4. CASE f = fileOf[u]
      <3>1. /\ \A v \in Uploads : ~UploadAt(v, f) /\ ~ListAt(v, f)
            /\ \A t \in Tasks : ~TaskAt(t, f)
            /\ \A a \in Admins : ~AdminAt(a, f)
        BY <2>2, <2>4, BusyWith DEF ListAt
      <3> QED
        BY <2>3, <3>1 DEF AloneAt
    <2>5. CASE f # fileOf[u]
      BY <2>2, <2>3, <2>5, NoneJoinsAlone DEF NoneJoins
    <2> QED
      BY <2>4, <2>5
  <1>2. CASE UploadFinish(u)
    <2>1. /\ up' = [up EXCEPT ![u] = "done"] /\ Uploading(u)
          /\ task' = task \/ (task[u].pc = "idle" /\ task' = [task EXCEPT ![u] = NewTask(u)])
          /\ UNCHANGED <<adm, wpc, list, race>>
      BY <1>2 DEF UploadFinish, Trigger, history, Uploading
    <2>2. AloneAt(f)
      BY <2>1 DEF Alone
    <2>3. /\ \A v \in Uploads : UploadAt(v, f)' => UploadAt(v, f) /\ v # u
          /\ \A t \in Tasks : TaskAt(t, f)' => TaskAt(t, f) \/ (t = u /\ f = fileOf[u])
          /\ \A a \in Admins : AdminAt(a, f)' <=> AdminAt(a, f)
          /\ \A v \in Uploads : ListAt(v, f)' <=> ListAt(v, f)
      <3>1. \A v \in Uploads : up'[v] = IF v = u THEN "done" ELSE up[v]
        BY <2>1 DEF TypeOK
      <3>2. u \in Tasks
        BY DEF Tasks
      <3> QED
        BY <2>1, <3>1, <3>2, SamePlaces, TaskBegins DEF UploadAt, Uploading
    <2>4. CASE f = fileOf[u]
      <3>1. UploadAt(u, f) /\ u \in Tasks
        BY <2>1, <2>4 DEF UploadAt, Tasks
      <3> QED
        BY <2>2, <2>3, <3>1 DEF AloneAt
    <2>5. CASE f # fileOf[u]
      BY <2>2, <2>3, <2>5, NoneJoinsAlone DEF NoneJoins
    <2> QED
      BY <2>4, <2>5
  <1>3. CASE UploadWrite(u) \/ UploadRename(u) \/ UploadStore(u) \/ UploadDropDir(u)
    <2>1. UNCHANGED <<task, adm, wpc, list, race>>
      BY <1>3 DEF UploadWrite, UploadRename, UploadStore, UploadDropDir, history
    <2>2. \A v \in Uploads : Uploading(v)' => Uploading(v)
      BY <1>3 DEF UploadWrite, UploadRename, UploadStore, UploadDropDir, Uploading, TypeOK
    <2> QED
      BY <2>1, <2>2, NoneJoinsAlone DEF NoneJoins, Alone, UploadAt, TaskAt, AdminAt, ListAt
  <1>4. CASE UploadAbort(u) \/ UploadStoreFails(u)
    <2>1. UNCHANGED <<task, adm, wpc, list, race>>
      BY <1>4 DEF UploadAbort, UploadStoreFails, history
    <2>2. \A v \in Uploads : Uploading(v)' => Uploading(v)
      BY <1>4 DEF UploadAbort, UploadStoreFails, Uploading, TypeOK
    <2> QED
      BY <2>1, <2>2, NoneJoinsAlone DEF NoneJoins, Alone, UploadAt, TaskAt, AdminAt, ListAt
  <1> QED
    BY <1>1, <1>2, <1>3, <1>4 DEF UploadStep

\* A conversion works on one recording until it ends.
LEMMA TaskGoesOn ==
  ASSUME Types, NEW t \in Tasks, TaskStep(t) \/ ConvertError(t)
  PROVE  /\ \A q \in Tasks \ {t} : task'[q] = task[q]
         /\ task'[t].pc # "idle" => task'[t].u = task[t].u
         /\ task[t].pc # "idle"
         /\ UNCHANGED <<up, adm, wpc, list, race>>
  <1> USE DEF Types, Goto, At
  <1>1. CASE MarkConverting(t) \/ OpenJson(t) \/ BucketPositions(t)
    BY <1>1 DEF MarkConverting, OpenJson, BucketPositions, TypeOK, history
  <1>2. CASE AssembleChunks(t) \/ WriteManifest(t) \/ RecordStats(t) \/ SetProtobuf(t)
    BY <1>2 DEF AssembleChunks, WriteManifest, RecordStats, SetProtobuf, TypeOK, history
  <1>3. CASE Finish(t) \/ ConvertError(t)
    BY <1>3 DEF Finish, ConvertError, TypeOK, NoTask, history
  <1> QED
    BY <1>1, <1>2, <1>3 DEF TaskStep

LEMMA AloneTask ==
  ASSUME Types, Alone, NEW t \in Tasks, TaskStep(t) \/ ConvertError(t), NEW f \in Files \ race'
  PROVE  AloneAt(f)'
  <1>1. NoneJoins(f)
    BY TaskGoesOn DEF NoneJoins, UploadAt, TaskAt, AdminAt, ListAt, Uploading
  <1>2. AloneAt(f)
    BY TaskGoesOn DEF Alone
  <1> QED
    BY <1>1, <1>2, NoneJoinsAlone

\* The worker goroutine selects rows, of which a filename has one.
LEMMA AloneSelect ==
  ASSUME Types, RowsInv, Alone, NEW S, S \subseteq {u \in Uploads : Live(u)},
         UNCHANGED <<up, task, adm>>, list' = S,
         \A u \in list : wpc \notin {"sweep", "ready"},
         race' = race \cup BusyOnes(FilesOf(S)),
         NEW f \in Files \ race'
  PROVE  AloneAt(f)'
  <1>1. /\ AloneAt(f)
        /\ (\E u \in S : fileOf[u] = f) => ~Busy(f)
    BY DEF Alone, BusyOnes, FilesOf
  <1>2. /\ \A u \in Uploads : UploadAt(u, f)' <=> UploadAt(u, f) /\ ~ListAt(u, f)
        /\ \A t \in Tasks : TaskAt(t, f)' <=> TaskAt(t, f)
        /\ \A a \in Admins : AdminAt(a, f)' <=> AdminAt(a, f)
        /\ \A u \in Uploads : ListAt(u, f)' => u \in S /\ fileOf[u] = f
    BY DEF UploadAt, TaskAt, AdminAt, ListAt, Uploading
  <1>3. \A u, v \in Uploads : ListAt(u, f)' /\ ListAt(v, f)' => u = v
    BY <1>2 DEF RowsInv, UniqueFilename
  <1>4. CASE \E u \in S : fileOf[u] = f
    <2>1. /\ \A u \in Uploads : ~UploadAt(u, f)
          /\ \A t \in Tasks : ~TaskAt(t, f)
          /\ \A a \in Admins : ~AdminAt(a, f)
      BY <1>1, <1>4, BusyWith
    <2> QED
      BY <1>2, <1>3, <2>1 DEF AloneAt
  <1>5. CASE ~\E u \in S : fileOf[u] = f
    BY <1>1, <1>2, <1>5, NoneJoinsAlone DEF NoneJoins
  <1> QED
    BY <1>4, <1>5

LEMMA AloneWorker ==
  ASSUME Types, RowsInv, Alone, WorkerStep, NEW f \in Files \ race'
  PROVE  AloneAt(f)'
  <1> USE DEF Types
  <1>1. CASE CleanupSelect
    <2>1. RowsWith("converting") \subseteq {u \in Uploads : Live(u)}
      BY DEF RowsWith, Live
    <2> QED
      BY <1>1, <2>1, AloneSelect DEF CleanupSelect
  <1>2. CASE TickerSelect
    <2>1. SelectPending(BatchSize) \subseteq {u \in Uploads : Live(u)}
      BY DEF SelectPending, RowsWith, Live
    <2> QED
      BY <1>2, <2>1, AloneSelect DEF TickerSelect
  <1>3. CASE CleanupReset \/ BackfillDone \/ \E u \in Uploads : CleanupRemove(u) \/ BackfillOne(u)
    <2>1. /\ UNCHANGED <<up, task, adm, race>>
          /\ wpc' \in {"sweep", "ready"} => (wpc' = wpc /\ list' \subseteq list) \/ list' = {}
      BY <1>3 DEF CleanupReset, BackfillDone, CleanupRemove, BackfillOne, history
    <2> QED
      BY <2>1, NoneJoinsAlone DEF NoneJoins, Alone, UploadAt, TaskAt, AdminAt, ListAt, Uploading
  <1>4. ASSUME NEW u \in Uploads, TickerConvert(u) PROVE AloneAt(f)'
    <2>1. /\ UNCHANGED <<up, adm, wpc, race>> /\ wpc = "ready" /\ u \in list /\ list' = list \ {u}
          /\ Ticker \in Tasks /\ task[Ticker].pc = "idle"
          /\ task' = [task EXCEPT ![Ticker] = NewTask(u)]
      BY <1>4 DEF TickerConvert, At, Tasks, history
    <2>2. AloneAt(f)
      BY <2>1 DEF Alone
    <2>3. /\ \A v \in Uploads : UploadAt(v, f)' <=> UploadAt(v, f)
          /\ \A t \in Tasks : TaskAt(t, f)' => TaskAt(t, f) \/ (t = Ticker /\ f = fileOf[u])
          /\ \A a \in Admins : AdminAt(a, f)' <=> AdminAt(a, f)
          /\ \A v \in Uploads : ListAt(v, f)' => ListAt(v, f) /\ v # u
      BY <2>1, SamePlaces, TaskBegins DEF ListAt
    <2>4. CASE f = fileOf[u]
      <3>1. ListAt(u, f)
        BY <2>1, <2>4 DEF ListAt
      <3> QED
        BY <2>2, <2>3, <3>1 DEF AloneAt
    <2>5. CASE f # fileOf[u]
      BY <2>2, <2>3, <2>5, NoneJoinsAlone DEF NoneJoins
    <2> QED
      BY <2>4, <2>5
  <1> QED
    BY <1>1, <1>2, <1>3, <1>4 DEF WorkerStep

LEMMA AloneAdmin ==
  ASSUME Types, RowsInv, Alone, NEW a \in Admins,
         AdminStep(a) \/ \E u \in Uploads : RetryCheck(a, u) \/ DeleteRow(a, u),
         NEW f \in Files \ race'
  PROVE  AloneAt(f)'
  <1> USE DEF Types
  <1>1. CASE RetryReset(a)
    <2> DEFINE u == adm[a].u
    <2>1. /\ UNCHANGED <<up, wpc, list, race>> /\ adm' = [adm EXCEPT ![a] = NoAdmin]
          /\ task' = task \/ (task[u].pc = "idle" /\ task' = [task EXCEPT ![u] = NewTask(u)])
          /\ u \in Uploads /\ adm[a].pc # "idle" /\ u \in Tasks
      BY <1>1 DEF RetryReset, Trigger, history, TypeOK, Tasks
    <2>2. AloneAt(f)
      BY <2>1 DEF Alone
    <2>3. \A b \in Admins : AdminAt(b, f)' => AdminAt(b, f) /\ b # a
      <3>1. \A b \in Admins : adm'[b] = IF b = a THEN NoAdmin ELSE adm[b]
        BY <2>1 DEF TypeOK
      <3> QED
        BY <3>1 DEF AdminAt, NoAdmin
    <2>4. /\ \A v \in Uploads : UploadAt(v, f)' <=> UploadAt(v, f)
          /\ \A t \in Tasks : TaskAt(t, f)' => TaskAt(t, f) \/ (t = u /\ f = fileOf[u])
          /\ \A v \in Uploads : ListAt(v, f)' <=> ListAt(v, f)
      BY <2>1, SamePlaces, TaskBegins
    <2>5. CASE f = fileOf[u]
      <3>1. AdminAt(a, f)
        BY <2>1, <2>5 DEF AdminAt
      <3> QED
        BY <2>2, <2>3, <2>4, <3>1 DEF AloneAt
    <2>6. CASE f # fileOf[u]
      BY <2>2, <2>3, <2>4, <2>6, NoneJoinsAlone DEF NoneJoins
    <2> QED
      BY <2>5, <2>6
  <1>2. CASE RetryRemove(a) \/ RetryResetFails(a) \/ DeleteJson(a) \/ DeleteDir(a)
    <2>1. UNCHANGED <<up, task, wpc, list, race>>
      BY <1>2 DEF RetryRemove, RetryResetFails, DeleteJson, DeleteDir, history
    <2>2. \A b \in Admins : AdminAt(b, f)' => AdminAt(b, f)
      <3>1. /\ \A b \in Admins \ {a} : adm'[b] = adm[b]
            /\ adm'[a].pc # "idle" => adm'[a].u = adm[a].u /\ adm[a].pc # "idle"
        BY <1>2 DEF RetryRemove, RetryResetFails, DeleteJson, DeleteDir, TypeOK, NoAdmin
      <3> QED
        BY <3>1 DEF AdminAt
    <2> QED
      BY <2>1, <2>2, SamePlaces, NoneJoinsAlone DEF NoneJoins, Alone
  <1>3. ASSUME NEW u \in Uploads, RetryCheck(a, u) \/ DeleteRow(a, u)
        PROVE  AloneAt(f)'
    <2>1. /\ UNCHANGED <<up, task, wpc, list>> /\ race' = race \cup BusyOnes({fileOf[u]})
          /\ \A b \in Admins \ {a} : adm'[b] = adm[b]
          /\ adm[a].pc = "idle" /\ adm'[a].u = u
      <3>1. CASE RetryCheck(a, u)
        BY <3>1 DEF RetryCheck, TypeOK
      <3>2. CASE DeleteRow(a, u)
        BY <3>2 DEF DeleteRow, TypeOK
      <3> QED
        BY <1>3, <3>1, <3>2
    <2>2. AloneAt(f) /\ (f = fileOf[u] => ~Busy(f))
      BY <2>1 DEF Alone, BusyOnes
    <2>3. /\ \A v \in Uploads : UploadAt(v, f)' <=> UploadAt(v, f)
          /\ \A t \in Tasks : TaskAt(t, f)' <=> TaskAt(t, f)
          /\ \A b \in Admins : AdminAt(b, f)' => AdminAt(b, f) \/ (b = a /\ f = fileOf[u])
          /\ \A v \in Uploads : ListAt(v, f)' <=> ListAt(v, f)
      BY <2>1, SamePlaces DEF AdminAt
    <2>4. CASE f = fileOf[u]
      <3>1. /\ \A v \in Uploads : ~UploadAt(v, f) /\ ~ListAt(v, f)
            /\ \A t \in Tasks : ~TaskAt(t, f)
            /\ \A b \in Admins : ~AdminAt(b, f)
        BY <2>2, <2>4, BusyWith DEF ListAt
      <3> QED
        BY <2>3, <3>1 DEF AloneAt
    <2>5. CASE f # fileOf[u]
      BY <2>2, <2>3, <2>5, NoneJoinsAlone DEF NoneJoins
    <2> QED
      BY <2>4, <2>5
  <1> QED
    BY <1>1, <1>2, <1>3 DEF AdminStep

LEMMA AloneNext == Types /\ RowsInv /\ Alone /\ [Next]_vars => Alone'
  <1> SUFFICES ASSUME Types, RowsInv, Alone, [Next]_vars, NEW f \in Files \ race' PROVE AloneAt(f)'
    BY DEF Alone
  <1>1. ASSUME NEW u \in Uploads,
               UploadCreate(u) \/ UploadStep(u) \/ UploadAbort(u) \/ UploadStoreFails(u)
        PROVE  AloneAt(f)'
    BY <1>1, AloneUpload
  <1>2. ASSUME NEW t \in Tasks, TaskStep(t) \/ ConvertError(t) PROVE AloneAt(f)'
    BY <1>2, AloneTask
  <1>3. CASE WorkerStep
    BY <1>3, AloneWorker
  <1>4. ASSUME NEW a \in Admins,
               AdminStep(a) \/ \E u \in Uploads : RetryCheck(a, u) \/ DeleteRow(a, u)
        PROVE  AloneAt(f)'
    BY <1>4, AloneAdmin
  <1>5. CASE CrashAndRestart
    <2>1. /\ \A u \in Uploads : ~UploadAt(u, f)' /\ ~ListAt(u, f)'
          /\ \A t \in Tasks : ~TaskAt(t, f)'
          /\ \A a \in Admins : ~AdminAt(a, f)'
      BY <1>5 DEF CrashAndRestart, UploadAt, TaskAt, AdminAt, ListAt, Uploading, NoTask, NoAdmin
    <2> QED
      BY <2>1 DEF AloneAt
  <1>6. CASE UNCHANGED vars
    <2>1. UNCHANGED <<up, task, adm, wpc, list, race>>
      BY <1>6 DEF vars, procVars, history
    <2> QED
      BY <2>1, SamePlaces, NoneJoinsAlone DEF NoneJoins, Alone
  <1> QED
    BY <1>1, <1>2, <1>3, <1>4, <1>5, <1>6 DEF Next

(***************************************************************************)
(* Status. A row is completed at the end of its upload or its conversion,  *)
(* and nothing works on the filename of a completed row that does not      *)
(* delete or replace it.                                                   *)
(***************************************************************************)
LiveStored == \A u \in Uploads : Live(u) => rowId[u] # 0

\* Work that a completed row must not meet; an upload counts from its store on.
Claimed(f) ==
    \/ \E t \in Tasks : TaskAt(t, f)
    \/ \E a \in Admins : AdminAt(a, f)
    \/ \E u \in Uploads : ListAt(u, f)
    \/ \E u \in Uploads : up[u] \in {"stored", "dropped"} /\ fileOf[u] = f

NoneCompleted(f) == \A u \in Uploads : fileOf[u] = f => status[u] # "completed"

Unfinished == \A f \in Files \ race : Claimed(f) => NoneCompleted(f)

LEMMA LiveStoredInit == Init => LiveStored
  BY DEF Init, LiveStored, Live

LEMMA LiveStoredNext == Types /\ LiveStored /\ [Next]_vars => LiveStored'
  <1> SUFFICES ASSUME Types, LiveStored, [Next]_vars PROVE LiveStored'
    OBVIOUS
  <1>1. CASE \E u \in Uploads : UploadStore(u)
    <2>1. PICK u \in Uploads : UploadStore(u)
      BY <1>1
    <2>2. rowId' = [rowId EXCEPT ![u] = nextId] /\ nextId # 0
      BY <2>1 DEF UploadStore, Types, TypeOK
    <2>3. \A v \in Uploads \ {u} : Live(v)' => Live(v)
      BY <2>1 DEF UploadStore, Live, Types, TypeOK
    <2> QED
      BY <2>2, <2>3 DEF LiveStored, Types, TypeOK
  <1>2. CASE \A u \in Uploads : ~UploadStore(u)
    BY <1>2, RowsOtherwise DEF LiveStored
  <1> QED
    BY <1>1, <1>2

LEMMA UnfinishedInit == Init => Unfinished
  BY DEF Init, Unfinished, NoneCompleted

\* Where nothing begins and nothing is completed.
LEMMA UnfinishedKept ==
  ASSUME Unfinished, NEW f \in Files \ race, Claimed(f)' => Claimed(f),
         \A u \in Uploads : fileOf[u] = f /\ status'[u] = "completed" => status[u] = "completed"
  PROVE  Claimed(f)' => NoneCompleted(f)'
  BY DEF Unfinished, NoneCompleted

\* Updates by id.
LEMMA SetStatusAt ==
  ASSUME TypeOK, NEW u \in Uploads, NEW s \in Statuses, status' = SetStatus(u, s)
  PROVE  /\ \A v \in Uploads \ {u} : status'[v] = status[v]
         /\ status'[u] = s \/ (status[u] = "absent" /\ status'[u] = "absent")
  BY DEF SetStatus, TypeOK, Live

LEMMA UnfinishedUpload ==
  ASSUME Types, Alone, Unfinished, NEW u \in Uploads,
         UploadCreate(u) \/ UploadStep(u) \/ UploadAbort(u) \/ UploadStoreFails(u),
         NEW f \in Files \ race'
  PROVE  Claimed(f)' => NoneCompleted(f)'
  <1> USE DEF Types
  <1>0. f \in Files \ race
    BY DEF UploadStep, UploadCreate, UploadWrite, UploadAbort, UploadRename, UploadStore,
           UploadStoreFails, UploadDropDir, UploadFinish, history
  <1>1. CASE UploadStore(u)
    <2>1. /\ up' = [up EXCEPT ![u] = "stored"]
          /\ UNCHANGED <<task, adm, wpc, list>>
      BY <1>1 DEF UploadStore
    <2>2. \A v \in Uploads : IF fileOf[v] = fileOf[u] THEN status'[v] \in {"pending", "absent"}
                             ELSE status'[v] = status[v]
      BY <1>1 DEF UploadStore, Live
    <2>3. CASE f = fileOf[u]
      BY <2>2, <2>3 DEF NoneCompleted
    <2>4. CASE f # fileOf[u]
      <3>1. Claimed(f)' => Claimed(f)
        <4>1. \A v \in Uploads \ {u} : up'[v] = up[v]
          BY <2>1 DEF TypeOK
        <4> QED
          BY <2>1, <2>4, <4>1, SamePlaces DEF Claimed
      <3> QED
        BY <1>0, <2>2, <2>4, <3>1, UnfinishedKept
    <2> QED
      BY <2>3, <2>4
  <1>2. CASE UploadFinish(u)
    <2>1. /\ up[u] = "dropped" /\ up' = [up EXCEPT ![u] = "done"]
          /\ UNCHANGED <<adm, wpc, list>>
          /\ \/ Trigger(u) /\ UNCHANGED status
             \/ status' = SetStatus(u, "completed") /\ UNCHANGED task
             \/ UNCHANGED <<status, task>>
      BY <1>2 DEF UploadFinish
    <2>2. \A v \in Uploads : up'[v] = IF v = u THEN "done" ELSE up[v]
      BY <2>1 DEF TypeOK
    <2>3. CASE UNCHANGED status
      <3>1. \A t \in Tasks : TaskAt(t, f)' => TaskAt(t, f) \/ f = fileOf[u]
        <4>1. u \in Tasks
          BY DEF Tasks
        <4> QED
          BY <2>1, <4>1, SamePlaces, TaskBegins DEF Trigger
      <3>2. Claimed(f)' => Claimed(f)
        BY <2>1, <2>2, <3>1, SamePlaces DEF Claimed
      <3> QED
        BY <1>0, <2>3, <3>2, UnfinishedKept
    <2>4. CASE status' = SetStatus(u, "completed") /\ UNCHANGED task
      <3>1. CASE f = fileOf[u]
        <4>1. UploadAt(u, f) /\ AloneAt(f)
          BY <1>0, <2>1, <3>1 DEF UploadAt, Uploading, Alone
        <4>2. \A v \in Uploads : up'[v] \in {"stored", "dropped"} => UploadAt(v, fileOf[v]) /\ v # u
          BY <2>2 DEF UploadAt, Uploading
        <4> QED
          BY <2>1, <2>4, <4>1, <4>2, SamePlaces DEF Claimed, AloneAt
      <3>2. CASE f # fileOf[u]
        <4>1. Claimed(f)' => Claimed(f)
          BY <2>1, <2>2, <2>4, SamePlaces DEF Claimed
        <4>2. \A v \in Uploads \ {u} : status'[v] = status[v]
          BY <2>4, SetStatusAt DEF Statuses
        <4> QED
          BY <1>0, <3>2, <4>1, <4>2, UnfinishedKept
      <3> QED
        BY <3>1, <3>2
    <2> QED
      BY <2>1, <2>3, <2>4
  <1>3. CASE \/ UploadCreate(u) \/ UploadWrite(u) \/ UploadAbort(u) \/ UploadRename(u)
             \/ UploadDropDir(u) \/ UploadStoreFails(u)
    <2>1. UNCHANGED <<status, task, adm, wpc, list>>
      BY <1>3 DEF UploadCreate, UploadWrite, UploadAbort, UploadRename, UploadDropDir, UploadStoreFails,
                  rowVars
    <2>2. \A v \in Uploads : up'[v] \in {"stored", "dropped"} => up[v] \in {"stored", "dropped"}
      BY <1>3 DEF UploadCreate, UploadWrite, UploadAbort, UploadRename, UploadDropDir, UploadStoreFails,
                  TypeOK
    <2>3. Claimed(f)' => Claimed(f)
      BY <2>1, <2>2, SamePlaces DEF Claimed
    <2> QED
      BY <1>0, <2>1, <2>3, UnfinishedKept
  <1> QED
    BY <1>1, <1>2, <1>3 DEF UploadStep

LEMMA UnfinishedTask ==
  ASSUME Types, Alone, Unfinished, NEW t \in Tasks, TaskStep(t) \/ ConvertError(t),
         NEW f \in Files \ race'
  PROVE  Claimed(f)' => NoneCompleted(f)'
  <1> USE DEF Types
  <1> DEFINE u == task[t].u
  <1>1. /\ \A q \in Tasks \ {t} : task'[q] = task[q]
        /\ task'[t].pc # "idle" => task'[t].u = u
        /\ task[t].pc # "idle" /\ u \in Uploads
        /\ UNCHANGED <<up, adm, wpc, list, race>>
    BY TaskGoesOn DEF TypeOK
  <1>2. f \in Files \ race /\ AloneAt(f)
    BY <1>1 DEF Alone
  <1>3. Claimed(f)' => Claimed(f)
    BY <1>1, SamePlaces DEF Claimed, TaskAt
  <1>4. CASE Finish(t)
    <2>1. \A v \in Uploads \ {u} : status'[v] = status[v]
      BY <1>1, <1>4, SetStatusAt DEF Finish, Statuses
    <2>2. CASE f = fileOf[u]
      <3>1. TaskAt(t, f)
        BY <1>1, <2>2 DEF TaskAt
      <3>2. \A q \in Tasks : ~TaskAt(q, f)'
        <4>1. task'[t] = NoTask
          BY <1>4 DEF Finish, TypeOK
        <4> QED
          BY <1>1, <1>2, <3>1, <4>1 DEF AloneAt, TaskAt, NoTask
      <3>3. ~Claimed(f)'
        BY <1>1, <1>2, <3>1, <3>2, SamePlaces DEF Claimed, AloneAt, UploadAt, Uploading
      <3> QED
        BY <3>3
    <2>3. CASE f # fileOf[u]
      BY <1>2, <1>3, <2>1, <2>3, UnfinishedKept
    <2> QED
      BY <2>2, <2>3
  <1>5. CASE MarkConverting(t)
    <2>1. \A v \in Uploads : status'[v] = "completed" => status[v] = "completed"
      BY <1>1, <1>5, SetStatusAt DEF MarkConverting, Statuses
    <2> QED
      BY <1>2, <1>3, <2>1, UnfinishedKept
  <1>6. CASE UNCHANGED status
    BY <1>2, <1>3, <1>6, UnfinishedKept
  <1>7. TaskStep(t) \/ ConvertError(t) => Finish(t) \/ MarkConverting(t) \/ UNCHANGED status
    BY DEF TaskStep, OpenJson, BucketPositions, AssembleChunks, WriteManifest, RecordStats, SetProtobuf,
           ConvertError, rowVars
  <1> QED
    BY <1>4, <1>5, <1>6, <1>7

\* The worker goroutine selects rows that are not completed.
LEMMA UnfinishedSelect ==
  ASSUME Types, RowsInv, Unfinished, NEW S, NEW s \in Statuses \ {"completed"},
         S \subseteq RowsWith(s),
         UNCHANGED <<status, up, task, adm>>, list' = S, NEW f \in Files \ race
  PROVE  Claimed(f)' => NoneCompleted(f)'
  <1>1. CASE \E u \in S : fileOf[u] = f
    <2>1. PICK u \in S : fileOf[u] = f
      BY <1>1
    <2>2. u \in Uploads /\ status[u] = s /\ Live(u)
      BY <2>1 DEF RowsWith, Live, Statuses
    <2> QED
      BY <2>1, <2>2 DEF NoneCompleted, RowsInv, UniqueFilename, Live
  <1>2. CASE ~\E u \in S : fileOf[u] = f
    <2>1. \A u \in Uploads : ~ListAt(u, f)'
      BY <1>2 DEF ListAt
    <2>2. Claimed(f)' => Claimed(f)
      BY <2>1, SamePlaces DEF Claimed
    <2> QED
      BY <2>2, UnfinishedKept
  <1> QED
    BY <1>1, <1>2

LEMMA UnfinishedWorker ==
  ASSUME Types, RowsInv, Unfinished, WorkerStep, NEW f \in Files \ race'
  PROVE  Claimed(f)' => NoneCompleted(f)'
  <1> USE DEF Types
  <1>0. f \in Files \ race
    BY DEF WorkerStep, CleanupSelect, CleanupRemove, CleanupReset, BackfillOne, BackfillDone, TickerSelect,
           TickerConvert, history
  <1>1. CASE CleanupSelect
    BY <1>0, <1>1, UnfinishedSelect DEF CleanupSelect, Statuses, rowVars
  <1>2. CASE TickerSelect
    <2>1. SelectPending(BatchSize) \subseteq RowsWith("pending")
      BY DEF SelectPending
    <2> QED
      BY <1>0, <1>2, <2>1, UnfinishedSelect DEF TickerSelect, Statuses, rowVars
  <1>3. CASE CleanupReset \/ BackfillDone \/ \E u \in Uploads : CleanupRemove(u) \/ BackfillOne(u)
    <2>1. /\ UNCHANGED <<up, task, adm>>
          /\ wpc' \in {"sweep", "ready"} => (wpc' = wpc /\ list' \subseteq list) \/ list' = {}
      BY <1>3 DEF CleanupReset, BackfillDone, CleanupRemove, BackfillOne
    <2>2. \A u \in Uploads : status'[u] = "completed" => status[u] = "completed"
      BY <1>3 DEF CleanupReset, BackfillDone, CleanupRemove, BackfillOne, rowVars
    <2>3. Claimed(f)' => Claimed(f)
      BY <2>1, SamePlaces DEF Claimed, ListAt
    <2> QED
      BY <1>0, <2>2, <2>3, UnfinishedKept
  <1>4. ASSUME NEW u \in Uploads, TickerConvert(u)
        PROVE  Claimed(f)' => NoneCompleted(f)'
    <2>1. /\ UNCHANGED <<status, up, adm, wpc>> /\ wpc = "ready" /\ u \in list /\ list' = list \ {u}
          /\ Ticker \in Tasks /\ task' = [task EXCEPT ![Ticker] = NewTask(u)]
      BY <1>4 DEF TickerConvert, Tasks, rowVars
    <2>2. \A t \in Tasks : TaskAt(t, f)' => TaskAt(t, f) \/ ListAt(u, f)
      BY <2>1, TaskBegins DEF ListAt
    <2>3. Claimed(f)' => Claimed(f)
      BY <2>1, <2>2, SamePlaces DEF Claimed, ListAt
    <2> QED
      BY <1>0, <2>1, <2>3, UnfinishedKept
  <1> QED
    BY <1>1, <1>2, <1>3, <1>4 DEF WorkerStep

LEMMA UnfinishedAdmin ==
  ASSUME Types, RowsInv, Unfinished, NEW a \in Admins,
         AdminStep(a) \/ \E u \in Uploads : RetryCheck(a, u) \/ DeleteRow(a, u),
         NEW f \in Files \ race'
  PROVE  Claimed(f)' => NoneCompleted(f)'
  <1> USE DEF Types
  <1>0. f \in Files \ race
    BY DEF AdminStep, RetryRemove, RetryReset, RetryResetFails, DeleteJson, DeleteDir, RetryCheck,
           DeleteRow, history
  <1>1. CASE RetryReset(a)
    <2> DEFINE u == adm[a].u
    <2>1. /\ UNCHANGED <<up, wpc, list>> /\ adm' = [adm EXCEPT ![a] = NoAdmin]
          /\ task' = task \/ task' = [task EXCEPT ![u] = NewTask(u)]
          /\ u \in Uploads /\ adm[a].pc # "idle" /\ u \in Tasks /\ status' = SetStatus(u, "pending")
      BY <1>1 DEF RetryReset, Trigger, TypeOK, Tasks
    <2>2. \A b \in Admins : AdminAt(b, f)' => AdminAt(b, f)
      <3>1. \A b \in Admins : adm'[b] = IF b = a THEN NoAdmin ELSE adm[b]
        BY <2>1 DEF TypeOK
      <3> QED
        BY <3>1 DEF AdminAt, NoAdmin
    <2>3. \A t \in Tasks : TaskAt(t, f)' => TaskAt(t, f) \/ AdminAt(a, f)
      <3>1. f = fileOf[u] => AdminAt(a, f)
        BY <2>1 DEF AdminAt
      <3>2. CASE UNCHANGED task
        BY <3>2, SamePlaces
      <3>3. CASE task' = [task EXCEPT ![u] = NewTask(u)]
        BY <2>1, <3>1, <3>3, TaskBegins
      <3> QED
        BY <2>1, <3>2, <3>3
    <2>4. Claimed(f)' => Claimed(f)
      BY <2>1, <2>2, <2>3, SamePlaces DEF Claimed
    <2>5. \A v \in Uploads : status'[v] = "completed" => status[v] = "completed"
      BY <2>1, SetStatusAt DEF Statuses
    <2> QED
      BY <1>0, <2>4, <2>5, UnfinishedKept
  <1>2. CASE RetryRemove(a) \/ RetryResetFails(a) \/ DeleteJson(a) \/ DeleteDir(a)
    <2>1. UNCHANGED <<status, up, task, wpc, list>>
      BY <1>2 DEF RetryRemove, RetryResetFails, DeleteJson, DeleteDir, rowVars
    <2>2. \A b \in Admins : AdminAt(b, f)' => AdminAt(b, f)
      <3>1. /\ \A b \in Admins \ {a} : adm'[b] = adm[b]
            /\ adm'[a].pc # "idle" => adm'[a].u = adm[a].u /\ adm[a].pc # "idle"
        BY <1>2 DEF RetryRemove, RetryResetFails, DeleteJson, DeleteDir, TypeOK, NoAdmin
      <3> QED
        BY <3>1 DEF AdminAt
    <2>3. Claimed(f)' => Claimed(f)
      BY <2>1, <2>2, SamePlaces DEF Claimed
    <2> QED
      BY <1>0, <2>1, <2>3, UnfinishedKept
  <1>3. ASSUME NEW u \in Uploads, RetryCheck(a, u) \/ DeleteRow(a, u)
        PROVE  Claimed(f)' => NoneCompleted(f)'
    <2>1. /\ UNCHANGED <<up, task, wpc, list>>
          /\ \A b \in Admins \ {a} : adm'[b] = adm[b]
          /\ adm'[a].u = u
      <3>1. CASE RetryCheck(a, u)
        BY <3>1 DEF RetryCheck, TypeOK
      <3>2. CASE DeleteRow(a, u)
        BY <3>2 DEF DeleteRow, TypeOK
      <3> QED
        BY <1>3, <3>1, <3>2
    <2>2. /\ Live(u) /\ status'[u] # "completed"
          /\ \A v \in Uploads \ {u} : status'[v] = status[v]
      <3>1. CASE RetryCheck(a, u)
        BY <3>1 DEF RetryCheck, Live, rowVars
      <3>2. CASE DeleteRow(a, u)
        BY <3>2 DEF DeleteRow, Live, TypeOK
      <3> QED
        BY <1>3, <3>1, <3>2
    <2>3. CASE f = fileOf[u]
      BY <2>2, <2>3 DEF NoneCompleted, RowsInv, UniqueFilename, Live
    <2>4. CASE f # fileOf[u]
      <3>1. Claimed(f)' => Claimed(f)
        BY <2>1, <2>4, SamePlaces DEF Claimed, AdminAt
      <3> QED
        BY <1>0, <2>2, <2>4, <3>1, UnfinishedKept
    <2> QED
      BY <2>3, <2>4
  <1> QED
    BY <1>1, <1>2, <1>3 DEF AdminStep

LEMMA UnfinishedNext == Types /\ RowsInv /\ Alone /\ Unfinished /\ [Next]_vars => Unfinished'
  <1> SUFFICES ASSUME Types, RowsInv, Alone, Unfinished, [Next]_vars, NEW f \in Files \ race',
                      Claimed(f)'
               PROVE  NoneCompleted(f)'
    BY DEF Unfinished
  <1>1. ASSUME NEW u \in Uploads,
               UploadCreate(u) \/ UploadStep(u) \/ UploadAbort(u) \/ UploadStoreFails(u)
        PROVE  NoneCompleted(f)'
    BY <1>1, UnfinishedUpload
  <1>2. ASSUME NEW t \in Tasks, TaskStep(t) \/ ConvertError(t) PROVE NoneCompleted(f)'
    BY <1>2, UnfinishedTask
  <1>3. CASE WorkerStep
    BY <1>3, UnfinishedWorker
  <1>4. ASSUME NEW a \in Admins,
               AdminStep(a) \/ \E u \in Uploads : RetryCheck(a, u) \/ DeleteRow(a, u)
        PROVE  NoneCompleted(f)'
    BY <1>4, UnfinishedAdmin
  <1>5. CASE CrashAndRestart
    BY <1>5 DEF CrashAndRestart, Claimed, TaskAt, AdminAt, ListAt, Uploading, NoTask, NoAdmin
  <1>6. CASE UNCHANGED vars
    <2>1. UNCHANGED <<status, up, task, adm, wpc, list, race>>
      BY <1>6 DEF vars, rowVars, procVars, history
    <2> QED
      BY <2>1, SamePlaces DEF Unfinished, Claimed, NoneCompleted
  <1> QED
    BY <1>1, <1>2, <1>3, <1>4, <1>5, <1>6 DEF Next

\* What is known of the rows and who is at work on them.
RowsKnown == Types /\ RowsInv /\ LiveStored /\ Alone /\ Unfinished

LEMMA RowsKnownInit == Init => RowsKnown
  BY TypesInit, RowsInit, LiveStoredInit, AloneInit, UnfinishedInit DEF RowsKnown

LEMMA RowsKnownNext == RowsKnown /\ [Next]_vars => RowsKnown'
  BY TypesStep, RowsStep, LiveStoredNext, AloneNext, UnfinishedNext DEF RowsKnown

LEMMA RowsKnownAlways == Spec => []RowsKnown
  BY RowsKnownInit, RowsKnownNext, PTL DEF Spec

\* No step takes a completed row back.
LEMMA CompletedNext ==
  ASSUME RowsKnown, [Next]_vars, NEW u \in Uploads, status[u] = "completed", fileOf[u] \notin race'
  PROVE  status'[u] \in {"completed", "absent"}
  <1> USE StoreAssumption DEF RowsKnown, Types
  <1> DEFINE f == fileOf[u]
  <1>0. f \in Files
    OBVIOUS
  <1>1. ASSUME NEW v \in Uploads,
               UploadCreate(v) \/ UploadStep(v) \/ UploadAbort(v) \/ UploadStoreFails(v)
        PROVE  status'[u] \in {"completed", "absent"}
    <2>1. CASE UploadStore(v)
      <3>1. u # v
        BY <2>1 DEF UploadStore, LiveStored, RowsInv, StoredOnce, Live
      <3> QED
        BY <2>1, <3>1 DEF UploadStore
    <2>2. CASE UploadFinish(v)
      <3>1. status' = status \/ status' = SetStatus(v, "completed")
        BY <2>2 DEF UploadFinish
      <3> QED
        BY <3>1, SetStatusAt DEF Statuses
    <2>3. CASE UNCHANGED status
      BY <2>3
    <2> QED
      BY <1>1, <2>1, <2>2, <2>3
         DEF UploadCreate, UploadStep, UploadWrite, UploadRename, UploadDropDir, UploadAbort,
             UploadStoreFails, rowVars
  <1>2. ASSUME NEW t \in Tasks, TaskStep(t) \/ ConvertError(t)
        PROVE  status'[u] \in {"completed", "absent"}
    <2>1. task[t].u \in Uploads /\ task[t].pc # "idle" /\ UNCHANGED race
      BY <1>2, TaskGoesOn DEF TypeOK
    <2>2. task[t].u # u
      BY <1>0, <2>1 DEF Unfinished, Claimed, NoneCompleted, TaskAt
    <2>3. UNCHANGED status \/ \E s \in Statuses : status' = SetStatus(task[t].u, s)
      BY <1>2 DEF TaskStep, MarkConverting, OpenJson, BucketPositions, AssembleChunks, WriteManifest,
                  RecordStats, SetProtobuf, Finish, ConvertError, Statuses, rowVars
    <2> QED
      BY <2>1, <2>2, <2>3, SetStatusAt
  <1>3. CASE WorkerStep
    BY <1>3 DEF WorkerStep, CleanupSelect, CleanupRemove, CleanupReset, BackfillOne, BackfillDone,
                TickerSelect, TickerConvert, rowVars
  <1>4. ASSUME NEW a \in Admins, AdminStep(a)
        PROVE  status'[u] \in {"completed", "absent"}
    <2>1. CASE RetryReset(a)
      <3>1. adm[a].u \in Uploads /\ adm[a].pc # "idle" /\ UNCHANGED race
        BY <2>1 DEF RetryReset, TypeOK, history
      <3>2. adm[a].u # u
        BY <1>0, <3>1 DEF Unfinished, Claimed, NoneCompleted, AdminAt
      <3> QED
        BY <2>1, <3>1, <3>2, SetStatusAt DEF RetryReset, Statuses
    <2>2. CASE UNCHANGED status
      BY <2>2
    <2> QED
      BY <1>4, <2>1, <2>2 DEF AdminStep, RetryRemove, RetryResetFails, DeleteJson, DeleteDir, rowVars
  <1>5. ASSUME NEW a \in Admins, NEW v \in Uploads, RetryCheck(a, v) \/ DeleteRow(a, v)
        PROVE  status'[u] \in {"completed", "absent"}
    <2>1. UNCHANGED status \/ status' = [status EXCEPT ![v] = "absent"]
      BY <1>5 DEF RetryCheck, DeleteRow, rowVars
    <2> QED
      BY <2>1 DEF TypeOK
  <1>6. CASE CrashAndRestart \/ UNCHANGED vars
    BY <1>6 DEF CrashAndRestart, vars, rowVars
  <1> QED
    BY <1>1, <1>2, <1>3, <1>4, <1>5, <1>6 DEF Next

\* A completed recording stays completed until it is deleted or replaced
\* (CompletedStable, part of what store_replace checks): conversions, retries, the clean-up
\* after a crash and the ticker leave it alone.
THEOREM CompletedStays == Spec => CompletedStable
  <1>1. RowsKnown /\ [Next]_vars
        => [\A u \in RowsWith("completed") :
               fileOf[u] \notin race' => status'[u] \in {"completed", "absent"}]_vars
    BY CompletedNext DEF RowsWith
  <1> QED
    BY <1>1, RowsKnownAlways, PTL DEF Spec, CompletedStable

(***************************************************************************)
(* Sources. The file at the final name is that of the row from its rename  *)
(* on; it is removed only when the filename has no row.                    *)
(***************************************************************************)
RacesKnown == uploadRace \subseteq race

Deleting ==
    \A a \in Admins :
        adm[a].pc \in {"deleteJson", "deleteDir"} /\ fileOf[adm[a].u] \notin race =>
            \A u \in Uploads : fileOf[u] = fileOf[adm[a].u] => ~Live(u)

Renamed ==
    \A u \in Uploads :
        up[u] = "renamed" /\ fileOf[u] \notin race =>
            json[fileOf[u]] # None /\ data[json[fileOf[u]]] = <<u, u>>

SourcesInv == RacesKnown /\ Deleting /\ Renamed /\ SourceKept

SourcesKnown == RowsKnown /\ FilesInv /\ SourcesInv

LEMMA SourcesInit == Init => SourcesInv
  BY DEF Init, SourcesInv, RacesKnown, Deleting, Renamed, SourceKept, Live, NoAdmin

\* Races are remembered.
LEMMA RaceGrows ==
  ASSUME Types, [Next]_vars
  PROVE  race \subseteq race' /\ (RacesKnown => RacesKnown')
  <1> USE DEF RacesKnown
  <1>1. CASE \E u \in Uploads : UploadCreate(u)
    <2>1. PICK u \in Uploads : UploadCreate(u)
      BY <1>1
    <2>2. UploadingTo(fileOf[u]) => Busy(fileOf[u])
      BY DEF Busy
    <2> QED
      BY <2>1, <2>2 DEF UploadCreate, BusyOnes
  <1>2. ASSUME NEW u \in Uploads, UploadStep(u) \/ UploadAbort(u) \/ UploadStoreFails(u)
        PROVE  UNCHANGED history
    BY <1>2 DEF UploadStep, UploadWrite, UploadAbort, UploadRename, UploadStore, UploadStoreFails,
                UploadDropDir, UploadFinish
  <1>3. ASSUME NEW t \in Tasks, TaskStep(t) \/ ConvertError(t) PROVE UNCHANGED history
    BY <1>3 DEF TaskStep, MarkConverting, OpenJson, BucketPositions, AssembleChunks, WriteManifest,
                RecordStats, SetProtobuf, Finish, ConvertError
  <1>4. WorkerStep => race \subseteq race' /\ UNCHANGED uploadRace
    BY DEF WorkerStep, CleanupSelect, CleanupRemove, CleanupReset, BackfillOne, BackfillDone, TickerSelect,
           TickerConvert, history
  <1>5. ASSUME NEW a \in Admins,
               AdminStep(a) \/ \E u \in Uploads : RetryCheck(a, u) \/ DeleteRow(a, u)
        PROVE  race \subseteq race' /\ UNCHANGED uploadRace
    BY <1>5 DEF AdminStep, RetryRemove, RetryReset, RetryResetFails, DeleteJson, DeleteDir, RetryCheck,
                DeleteRow, history
  <1>6. CrashAndRestart \/ UNCHANGED vars => UNCHANGED history
    BY DEF CrashAndRestart, vars, history
  <1> QED
    BY <1>1, <1>2, <1>3, <1>4, <1>5, <1>6 DEF Next, history

\* Only the deletion of its row makes a request delete the files of a filename.
LEMMA DeletesBegin ==
  ASSUME Types, [Next]_vars, NEW a \in Admins, adm'[a].pc \in {"deleteJson", "deleteDir"}
  PROVE  \/ adm[a].pc \in {"deleteJson", "deleteDir"} /\ adm'[a].u = adm[a].u
         \/ \E u \in Uploads : DeleteRow(a, u) /\ adm'[a].u = u
  <1> USE DEF Types
  <1>1. ASSUME NEW u \in Uploads,
               UploadCreate(u) \/ UploadStep(u) \/ UploadAbort(u) \/ UploadStoreFails(u)
        PROVE  UNCHANGED adm
    BY <1>1 DEF UploadStep, UploadCreate, UploadWrite, UploadAbort, UploadRename, UploadStore,
                UploadStoreFails, UploadDropDir, UploadFinish
  <1>2. ASSUME NEW t \in Tasks, TaskStep(t) \/ ConvertError(t) PROVE UNCHANGED adm
    BY <1>2, TaskGoesOn
  <1>3. WorkerStep => UNCHANGED adm
    BY DEF WorkerStep, CleanupSelect, CleanupRemove, CleanupReset, BackfillOne, BackfillDone, TickerSelect,
           TickerConvert
  <1>4. ASSUME NEW b \in Admins, AdminStep(b)
        PROVE  adm[a].pc \in {"deleteJson", "deleteDir"} /\ adm'[a].u = adm[a].u
    BY <1>4 DEF AdminStep, RetryRemove, RetryReset, RetryResetFails, DeleteJson, DeleteDir, NoAdmin, TypeOK
  <1>5. ASSUME NEW b \in Admins, NEW u \in Uploads, RetryCheck(b, u)
        PROVE  adm'[a] = adm[a]
    BY <1>5 DEF RetryCheck, TypeOK
  <1>6. ASSUME NEW b \in Admins, NEW u \in Uploads, DeleteRow(b, u)
        PROVE  adm'[a] = adm[a] \/ (b = a /\ adm'[a].u = u)
    BY <1>6 DEF DeleteRow, TypeOK
  <1>7. ~CrashAndRestart
    BY DEF CrashAndRestart, NoAdmin
  <1>8. UNCHANGED vars => UNCHANGED adm
    BY DEF vars, procVars
  <1> QED
    BY <1>1, <1>2, <1>3, <1>4, <1>5, <1>6, <1>7, <1>8 DEF Next

LEMMA DeletingNext ==
  ASSUME RowsKnown, Deleting, [Next]_vars
  PROVE  Deleting'
  <1> USE StoreAssumption DEF RowsKnown
  <1> SUFFICES ASSUME NEW a \in Admins, adm'[a].pc \in {"deleteJson", "deleteDir"},
                      fileOf[adm'[a].u] \notin race',
                      NEW v \in Uploads, fileOf[v] = fileOf[adm'[a].u]
               PROVE  ~Live(v)'
    BY DEF Deleting
  <1>1. fileOf[adm'[a].u] \notin race
    BY RaceGrows
  <1>2. CASE \E u \in Uploads : DeleteRow(a, u) /\ adm'[a].u = u
    <2>1. PICK u \in Uploads : DeleteRow(a, u) /\ adm'[a].u = u
      BY <1>2
    <2>2. v # u => ~Live(v)
      BY <2>1 DEF DeleteRow, RowsInv, UniqueFilename
    <2> QED
      BY <2>1, <2>2 DEF DeleteRow, Live, Types, TypeOK
  <1>3. CASE adm[a].pc \in {"deleteJson", "deleteDir"} /\ adm'[a].u = adm[a].u
    <2>1. ~Live(v)
      BY <1>1, <1>3 DEF Deleting
    <2>2. CASE \E w \in Uploads : UploadStore(w)
      <3>1. PICK w \in Uploads : UploadStore(w)
        BY <2>2
      <3>2. AdminAt(a, fileOf[v]) /\ AloneAt(fileOf[v])
        BY <1>1, <1>3 DEF AdminAt, Alone
      <3>3. UploadAt(w, fileOf[w])
        BY <3>1 DEF UploadAt, UploadStore, Uploading
      <3>4. w # v
        BY <3>2, <3>3 DEF AloneAt
      <3> QED
        BY <2>1, <3>1, <3>4 DEF UploadStore, Live
    <2>3. CASE \A w \in Uploads : ~UploadStore(w)
      BY <2>1, <2>3, RowsOtherwise
    <2> QED
      BY <2>2, <2>3
  <1> QED
    BY <1>2, <1>3, DeletesBegin DEF Types

\* Steps that touch no source file and store no row.
LEMMA SourcesSame ==
  ASSUME Renamed, SourceKept, UNCHANGED <<json, data, rowId>>, race \subseteq race',
         \A u \in Uploads : Live(u)' => Live(u),
         \A u \in Uploads : up'[u] = "renamed" => up[u] = "renamed"
  PROVE  Renamed' /\ SourceKept'
  BY DEF Renamed, SourceKept, PlaysJson, Sources, Whole

\* What an upload may write is nobody's source.
LEMMA InodeApart ==
  ASSUME Types, FilesInv, RacesKnown, NEW w \in Uploads, NEW f \in Files \ race, json[f] # None
  PROVE  /\ up[w] = "idle" => json[f] # (IF tmp[fileOf[w]] = None THEN w ELSE tmp[fileOf[w]])
         /\ up[w] \in {"created", "half"} => json[f] # fd[w]
  <1> USE StoreAssumption DEF Types, FilesInv
  <1>1. fileOf[json[f]] = f /\ f \notin uploadRace /\ json[f] # tmp[f]
    BY DEF Owned, RacesKnown, Landed
  <1>2. ASSUME up[w] = "idle"
        PROVE  json[f] # (IF tmp[fileOf[w]] = None THEN w ELSE tmp[fileOf[w]])
    <2>1. json[f] # w
      BY <1>2 DEF Fresh
    <2>2. fileOf[w] # f /\ tmp[fileOf[w]] # None => json[f] # tmp[fileOf[w]]
      BY <1>1 DEF Owned
    <2> QED
      BY <1>1, <2>1, <2>2
  <1>3. ASSUME up[w] \in {"created", "half"} PROVE json[f] # fd[w]
    <2>1. fileOf[fd[w]] = fileOf[w]
      BY <1>3 DEF Owned
    <2>2. CASE fileOf[w] = f
      BY <1>1, <1>3, <2>2 DEF Progress
    <2>3. CASE fileOf[w] # f
      BY <1>1, <2>1, <2>3
    <2> QED
      BY <2>2, <2>3
  <1> QED
    BY <1>2, <1>3

\* Steps that write no inode that is a source and store no row.
LEMMA SourcesWrite ==
  ASSUME Renamed, SourceKept, UNCHANGED <<json, rowId, status>>, race \subseteq race',
         \A u \in Uploads : up'[u] = "renamed" => up[u] = "renamed",
         \A f \in Files \ race : json[f] # None => data'[json[f]] = data[json[f]]
  PROVE  Renamed' /\ SourceKept'
  <1> USE StoreAssumption
  <1>1. Renamed'
    BY DEF Renamed
  <1>2. SourceKept'
    BY DEF SourceKept, PlaysJson, Sources, Whole, Live
  <1> QED
    BY <1>1, <1>2

LEMMA SourcesUpload ==
  ASSUME SourcesKnown, [Next]_vars, NEW w \in Uploads,
         UploadCreate(w) \/ UploadStep(w) \/ UploadAbort(w) \/ UploadStoreFails(w)
  PROVE  Renamed' /\ SourceKept'
  <1> USE StoreAssumption DEF SourcesKnown, RowsKnown, SourcesInv, Types
  <1>0. race \subseteq race'
    BY RaceGrows
  <1>1. CASE UploadCreate(w)
    <2> DEFINE i == IF tmp[fileOf[w]] = None THEN w ELSE tmp[fileOf[w]]
    <2>1. /\ up[w] = "idle" /\ up' = [up EXCEPT ![w] = "created"]
          /\ data' = [data EXCEPT ![i] = Empty] /\ UNCHANGED <<json, rowId, status>>
      BY <1>1 DEF UploadCreate, rowVars
    <2>2. \A f \in Files \ race : json[f] # None => data'[json[f]] = data[json[f]]
      BY <2>1, InodeApart DEF TypeOK
    <2>3. \A u \in Uploads : up'[u] = "renamed" => up[u] = "renamed"
      BY <2>1 DEF TypeOK
    <2> QED
      BY <1>0, <2>1, <2>2, <2>3, SourcesWrite
  <1>2. CASE UploadWrite(w)
    <2>1. /\ up[w] \in {"created", "half"} /\ UNCHANGED <<json, rowId, status>>
          /\ \E d : data' = [data EXCEPT ![fd[w]] = d]
          /\ \E p \in {"half", "written"} : up' = [up EXCEPT ![w] = p]
      <3>1. CASE up[w] = "created"
        BY <1>2, <3>1 DEF UploadWrite, rowVars
      <3>2. CASE up[w] = "half"
        BY <1>2, <3>2 DEF UploadWrite, rowVars
      <3> QED
        BY <1>2, <3>1, <3>2 DEF UploadWrite
    <2>2. \A f \in Files \ race : json[f] # None => data'[json[f]] = data[json[f]]
      BY <2>1, InodeApart DEF TypeOK
    <2>3. \A u \in Uploads : up'[u] = "renamed" => up[u] = "renamed"
      BY <2>1 DEF TypeOK
    <2> QED
      BY <1>0, <2>1, <2>2, <2>3, SourcesWrite
  <1>3. CASE UploadRename(w) /\ tmp[fileOf[w]] # None
    <2> DEFINE g == fileOf[w]
    <2>1. /\ up[w] = "written" /\ up' = [up EXCEPT ![w] = "renamed"]
          /\ json' = [json EXCEPT ![g] = tmp[g]]
          /\ UNCHANGED <<data, rowId, status, race>>
      BY <1>3 DEF UploadRename, rowVars, history
    <2>2. g \notin race => tmp[g] \in Uploads /\ data[tmp[g]] = <<w, w>>
      BY <2>1 DEF FilesInv, Progress, RacesKnown
    <2>3. /\ \A f \in Files : json'[f] = IF f = g THEN tmp[g] ELSE json[f]
          /\ \A u \in Uploads : up'[u] = IF u = w THEN "renamed" ELSE up[u]
      BY <2>1 DEF TypeOK
    <2>4. \A u \in Uploads : up[u] = "renamed" /\ fileOf[u] = g /\ g \notin race => u = w
      <3>1. UploadAt(w, g)
        BY <2>1 DEF UploadAt, Uploading
      <3> QED
        BY <3>1 DEF Alone, AloneAt, UploadAt, Uploading
    <2>5. Renamed'
      BY <2>1, <2>2, <2>3, <2>4 DEF Renamed
    <2>6. ASSUME NEW u \in Uploads, Live(u), fileOf[u] \notin race
          PROVE  PlaysJson(u)'
      <3>1. CASE fileOf[u] = g
        <4>1. w \in Sources(u)
          BY <2>1, <3>1 DEF RowsInv, StoredOnce, Sources
        <4> QED
          BY <2>1, <2>2, <2>3, <3>1, <4>1, <2>6 DEF PlaysJson, Whole, Sources
      <3>2. CASE fileOf[u] # g
        BY <2>1, <2>3, <2>6, <3>2 DEF SourceKept, PlaysJson, Whole, Sources
      <3> QED
        BY <3>1, <3>2
    <2>7. SourceKept'
      BY <2>1, <2>6 DEF SourceKept, Live
    <2> QED
      BY <2>5, <2>7
  <1>4. CASE UploadStore(w)
    <2> DEFINE g == fileOf[w]
    <2>1. /\ up[w] = "renamed" /\ up' = [up EXCEPT ![w] = "stored"]
          /\ rowId' = [rowId EXCEPT ![w] = nextId] /\ UNCHANGED <<json, data, race>>
          /\ \A u \in Uploads : Live(u)' => u = w \/ (Live(u) /\ fileOf[u] # g)
      BY <1>4 DEF UploadStore, fileVars, history, Live, TypeOK
    <2>2. Renamed'
      BY <2>1 DEF Renamed, TypeOK
    <2>3. ASSUME NEW u \in Uploads, Live(u)', fileOf[u] \notin race
          PROVE  PlaysJson(u)'
      <3>1. CASE u = w
        <4>1. json[g] # None /\ data[json[g]] = <<w, w>>
          BY <2>1, <2>3, <3>1 DEF Renamed
        <4>2. json'[g] # None /\ data'[json'[g]] = <<w, w>>
          BY <2>1, <4>1
        <4>3. w # None /\ fileOf'[w] = g
          OBVIOUS
        <4> QED
          BY <3>1, <4>2, <4>3 DEF PlaysJson, Whole, Sources
      <3>2. CASE u # w
        <4>1. Live(u) /\ fileOf[u] # g
          BY <2>1, <2>3, <3>2
        <4>2. \A v \in Uploads : fileOf[v] = fileOf[u] => rowId'[v] = rowId[v]
          BY <2>1, <4>1 DEF TypeOK
        <4> QED
          BY <2>1, <2>3, <4>1, <4>2 DEF SourceKept, PlaysJson, Whole, Sources
      <3> QED
        BY <3>1, <3>2
    <2> QED
      BY <2>1, <2>2, <2>3 DEF SourceKept
  <1>5. CASE \/ UploadRename(w) /\ tmp[fileOf[w]] = None
             \/ UploadAbort(w) \/ UploadStoreFails(w) \/ UploadDropDir(w) \/ UploadFinish(w)
    <2>1. UNCHANGED <<json, data, rowId>>
      BY <1>5 DEF UploadRename, UploadAbort, UploadStoreFails, UploadDropDir, UploadFinish, rowVars,
                  fileVars
    <2>2. \A u \in Uploads : up'[u] = "renamed" => up[u] = "renamed"
      BY <1>5 DEF UploadRename, UploadAbort, UploadStoreFails, UploadDropDir, UploadFinish, TypeOK
    <2>3. \A u \in Uploads : ~UploadStore(u)
      <3>1. ASSUME NEW u \in Uploads, UploadStore(u) PROVE FALSE
        <4>1. up'[u] = "stored" /\ up[u] = "renamed"
          BY <3>1 DEF UploadStore, TypeOK
        <4> QED
          BY <1>5, <4>1 DEF UploadRename, UploadAbort, UploadStoreFails, UploadDropDir, UploadFinish, TypeOK
      <3> QED
        BY <3>1
    <2>4. \A u \in Uploads : Live(u)' => Live(u)
      BY <2>3, RowsOtherwise
    <2> QED
      BY <1>0, <2>1, <2>2, <2>4, SourcesSame
  <1> QED
    BY <1>1, <1>2, <1>3, <1>4, <1>5 DEF UploadStep

LEMMA SourcesNext == SourcesKnown /\ [Next]_vars => SourcesKnown'
  <1> SUFFICES ASSUME SourcesKnown, [Next]_vars PROVE Renamed' /\ SourceKept'
    BY RowsKnownNext, FilesStep, RaceGrows, DeletingNext DEF SourcesKnown, RowsKnown, SourcesInv
  <1> USE StoreAssumption DEF SourcesKnown, RowsKnown, SourcesInv, Types
  <1>0. race \subseteq race'
    BY RaceGrows
  <1>1. ASSUME NEW u \in Uploads,
               UploadCreate(u) \/ UploadStep(u) \/ UploadAbort(u) \/ UploadStoreFails(u)
        PROVE  Renamed' /\ SourceKept'
    BY <1>1, SourcesUpload
  <1>2. ASSUME UNCHANGED <<json, data, rowId>>,
               \A u \in Uploads : up'[u] \in {"renamed", "stored"} => up'[u] = up[u]
        PROVE  Renamed' /\ SourceKept'
    <2>1. \A u \in Uploads : ~UploadStore(u)
      BY <1>2 DEF UploadStore, TypeOK
    <2>2. \A u \in Uploads : Live(u)' => Live(u)
      BY <2>1, RowsOtherwise
    <2> QED
      BY <1>0, <1>2, <2>2, SourcesSame
  <1>3. ASSUME NEW t \in Tasks, TaskStep(t) \/ ConvertError(t) PROVE Renamed' /\ SourceKept'
    <2>1. UNCHANGED <<json, data, rowId, up>>
      BY <1>3 DEF TaskStep, MarkConverting, OpenJson, BucketPositions, AssembleChunks, WriteManifest,
                  RecordStats, SetProtobuf, Finish, ConvertError, fileVars, rowVars
    <2> QED
      BY <1>2, <2>1
  <1>4. CASE WorkerStep
    <2>1. UNCHANGED <<json, data, rowId, up>>
      BY <1>4 DEF WorkerStep, CleanupSelect, CleanupRemove, CleanupReset, BackfillOne, BackfillDone,
                  TickerSelect, TickerConvert, fileVars, rowVars
    <2> QED
      BY <1>2, <2>1
  <1>5. ASSUME NEW a \in Admins, DeleteJson(a) PROVE Renamed' /\ SourceKept'
    <2> DEFINE g == fileOf[adm[a].u]
    <2>1. /\ adm[a].pc = "deleteJson" /\ json' = [json EXCEPT ![g] = None]
          /\ UNCHANGED <<data, rowId, up, race, status>>
      BY <1>5 DEF DeleteJson, rowVars, history
    <2>2. \A f \in Files \ {g} : json'[f] = json[f]
      BY <2>1 DEF TypeOK
    <2>3. g \notin race => \A u \in Uploads : fileOf[u] = g => ~Live(u) /\ up[u] # "renamed"
      <3>1. AdminAt(a, g)
        BY <2>1 DEF AdminAt
      <3>2. g \notin race => \A u \in Uploads : fileOf[u] = g => ~Live(u)
        BY <2>1 DEF Deleting
      <3>3. g \notin race => \A u \in Uploads : ~UploadAt(u, g)
        <4>1. adm[a].u \in Uploads
          BY <2>1 DEF TypeOK
        <4> QED
          BY <3>1, <4>1 DEF Alone, AloneAt
      <3> QED
        BY <3>2, <3>3 DEF UploadAt, Uploading
    <2>4. Renamed'
      BY <2>1, <2>2, <2>3 DEF Renamed
    <2>5. ASSUME NEW u \in Uploads, Live(u), fileOf[u] \notin race PROVE PlaysJson(u)'
      <3>1. json'[fileOf[u]] = json[fileOf[u]]
        BY <2>2, <2>3, <2>5
      <3> QED
        BY <2>1, <2>5, <3>1 DEF SourceKept, PlaysJson, Whole, Sources
    <2>6. SourceKept'
      BY <2>1, <2>5 DEF SourceKept, Live
    <2> QED
      BY <2>4, <2>6
  <1>6. ASSUME NEW a \in Admins,
               \/ RetryRemove(a) \/ RetryReset(a) \/ RetryResetFails(a) \/ DeleteDir(a)
               \/ \E u \in Uploads : RetryCheck(a, u) \/ DeleteRow(a, u)
        PROVE  Renamed' /\ SourceKept'
    <2>1. UNCHANGED <<json, data, rowId, up>>
      BY <1>6 DEF RetryRemove, RetryReset, RetryResetFails, DeleteDir, RetryCheck, DeleteRow, rowVars,
                  fileVars
    <2> QED
      BY <1>2, <2>1
  <1>7. CASE CrashAndRestart
    BY <1>2, <1>7 DEF CrashAndRestart, Uploading, fileVars, rowVars, TypeOK
  <1>8. CASE UNCHANGED vars
    BY <1>2, <1>8 DEF vars, fileVars, rowVars, procVars
  <1> QED
    BY <1>1, <1>3, <1>4, <1>5, <1>6, <1>7, <1>8 DEF Next, AdminStep

LEMMA SourcesAlways == Spec => []SourcesKnown
  BY RowsKnownInit, FilesInit, SourcesInit, SourcesNext, PTL DEF Spec, SourcesKnown

\* The source of a row is never lost (SourceKept of the run store_replace), whatever
\* uploads replace it, fail or die half-way.
THEOREM SourceNeverLost == Spec => []SourceKept
  BY SourcesAlways, PTL DEF SourcesKnown, SourcesInv

=============================================================================
