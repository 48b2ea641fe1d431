--------------------------- MODULE RecordingStore ---------------------------
(***************************************************************************)
(* The recording store of the web server: the SQLite row of a recording,   *)
(* its source file <data>/<filename>.json.gz and its converted directory   *)
(* <data>/<filename>/, and the processes that write them concurrently:     *)
(*                                                                         *)
(*   - upload handlers          internal/server/handler.go  StoreOperation *)
(*   - admin handlers           internal/server/handler_admin.go           *)
(*   - the conversion worker    internal/conversion/worker.go  Start       *)
(*   - triggered conversions    worker.go  TriggerConversion goroutines    *)
(*   - the converter they run   internal/storage/streaming_converter.go    *)
(*                                                                         *)
(* Nothing in the code locks a recording: every process addresses the row  *)
(* by id and the files by filename, one statement or system call at a time.*)
(* One action is one such statement or call (or a few with nothing between *)
(* them that another process could notice).                                *)
(***************************************************************************)
EXTENDS Naturals, FiniteSets

CONSTANTS
    Uploads,     \* upload requests; an upload also names its row and its data
    Files,       \* filenames
    fileOf,      \* fileOf[u]: the sanitized filename of upload u
    Bad,         \* uploads whose JSON the converter rejects
    Admins,      \* concurrent admin requests
    Ticker,      \* the conversion task the worker goroutine runs itself
    None,        \* "no file", "no recording"
    Modes,       \* the values conversion.enabled may have at a (re)start
    RetryFailed, \* conversion.retryFailed
    BatchSize,   \* conversion.batchSize
    MaxCrashes   \* bound: how often the server process dies

Tasks == Uploads \cup {Ticker}

ASSUME StoreAssumption ==
    /\ fileOf \in [Uploads -> Files]
    /\ Bad \subseteq Uploads
    /\ Ticker \notin Uploads
    /\ None \notin Uploads
    /\ Modes \subseteq BOOLEAN
    /\ RetryFailed \in BOOLEAN
    /\ BatchSize \in Nat \ {0}
    /\ MaxCrashes \in Nat

VARIABLES
    status,      \* conversion_status of u's row, "absent" without a row
    format,      \* storage_format of u's row
    stats,       \* the recording that u's row's statistics were computed from
    rowId,       \* the id of u's row, kept after the row is deleted
    nextId,      \* the AUTOINCREMENT counter
    json,        \* json[f]: the inode at <f>.json.gz
    tmp,         \* tmp[f]: the inode at <f>.json.gz.tmp
    data,        \* data[i]: which upload wrote the two halves of inode i
    dir,         \* dir[f]: the directory <f>/
    up,          \* up[u]: where upload handler u stands
    fd,          \* fd[u]: the inode upload handler u has open
    task,        \* task[t]: a running convertOperation
    wpc,         \* where the worker goroutine stands
    list,        \* the rows the worker goroutine selected and has still to treat
    adm,         \* adm[a]: an admin request
    enabled,     \* conversion.enabled of the running server
    crashes,     \* how often the server died
    race,        \* history: filenames two processes worked on at the same time
    uploadRace   \* history: filenames two uploads wrote at the same time

rowVars  == <<status, format, stats, rowId, nextId>>
fileVars == <<json, tmp, data, dir>>
procVars == <<up, fd, task, wpc, list, adm>>
envVars  == <<enabled, crashes>>
history  == <<race, uploadRace>>
vars == <<rowVars, fileVars, procVars, envVars, history>>

Statuses == {"pending", "converting", "completed", "failed"}

\* An inode is named by the upload that created it.
Halves  == (Uploads \cup {None}) \X (Uploads \cup {None})
Empty   == <<None, None>>

\* here: the directory exists; tmpDir: its .tmp_chunks exists; bucket: what the
\* conversions wrote there; chunks: whose chunk files it holds and whether they
\* carry exactly that recording's positions; manifest: whose manifest it holds.
NoDir  == [here |-> FALSE, tmpDir |-> FALSE, bucket |-> {}, chunks |-> {}, manifest |-> None]
NewDir == [NoDir EXCEPT !.here = TRUE, !.tmpDir = TRUE]
Dirs   == [here : BOOLEAN, tmpDir : BOOLEAN, bucket : SUBSET (Tasks \X Uploads),
           chunks : SUBSET [of : Uploads, ok : BOOLEAN], manifest : Uploads \cup {None}]

UploadPcs == {"idle", "created", "half", "written", "renamed", "stored", "dropped", "done"}
TaskPcs   == {"idle", "mark", "open", "bucket", "assemble", "manifest", "stats", "format",
              "complete", "fail"}
WorkerPcs == {"off", "boot", "sweep", "backfill", "ready"}
AdminPcs  == {"idle", "retryRemove", "retryReset", "deleteJson", "deleteDir"}

NoTask  == [pc |-> "idle", u |-> None, src |-> None, got |-> None]
NewTask(u) == [pc |-> "mark", u |-> u, src |-> None, got |-> None]
NoAdmin == [pc |-> "idle", u |-> None]

TypeOK ==
    /\ status \in [Uploads -> Statuses \cup {"absent"}]
    /\ format \in [Uploads -> {"json", "protobuf"}]
    /\ stats \in [Uploads -> Uploads \cup {None}]
    /\ rowId \in [Uploads -> Nat]
    /\ nextId \in Nat \ {0}
    /\ json \in [Files -> Uploads \cup {None}]
    /\ tmp \in [Files -> Uploads \cup {None}]
    /\ data \in [Uploads -> Halves]
    /\ dir \in [Files -> Dirs]
    /\ up \in [Uploads -> UploadPcs]
    /\ fd \in [Uploads -> Uploads \cup {None}]
    /\ task \in [Tasks -> [pc : TaskPcs, u : Uploads \cup {None},
                           src : Uploads \cup {None}, got : Uploads \cup {None}]]
    /\ \A t \in Tasks : task[t].pc # "idle" => task[t].u \in Uploads
    /\ wpc \in WorkerPcs
    /\ list \subseteq Uploads
    /\ adm \in [Admins -> [pc : AdminPcs, u : Uploads \cup {None}]]
    /\ \A a \in Admins : adm[a].pc # "idle" => adm[a].u \in Uploads
    /\ enabled \in BOOLEAN
    /\ crashes \in 0..MaxCrashes
    /\ race \subseteq Files
    /\ uploadRace \subseteq Files

-----------------------------------------------------------------------------
(* Rows. Every UPDATE addresses the row by id: on a deleted row it changes  *)
(* nothing and reports no error.                                            *)

Live(u) == status[u] # "absent"

RowsWith(s) == {u \in Uploads : status[u] = s}

\* Mutant: the update is an upsert.
MutSetStatus(u, s) == [status EXCEPT ![u] = s]

SetStatus(u, s) == IF Live(u) THEN [status EXCEPT ![u] = s] ELSE status

\* SELECT ... WHERE conversion_status = 'pending' ORDER BY id ASC LIMIT limit
SelectPending(limit) ==
    {u \in RowsWith("pending") :
        Cardinality({v \in RowsWith("pending") : rowId[v] < rowId[u]}) < limit}

-----------------------------------------------------------------------------
(* Processes at work on a filename, for the history variables.              *)

Uploading(u) == up[u] \notin {"idle", "done"}

UploadingTo(f) == \E u \in Uploads : Uploading(u) /\ fileOf[u] = f

Busy(f) ==
    \/ UploadingTo(f)
    \/ \E t \in Tasks : task[t].pc # "idle" /\ fileOf[task[t].u] = f
    \/ \E a \in Admins : adm[a].pc # "idle" /\ fileOf[adm[a].u] = f
    \/ wpc \in {"sweep", "ready"} /\ \E u \in list : fileOf[u] = f

BusyOnes(S) == {f \in S : Busy(f)}

FilesOf(S) == {fileOf[u] : u \in S}

-----------------------------------------------------------------------------
Init ==
    /\ status = [u \in Uploads |-> "absent"]
    /\ format = [u \in Uploads |-> "json"]
    /\ stats = [u \in Uploads |-> None]
    /\ rowId = [u \in Uploads |-> 0]
    /\ nextId = 1
    /\ json = [f \in Files |-> None]
    /\ tmp = [f \in Files |-> None]
    /\ data = [u \in Uploads |-> Empty]
    /\ dir = [f \in Files |-> NoDir]
    /\ up = [u \in Uploads |-> "idle"]
    /\ fd = [u \in Uploads |-> None]
    /\ task = [t \in Tasks |-> NoTask]
    /\ enabled \in Modes
    /\ wpc = IF enabled THEN "boot" ELSE "off"
    /\ list = {}
    /\ adm = [a \in Admins |-> NoAdmin]
    /\ crashes = 0
    /\ race = {}
    /\ uploadRace = {}

-----------------------------------------------------------------------------
(* StoreOperation, from the temporary file on.                              *)

\* os.Create(<f>.json.gz.tmp): a file already there is truncated, not replaced.
UploadCreate(u) ==
    LET f == fileOf[u]
        i == IF tmp[f] = None THEN u ELSE tmp[f]
    IN  /\ up[u] = "idle"
        /\ up' = [up EXCEPT ![u] = "created"]
        /\ tmp' = [tmp EXCEPT ![f] = i]
        /\ fd' = [fd EXCEPT ![u] = i]
        /\ data' = [data EXCEPT ![i] = Empty]
        /\ race' = race \cup BusyOnes({f})
        /\ uploadRace' = IF UploadingTo(f) THEN uploadRace \cup {f} ELSE uploadRace
        /\ UNCHANGED <<rowVars, json, dir, task, wpc, list, adm, envVars>>

\* io.Copy writes at the handler's own offset, one half after the other.
UploadWrite(u) ==
    /\ up[u] \in {"created", "half"}
    /\ IF up[u] = "created"
       THEN /\ up' = [up EXCEPT ![u] = "half"]
            /\ data' = [data EXCEPT ![fd[u]] = <<u, @[2]>>]
       ELSE /\ up' = [up EXCEPT ![u] = "written"]
            /\ data' = [data EXCEPT ![fd[u]] = <<@[1], u>>]
    /\ UNCHANGED <<rowVars, json, tmp, dir, fd, task, wpc, list, adm, envVars, history>>

\* Mutant: the copy's error is not checked.
MutUploadAbort(u) ==
    /\ up[u] \in {"created", "half"}
    /\ up' = [up EXCEPT ![u] = "written"]
    /\ UNCHANGED <<rowVars, fileVars, fd, task, wpc, list, adm, envVars, history>>

\* Mutant: the error path removes the final path too.
MutUploadAbortRemoves(u) ==
    /\ up[u] \in {"created", "half"}
    /\ up' = [up EXCEPT ![u] = "done"]
    /\ tmp' = [tmp EXCEPT ![fileOf[u]] = None]
    /\ json' = [json EXCEPT ![fileOf[u]] = None]
    /\ UNCHANGED <<rowVars, data, dir, fd, task, wpc, list, adm, envVars, history>>

\* The copy fails (client gone, disk full): os.Remove(tmpPath), 500.
UploadAbort(u) ==
    /\ up[u] \in {"created", "half"}
    /\ up' = [up EXCEPT ![u] = "done"]
    /\ tmp' = [tmp EXCEPT ![fileOf[u]] = None]
    /\ UNCHANGED <<rowVars, json, data, dir, fd, task, wpc, list, adm, envVars, history>>

\* os.Rename(tmpPath, finalPath): moves whatever the .tmp name refers to now.
UploadRename(u) ==
    LET f == fileOf[u]
    IN  /\ up[u] = "written"
        /\ IF tmp[f] = None
           THEN /\ up' = [up EXCEPT ![u] = "done"]
                /\ UNCHANGED <<json, tmp>>
           ELSE /\ up' = [up EXCEPT ![u] = "renamed"]
                /\ json' = [json EXCEPT ![f] = tmp[f]]
                /\ tmp' = [tmp EXCEPT ![f] = None]
        /\ UNCHANGED <<rowVars, data, dir, fd, task, wpc, list, adm, envVars, history>>

\* Mutant: the rows of that filename are not deleted.
MutUploadStore(u) ==
    /\ up[u] = "renamed"
    /\ up' = [up EXCEPT ![u] = "stored"]
    /\ status' = [status EXCEPT ![u] = "pending"]
    /\ rowId' = [rowId EXCEPT ![u] = nextId]
    /\ nextId' = nextId + 1
    /\ UNCHANGED <<format, stats, fileVars, fd, task, wpc, list, adm, envVars, history>>

\* StoreReplacingByFilename: one transaction deletes the rows of that filename
\* and inserts the new one, pending and json.
UploadStore(u) ==
    LET replaced == {v \in Uploads : Live(v) /\ fileOf[v] = fileOf[u]}
    IN  /\ up[u] = "renamed"
        /\ up' = [up EXCEPT ![u] = "stored"]
        /\ status' = [v \in Uploads |-> IF v = u THEN "pending"
                                        ELSE IF v \in replaced THEN "absent" ELSE status[v]]
        /\ format' = [v \in Uploads |-> IF v \in replaced \cup {u} THEN "json" ELSE format[v]]
        /\ stats' = [v \in Uploads |-> IF v \in replaced \cup {u} THEN None ELSE stats[v]]
        /\ rowId' = [rowId EXCEPT ![u] = nextId]
        /\ nextId' = nextId + 1
        /\ UNCHANGED <<fileVars, fd, task, wpc, list, adm, envVars, history>>

\* The transaction fails (request context cancelled, database error): 500.
UploadStoreFails(u) ==
    /\ up[u] = "renamed"
    /\ up' = [up EXCEPT ![u] = "done"]
    /\ UNCHANGED <<rowVars, fileVars, fd, task, wpc, list, adm, envVars, history>>

\* Mutant: the directory of the previous conversion is left.
MutUploadDropDir(u) ==
    /\ up[u] = "stored"
    /\ up' = [up EXCEPT ![u] = "dropped"]
    /\ UNCHANGED <<rowVars, fileVars, fd, task, wpc, list, adm, envVars, history>>

\* os.RemoveAll(<f>/): drop the directory of the recording just replaced.
UploadDropDir(u) ==
    /\ up[u] = "stored"
    /\ up' = [up EXCEPT ![u] = "dropped"]
    /\ dir' = [dir EXCEPT ![fileOf[u]] = NoDir]
    /\ UNCHANGED <<rowVars, json, tmp, data, fd, task, wpc, list, adm, envVars, history>>

\* Mutant: the goroutine is started without its recording.
MutTrigger(u) ==
    /\ task[u].pc = "idle"
    /\ task' = [task EXCEPT ![u] = [NoTask EXCEPT !.pc = "mark"]]

\* go convertOperation(...) of TriggerConversion. Bound: one triggered
\* conversion of a row at a time.
Trigger(u) ==
    /\ task[u].pc = "idle"
    /\ task' = [task EXCEPT ![u] = NewTask(u)]

\* Conversion on: trigger it. Conversion off: the row is completed as it is; the
\* update runs under the request's context and may fail with it.
UploadFinish(u) ==
    /\ up[u] = "dropped"
    /\ up' = [up EXCEPT ![u] = "done"]
    /\ \/ enabled /\ Trigger(u) /\ UNCHANGED status
       \/ ~enabled /\ status' = SetStatus(u, "completed") /\ UNCHANGED task
       \/ ~enabled /\ UNCHANGED <<status, task>>
    /\ UNCHANGED <<format, stats, rowId, nextId, fileVars, fd, wpc, list, adm, envVars, history>>

UploadStep(u) ==
    \/ UploadWrite(u)
    \/ UploadRename(u)
    \/ UploadStore(u)
    \/ UploadDropDir(u)
    \/ UploadFinish(u)

-----------------------------------------------------------------------------
(* convertOperation and, within it, Converter.Convert.                      *)

At(t, pc) == task[t].pc = pc

Goto(t, pc) == task' = [task EXCEPT ![t].pc = pc]

TaskFile(t) == fileOf[task[t].u]

MarkConverting(t) ==
    /\ At(t, "mark")
    /\ status' = SetStatus(task[t].u, "converting")
    /\ Goto(t, "open")
    /\ UNCHANGED <<format, stats, rowId, nextId, fileVars, up, fd, wpc, list, adm, envVars, history>>

\* Mutant: the output directory is not cleared first.
MutOpenJson(t) ==
    LET f == TaskFile(t)
    IN  /\ At(t, "open")
        /\ IF json[f] = None
           THEN Goto(t, "fail") /\ UNCHANGED dir
           ELSE /\ dir' = [dir EXCEPT ![f].here = TRUE, ![f].tmpDir = TRUE]
                /\ task' = [task EXCEPT ![t].pc = "bucket", ![t].src = json[f]]
        /\ UNCHANGED <<rowVars, json, tmp, data, up, fd, wpc, list, adm, envVars, history>>

\* Stat and open the source; then clear the output directory and create it again
\* with an empty .tmp_chunks. A missing source fails before the directory is touched.
OpenJson(t) ==
    LET f == TaskFile(t)
    IN  /\ At(t, "open")
        /\ IF json[f] = None
           THEN Goto(t, "fail") /\ UNCHANGED dir
           ELSE /\ dir' = [dir EXCEPT ![f] = NewDir]
                /\ task' = [task EXCEPT ![t].pc = "bucket", ![t].src = json[f]]
        /\ UNCHANGED <<rowVars, json, tmp, data, up, fd, wpc, list, adm, envVars, history>>

\* The deferred bucket.Cleanup and RemoveAll(bucketDir) of every return path.
WithoutBucket(d) == [d EXCEPT !.tmpDir = FALSE, !.bucket = {}]

\* reader.Process: parse the source, append every position to the bucket files.
\* An incomplete or rejected source fails, and so does a .tmp_chunks that is gone.
BucketPositions(t) ==
    LET f == TaskFile(t)
        c == data[task[t].src][1]
        readable == c = data[task[t].src][2] /\ c \notin Bad \cup {None}
    IN  /\ At(t, "bucket")
        /\ IF readable /\ dir[f].tmpDir
           THEN /\ dir' = [dir EXCEPT ![f].bucket = @ \cup {<<t, c>>}]
                /\ task' = [task EXCEPT ![t].pc = "assemble", ![t].got = c]
           ELSE /\ dir' = [dir EXCEPT ![f] = WithoutBucket(@)]
                /\ Goto(t, "fail")
        /\ UNCHANGED <<rowVars, json, tmp, data, up, fd, wpc, list, adm, envVars, history>>

\* Write every chunk file of the recording, creating <f>/chunks/. A bucket file
\* that is gone reads as an empty chunk, one that two conversions appended to
\* holds every position twice. Chunk files of another recording stay if they lie
\* beyond this one's last chunk.
AssembleChunks(t) ==
    LET f == TaskFile(t)
        c == task[t].got
        exact == \E t2 \in Tasks : dir[f].bucket = {<<t2, c>>}
        others == {x \in dir[f].chunks : x.of # c}
    IN  /\ At(t, "assemble")
        /\ dir' = [dir EXCEPT ![f].here = TRUE, ![f].chunks = others \cup {[of |-> c, ok |-> exact]}]
        /\ Goto(t, "manifest")
        /\ UNCHANGED <<rowVars, json, tmp, data, up, fd, wpc, list, adm, envVars, history>>

WriteManifest(t) ==
    LET f == TaskFile(t)
    IN  /\ At(t, "manifest")
        /\ IF dir[f].here
           THEN /\ dir' = [dir EXCEPT ![f] = [WithoutBucket(@) EXCEPT !.manifest = task[t].got]]
                /\ Goto(t, "stats")
           ELSE Goto(t, "fail") /\ UNCHANGED dir
        /\ UNCHANGED <<rowVars, json, tmp, data, up, fd, wpc, list, adm, envVars, history>>

\* GetManifest, then duration, chunk count and statistics. A manifest that cannot
\* be read and an update that fails are only logged.
RecordStats(t) ==
    LET u == task[t].u
        m == dir[TaskFile(t)].manifest
    IN  /\ At(t, "stats")
        /\ \/ Live(u) /\ m # None /\ stats' = [stats EXCEPT ![u] = m]
           \/ UNCHANGED stats
        /\ Goto(t, "format")
        /\ UNCHANGED <<status, format, rowId, nextId, fileVars, up, fd, wpc, list, adm, envVars, history>>

SetProtobuf(t) ==
    LET u == task[t].u
    IN  /\ At(t, "format")
        /\ format' = IF Live(u) THEN [format EXCEPT ![u] = "protobuf"] ELSE format
        /\ Goto(t, "complete")
        /\ UNCHANGED <<status, stats, rowId, nextId, fileVars, up, fd, wpc, list, adm, envVars, history>>

\* The last update of a conversion: completed, or failed after an error.
Finish(t) ==
    /\ task[t].pc \in {"complete", "fail"}
    /\ status' = SetStatus(task[t].u, IF At(t, "complete") THEN "completed" ELSE "failed")
    /\ task' = [task EXCEPT ![t] = NoTask]
    /\ UNCHANGED <<format, stats, rowId, nextId, fileVars, up, fd, wpc, list, adm, envVars, history>>

\* An I/O error while converting, or a database error at a status or format update.
ConvertError(t) ==
    LET f == TaskFile(t)
    IN  /\ task[t].pc \in {"mark", "bucket", "assemble", "manifest", "format", "complete"}
        /\ dir' = IF task[t].pc \in {"bucket", "assemble", "manifest"}
                  THEN [dir EXCEPT ![f] = WithoutBucket(@)] ELSE dir
        /\ Goto(t, "fail")
        /\ UNCHANGED <<rowVars, json, tmp, data, up, fd, wpc, list, adm, envVars, history>>

TaskStep(t) ==
    \/ MarkConverting(t)
    \/ OpenJson(t)
    \/ BucketPositions(t)
    \/ AssembleChunks(t)
    \/ WriteManifest(t)
    \/ RecordStats(t)
    \/ SetProtobuf(t)
    \/ Finish(t)

-----------------------------------------------------------------------------
(* The worker goroutine: Start.                                             *)

\* cleanupInterrupted, SelectByStatus('converting'). (No code path stores
\* 'streaming', so the reset that precedes it changes no row.)
CleanupSelect ==
    /\ wpc = "boot"
    /\ wpc' = "sweep"
    /\ list' = RowsWith("converting")
    /\ race' = race \cup BusyOnes(FilesOf(list'))
    /\ UNCHANGED <<rowVars, fileVars, up, fd, task, adm, envVars, uploadRace>>

\* cleanupInterrupted, the loop: remove one partial output directory.
CleanupRemove(u) ==
    /\ wpc = "sweep"
    /\ u \in list
    /\ dir' = [dir EXCEPT ![fileOf[u]] = NoDir]
    /\ list' = list \ {u}
    /\ UNCHANGED <<rowVars, json, tmp, data, up, fd, task, wpc, adm, envVars, history>>

\* Mutant: only failed rows are reset.
MutCleanupReset ==
    /\ wpc = "sweep"
    /\ list = {}
    /\ status' = [u \in Uploads |-> IF status[u] = "failed" THEN "pending" ELSE status[u]]
    /\ list' = {u \in RowsWith("completed") : stats[u] = None}
    /\ wpc' = "backfill"
    /\ UNCHANGED <<format, stats, rowId, nextId, fileVars, up, fd, task, adm, envVars, history>>

\* ResetConversionStatus: every row that is converting by now, selected or not;
\* with retryFailed the failed ones too. Then backfillStats selects its rows.
CleanupReset ==
    /\ wpc = "sweep"
    /\ list = {}
    /\ status' = [u \in Uploads |->
                    IF status[u] = "converting" \/ (RetryFailed /\ status[u] = "failed")
                    THEN "pending" ELSE status[u]]
    /\ list' = {u \in RowsWith("completed") : stats[u] = None}
    /\ wpc' = "backfill"
    /\ UNCHANGED <<format, stats, rowId, nextId, fileVars, up, fd, task, adm, envVars, history>>

\* backfillStats, one row: from the converted manifest, else from the JSON source,
\* else, or when the update fails, not at all.
BackfillOne(u) ==
    LET f == fileOf[u]
        fromJson == IF json[f] # None /\ data[json[f]][1] = data[json[f]][2]
                    THEN data[json[f]][1] ELSE None
        found == IF dir[f].manifest # None THEN dir[f].manifest ELSE fromJson
    IN  /\ wpc = "backfill"
        /\ u \in list
        /\ \/ Live(u) /\ found # None /\ stats' = [stats EXCEPT ![u] = found]
           \/ UNCHANGED stats
        /\ list' = list \ {u}
        /\ UNCHANGED <<status, format, rowId, nextId, fileVars, up, fd, task, wpc, adm, envVars, history>>

BackfillDone ==
    /\ wpc = "backfill"
    /\ list = {}
    /\ wpc' = "ready"
    /\ UNCHANGED <<rowVars, fileVars, up, fd, task, list, adm, envVars, history>>

\* processOnce (at the start and at every tick): SelectPending.
TickerSelect ==
    /\ wpc = "ready"
    /\ list = {}
    /\ At(Ticker, "idle")
    /\ RowsWith("pending") # {}
    /\ list' = SelectPending(BatchSize)
    /\ race' = race \cup BusyOnes(FilesOf(list'))
    /\ UNCHANGED <<rowVars, fileVars, up, fd, task, wpc, adm, envVars, uploadRace>>

\* processOnce, the loop: convert the selected rows one by one, oldest first.
TickerConvert(u) ==
    /\ wpc = "ready"
    /\ At(Ticker, "idle")
    /\ u \in list
    /\ \A v \in list : rowId[u] <= rowId[v]
    /\ list' = list \ {u}
    /\ task' = [task EXCEPT ![Ticker] = NewTask(u)]
    /\ UNCHANGED <<rowVars, fileVars, up, fd, wpc, adm, envVars, history>>

WorkerStep ==
    \/ CleanupSelect
    \/ \E u \in Uploads : CleanupRemove(u)
    \/ CleanupReset
    \/ \E u \in Uploads : BackfillOne(u)
    \/ BackfillDone
    \/ TickerSelect
    \/ \E u \in Uploads : TickerConvert(u)

-----------------------------------------------------------------------------
(* Admin requests: RetryConversion and DeleteOperation.                     *)

\* Mutant: only pending and converting recordings are refused.
MutRetryCheck(a, u) ==
    /\ adm[a].pc = "idle"
    /\ status[u] \in {"failed", "completed"}
    /\ adm' = [adm EXCEPT ![a] = [pc |-> "retryRemove", u |-> u]]
    /\ race' = race \cup BusyOnes({fileOf[u]})
    /\ UNCHANGED <<rowVars, fileVars, up, fd, task, wpc, list, envVars, uploadRace>>

\* GetByID, the status check.
RetryCheck(a, u) ==
    /\ adm[a].pc = "idle"
    /\ status[u] = "failed"
    /\ adm' = [adm EXCEPT ![a] = [pc |-> "retryRemove", u |-> u]]
    /\ race' = race \cup BusyOnes({fileOf[u]})
    /\ UNCHANGED <<rowVars, fileVars, up, fd, task, wpc, list, envVars, uploadRace>>

RetryRemove(a) ==
    /\ adm[a].pc = "retryRemove"
    /\ dir' = [dir EXCEPT ![fileOf[adm[a].u]] = NoDir]
    /\ adm' = [adm EXCEPT ![a].pc = "retryReset"]
    /\ UNCHANGED <<rowVars, json, tmp, data, up, fd, task, wpc, list, envVars, history>>

\* The row is set to pending whatever became of it since the check.
RetryReset(a) ==
    LET u == adm[a].u
    IN  /\ adm[a].pc = "retryReset"
        /\ status' = SetStatus(u, "pending")
        /\ IF enabled THEN Trigger(u) ELSE UNCHANGED task
        /\ adm' = [adm EXCEPT ![a] = NoAdmin]
        /\ UNCHANGED <<format, stats, rowId, nextId, fileVars, up, fd, wpc, list, envVars, history>>

\* The update fails: an error, with the directory already removed.
RetryResetFails(a) ==
    /\ adm[a].pc = "retryReset"
    /\ adm' = [adm EXCEPT ![a] = NoAdmin]
    /\ UNCHANGED <<rowVars, fileVars, up, fd, task, wpc, list, envVars, history>>

\* GetByID and DELETE ... WHERE id.
DeleteRow(a, u) ==
    /\ adm[a].pc = "idle"
    /\ Live(u)
    /\ status' = [status EXCEPT ![u] = "absent"]
    /\ format' = [format EXCEPT ![u] = "json"]
    /\ stats' = [stats EXCEPT ![u] = None]
    /\ adm' = [adm EXCEPT ![a] = [pc |-> "deleteJson", u |-> u]]
    /\ race' = race \cup BusyOnes({fileOf[u]})
    /\ UNCHANGED <<rowId, nextId, fileVars, up, fd, task, wpc, list, envVars, uploadRace>>

\* removeRecordingArtifacts: the source file, then the directory.
DeleteJson(a) ==
    /\ adm[a].pc = "deleteJson"
    /\ json' = [json EXCEPT ![fileOf[adm[a].u]] = None]
    /\ adm' = [adm EXCEPT ![a].pc = "deleteDir"]
    /\ UNCHANGED <<rowVars, tmp, data, dir, up, fd, task, wpc, list, envVars, history>>

\* Mutant: only the source file is removed.
MutDeleteDir(a) ==
    /\ adm[a].pc = "deleteDir"
    /\ adm' = [adm EXCEPT ![a] = NoAdmin]
    /\ UNCHANGED <<rowVars, fileVars, up, fd, task, wpc, list, envVars, history>>

DeleteDir(a) ==
    /\ adm[a].pc = "deleteDir"
    /\ dir' = [dir EXCEPT ![fileOf[adm[a].u]] = NoDir]
    /\ adm' = [adm EXCEPT ![a] = NoAdmin]
    /\ UNCHANGED <<rowVars, json, tmp, data, up, fd, task, wpc, list, envVars, history>>

AdminStep(a) ==
    \/ RetryRemove(a)
    \/ RetryReset(a)
    \/ RetryResetFails(a)
    \/ DeleteJson(a)
    \/ DeleteDir(a)

-----------------------------------------------------------------------------
\* The process dies and is started again, possibly with another configuration:
\* handlers, goroutines and open files are gone, rows and files stay.
CrashAndRestart ==
    /\ crashes < MaxCrashes
    /\ crashes' = crashes + 1
    /\ up' = [u \in Uploads |-> IF Uploading(u) THEN "done" ELSE up[u]]
    /\ task' = [t \in Tasks |-> NoTask]
    /\ adm' = [a \in Admins |-> NoAdmin]
    /\ list' = {}
    /\ enabled' \in Modes
    /\ wpc' = IF enabled' THEN "boot" ELSE "off"
    /\ UNCHANGED <<rowVars, fileVars, fd, history>>

Next ==
    \/ \E u \in Uploads :
        UploadCreate(u) \/ UploadStep(u) \/ UploadAbort(u) \/ UploadStoreFails(u)
    \/ \E t \in Tasks : TaskStep(t) \/ ConvertError(t)
    \/ WorkerStep
    \/ \E a \in Admins : AdminStep(a) \/ \E u \in Uploads : RetryCheck(a, u) \/ DeleteRow(a, u)
    \/ CrashAndRestart

Spec == Init /\ [][Next]_vars

\* Handlers and goroutines that have begun keep running; requests need not come.
Fairness ==
    /\ \A u \in Uploads : WF_vars(UploadStep(u))
    /\ \A t \in Tasks : WF_vars(TaskStep(t))
    /\ WF_vars(WorkerStep)
    /\ \A a \in Admins : WF_vars(AdminStep(a))

FairSpec == Spec /\ Fairness

-----------------------------------------------------------------------------
\* A filename has at most one row: StoreReplacingByFilename deletes and inserts in
\* one transaction, so two uploads or an upload and a delete never leave two.
UniqueFilename ==
    \A u, v \in Uploads : Live(u) /\ Live(v) /\ fileOf[u] = fileOf[v] => u = v

Whole(i) == data[i][1] # None /\ data[i][1] = data[i][2]

\* The file at <f>.json.gz always holds one complete upload, whatever conversions,
\* retries, deletes, aborted uploads and crashes do meanwhile, as long as no two
\* uploads of that filename ever ran at the same time.
JsonWhole ==
    \A f \in Files : json[f] # None /\ f \notin uploadRace => Whole(json[f])

\* The uploads whose data a row of u may play: u itself, or a later upload of the
\* name that replaced the source and died or failed before it stored its row.
Sources(u) == {u} \cup {v \in Uploads : fileOf[v] = fileOf[u] /\ rowId[v] = 0}

PlaysJson(u) ==
    LET i == json[fileOf[u]]
    IN  i # None /\ Whole(i) /\ data[i][1] \in Sources(u)

PlaysProtobuf(u) ==
    LET d == dir[fileOf[u]]
    IN  \E c \in Sources(u) : d.manifest = c /\ d.chunks = {[of |-> c, ok |-> TRUE]}

\* A completed row can be played in the format it names: its manifest and exactly
\* its chunks are there, or its JSON is. Holds for filenames that no two processes
\* worked on at the same time, over any sequence of uploads, replacements,
\* failures, retries, deletes, crashes and changes of conversion.enabled.
Playable ==
    \A u \in RowsWith("completed") : fileOf[u] \notin race =>
        IF format[u] = "json" THEN PlaysJson(u) ELSE PlaysProtobuf(u)

\* The source of a row is never lost: it can be converted (again) at any time.
SourceKept ==
    \A u \in Uploads : Live(u) /\ fileOf[u] \notin race => PlaysJson(u)

\* The statistics of a row are those of a recording the row may play, though the
\* backfill reads whatever directory has the row's filename.
StatsMatch ==
    \A u \in Uploads : stats[u] # None /\ fileOf[u] \notin race => stats[u] \in Sources(u)

\* A conversion directory without a row is garbage nobody removes: it may only
\* outlive its row when the server died in between.
NoOrphanDir ==
    \A f \in Files :
        dir[f].here /\ crashes = 0 /\ f \notin race /\ ~Busy(f) =>
            \E u \in Uploads : Live(u) /\ fileOf[u] = f

\* A deleted or replaced row never comes back: what a conversion that outlived
\* its row writes is lost.
NoResurrection ==
    [][\A u \in Uploads : rowId[u] # 0 /\ ~Live(u) => ~Live(u)']_vars

\* A completed recording stays completed until it is deleted or replaced (part of
\* IsRecordingLife, below).
CompletedStable ==
    [][\A u \in RowsWith("completed") :
        fileOf[u] \notin race' => status'[u] \in {"completed", "absent"}]_vars

\* Whether the row of u is what it says: its source is there, and a completed one
\* plays in its format.
Sound(u) ==
    /\ PlaysJson(u)
    /\ status[u] = "completed" /\ format[u] = "protobuf" => PlaysProtobuf(u)

\* How the row of u stands.
Standing(u) ==
    CASE status[u] = "absent" -> IF rowId[u] = 0 THEN "unknown" ELSE "gone"
      [] status[u] \in {"pending", "converting"} -> "waiting"
      [] status[u] = "completed" -> "playable"
      [] status[u] = "failed" -> "failed"

\* What has become of u to who plays it: without a race no row is ever broken.
LifeOf(u) ==
    IF Live(u) /\ fileOf[u] \notin race /\ ~Sound(u) THEN "broken" ELSE Standing(u)

\* All handlers, conversions, clean-ups and crashes together do no more to a
\* recording than RecordingLife says: what waits ends as something to play or
\* fails, its source is there all the time, what plays is never taken back, and
\* a replacement takes the old one away in the step that puts the new one.
Life == INSTANCE RecordingLife WITH life <- [u \in Uploads |-> LifeOf(u)], met <- race

IsRecordingLife == Life!Spec

\* With the worker on, every stored recording ends completed, failed or deleted.
Settles ==
    \A u \in Uploads :
        status[u] \in {"pending", "converting"} ~> status[u] \in {"completed", "failed", "absent"}

-----------------------------------------------------------------------------
(* What the documents claim, without regard to concurrent work. Both are violated: *)
(* see the findings in README.md.                                                  *)

\* handler.go:428, "Write to a temp file first so a malformed or interrupted upload
\* can never truncate the recording it would replace."
UploadNeverTruncates ==
    \A f \in Files : json[f] # None => Whole(json[f])

\* docs/streaming-architecture.md:66, "Update database", "storageFormat = protobuf",
\* "Streaming playback available": once nothing works on the recording any more.
StreamingAvailable ==
    \A u \in RowsWith("completed") :
        format[u] = "protobuf" /\ ~Busy(fileOf[u]) => PlaysProtobuf(u)

=============================================================================
