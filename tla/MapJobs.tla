------------------------------ MODULE MapJobs ------------------------------
(***************************************************************************)
(* The map import jobs of the map tool:                                    *)
(*                                                                         *)
(*   - the job manager      internal/maptool/jobmanager.go                 *)
(*   - the pipeline it runs internal/maptool/pipeline.go                   *)
(*   - the handlers         internal/server/handler_maptool.go             *)
(*                                                                         *)
(* One goroutine (Start) takes jobs off a bounded queue and runs them one  *)
(* after the other; handlers submit and cancel jobs and delete maps while  *)
(* it does, and a shutdown cancels everything. Jobs live in memory, what   *)
(* the stages write and error.json live on disk. The event hub is here as  *)
(* the manager broadcasts to it; JobEvents adds the subscribers.           *)
(***************************************************************************)
EXTENDS Naturals, Sequences, FiniteSets

CONSTANTS
    Jobs,        \* submissions
    Restyles,    \* the submissions that are restyle-all jobs (customRun)
    Ids,         \* job ids
    idOf,        \* idOf[j]: "<world>-<milliseconds>", not always unique
    Worlds,      \* map directories
    worldOf,     \* worldOf[j]: the world that import j writes
    NumStages,   \* the length of the pipeline
    Optional,    \* the stages whose errors are skipped
    Faulty,      \* jobs whose stages may fail without being cancelled
    QueueSize,   \* the capacity of the queue (100 in the code)
    Requests,    \* cancel requests
    Subscribers, \* subscriptions to the event hub
    ChanSize,    \* the capacity of a subscriber's channel (64 in the code)
    None,        \* "no job"
    MaxDeletes,  \* bound: how often a map is deleted
    MaxRestarts  \* bound: how often the server is restarted

Stages  == 1..NumStages
Imports == Jobs \ Restyles

ASSUME JobsAssumption ==
    /\ Restyles \subseteq Jobs
    /\ idOf \in [Jobs -> Ids]
    /\ worldOf \in [Jobs -> Worlds]
    /\ NumStages \in Nat \ {0}
    /\ Optional \subseteq Stages
    /\ Faulty \subseteq Jobs
    /\ QueueSize \in Nat \ {0}
    /\ ChanSize \in Nat \ {0}
    /\ None \notin Jobs
    /\ MaxDeletes \in Nat
    /\ MaxRestarts \in Nat

VARIABLES
    table,      \* jm.jobs: the job held under an id
    status,     \* job.Status, "none" before the job is submitted
    stageNum,   \* job.StageNum as last reported
    cancelFn,   \* job.cancelFunc is set
    cancelled,  \* the job's context is cancelled
    queue,      \* jm.queue
    sub,        \* sub[j]: where the handler that submits j stands
    wk,         \* the goroutine of Start: [pc, job, stage]
    req,        \* req[c]: a cancel request
    stopped,    \* the server's context is cancelled
    here,       \* here[w]: the directory of w exists
    errorJson,  \* errorJson[w]: the import whose failure w's error.json records
    temp,       \* temp[i]: the TempDir of id i exists
    upload,     \* upload[j]: the CleanupDir of j exists
    subscribed, \* the subscribers the hub knows
    chan,       \* chan[s]: the events buffered for s
    lost,       \* history: lost[s]: ids whose latest event did not go to s
    deletes,    \* how often a map was deleted
    restarts,   \* how often the server was restarted
    lastEnd,    \* history: lastEnd[w]: the import of w that ended last, and how
    found,      \* history: found[w]: what the last import of w found in error.json
    torn        \* history: worlds a crash hit in the middle of an import

memVars  == <<table, status, stageNum, cancelFn, cancelled>>
diskVars == <<here, errorJson, temp, upload>>
procVars == <<queue, sub, wk, req, stopped>>
history  == <<lastEnd, found, torn>>
hubVars  == <<subscribed, chan, lost>>
vars     == <<memVars, diskVars, procVars, hubVars, deletes, restarts, history>>

Ended == {"done", "failed", "cancelled"}

Statuses == {"none", "pending", "running", "lost"} \cup Ended

SubPcs == {"idle", "announce", "send", "done"}

WorkerPcs == {"idle", "begin", "restyle", "run", "stage", "persist", "announce", "cleanup", "exited"}

NoWork   == [pc |-> "idle", job |-> None, stage |-> 0]

\* How an import ended: it succeeded; a stage failed; it "left" error.json as it was,
\* for it never began, was cancelled between two stages, or could not write or remove
\* the file; or its write broke off and "cut" the file.
Hows  == {"none", "done", "failed", "left", "cut"}

NoEnd == [job |-> None, how |-> "none"]

\* What a subscriber is sent of a job.
Events == [type : {"status", "progress"}, id : Ids, status : Statuses, stage : 0..NumStages]

TypeOK ==
    /\ table \in [Ids -> Jobs \cup {None}]
    /\ status \in [Jobs -> Statuses]
    /\ stageNum \in [Jobs -> 0..NumStages]
    /\ cancelFn \in [Jobs -> BOOLEAN]
    /\ cancelled \in [Jobs -> BOOLEAN]
    /\ queue \in Seq(Jobs) /\ Len(queue) <= QueueSize
    /\ sub \in [Jobs -> SubPcs]
    /\ wk \in [pc : WorkerPcs, job : Jobs \cup {None}, stage : 0..NumStages]
    /\ wk.pc \notin {"idle", "exited"} => wk.job \in Jobs
    /\ req \in [Requests -> {None} \cup Jobs]
    /\ stopped \in BOOLEAN
    /\ here \in [Worlds -> BOOLEAN]
    /\ errorJson \in [Worlds -> Jobs \cup {None}]
    /\ temp \in [Ids -> BOOLEAN]
    /\ upload \in [Jobs -> BOOLEAN]
    /\ subscribed \subseteq Subscribers
    /\ chan \in [Subscribers -> Seq(Events)]
    /\ \A s \in Subscribers : Len(chan[s]) <= ChanSize
    /\ lost \in [Subscribers -> SUBSET Ids]
    /\ deletes \in 0..MaxDeletes
    /\ restarts \in 0..MaxRestarts
    /\ lastEnd \in [Worlds -> [job : Jobs \cup {None}, how : Hows]]
    /\ found \in [Worlds -> Jobs \cup {None}]
    /\ torn \subseteq Worlds

-----------------------------------------------------------------------------
\* hub.broadcast: to the channel of every subscriber that has room for it.
Broadcast(e) ==
    LET sent == {s \in subscribed : Len(chan[s]) < ChanSize}
    IN  /\ chan' = [s \in Subscribers |-> IF s \in sent THEN Append(chan[s], e) ELSE chan[s]]
        /\ lost' = [s \in Subscribers |-> IF s \in sent THEN lost[s] \ {e.id} ELSE lost[s] \cup {e.id}]
        /\ UNCHANGED subscribed

\* broadcastStatus(job): a snapshot of the job.
BroadcastStatus(j) ==
    Broadcast([type |-> "status", id |-> idOf[j], status |-> status'[j], stage |-> stageNum'[j]])

\* pipeline.OnProgress, wired to the hub by processJob.
BroadcastProgress(j, k) ==
    Broadcast([type |-> "progress", id |-> idOf[j], status |-> "running", stage |-> k])

At(pc) == wk.pc = pc

Goto(pc) == wk' = [wk EXCEPT !.pc = pc]

\* The server's own files of an import of w are being written.
Working(w) == wk.job \in Imports /\ worldOf[wk.job] = w

\* History: the import j has ended so.
EndedSo(j, how) == lastEnd' = [lastEnd EXCEPT ![worldOf[j]] = [job |-> j, how |-> how]]

Init ==
    /\ table = [i \in Ids |-> None]
    /\ status = [j \in Jobs |-> "none"]
    /\ stageNum = [j \in Jobs |-> 0]
    /\ cancelFn = [j \in Jobs |-> FALSE]
    /\ cancelled = [j \in Jobs |-> FALSE]
    /\ queue = <<>>
    /\ sub = [j \in Jobs |-> "idle"]
    /\ wk = NoWork
    /\ req = [c \in Requests |-> None]
    /\ stopped = FALSE
    /\ here = [w \in Worlds |-> FALSE]
    /\ errorJson = [w \in Worlds |-> None]
    /\ temp = [i \in Ids |-> FALSE]
    /\ upload = [j \in Jobs |-> FALSE]
    /\ subscribed = {}
    /\ chan = [s \in Subscribers |-> <<>>]
    /\ lost = [s \in Subscribers |-> {}]
    /\ deletes = 0
    /\ restarts = 0
    /\ lastEnd = [w \in Worlds |-> NoEnd]
    /\ found = [w \in Worlds |-> None]
    /\ torn = {}

-----------------------------------------------------------------------------
(* SubmitWithCleanup and SubmitFunc: register, announce, queue.             *)

\* The upload is unpacked into its CleanupDir; the job enters the table, in place
\* of one that has the same id.
Submit(j) ==
    /\ sub[j] = "idle"
    /\ sub' = [sub EXCEPT ![j] = "announce"]
    /\ status' = [status EXCEPT ![j] = "pending"]
    /\ table' = [table EXCEPT ![idOf[j]] = j]
    /\ upload' = [upload EXCEPT ![j] = j \in Imports]
    /\ UNCHANGED <<stageNum, cancelFn, cancelled, here, errorJson, temp, queue, wk, req,
                   stopped, hubVars, deletes, restarts, history>>

SubmitAnnounce(j) ==
    /\ sub[j] = "announce"
    /\ sub' = [sub EXCEPT ![j] = "send"]
    /\ UNCHANGED <<memVars, diskVars, queue, wk, req, stopped, deletes, restarts, history>>
    /\ BroadcastStatus(j)

\* MUTANT: the send does not block on a full queue.
MutSubmitSend(j) ==
    /\ sub[j] = "send"
    /\ queue' = Append(queue, j)
    /\ sub' = [sub EXCEPT ![j] = "done"]
    /\ UNCHANGED <<memVars, diskVars, wk, req, stopped, hubVars, deletes, restarts, history>>

\* jm.queue <- job: blocks while the queue is full.
SubmitSend(j) ==
    /\ sub[j] = "send"
    /\ Len(queue) < QueueSize
    /\ queue' = Append(queue, j)
    /\ sub' = [sub EXCEPT ![j] = "done"]
    /\ UNCHANGED <<memVars, diskVars, wk, req, stopped, hubVars, deletes, restarts, history>>

SubmitStep(j) == SubmitAnnounce(j) \/ SubmitSend(j)

-----------------------------------------------------------------------------
(* The goroutine of Start.                                                  *)

\* case job := <-jm.queue: also taken when the context is cancelled as well, for a
\* select with two ready cases picks either. The job gets its cancel function.
Take ==
    /\ At("idle")
    /\ queue # <<>>
    /\ LET j == Head(queue)
       IN  /\ wk' = [pc |-> "begin", job |-> j, stage |-> 0]
           /\ cancelFn' = [cancelFn EXCEPT ![j] = TRUE]
           /\ cancelled' = [cancelled EXCEPT ![j] = stopped]
           /\ found' = [w \in Worlds |-> IF j \in Imports /\ worldOf[j] = w THEN errorJson[w] ELSE found[w]]
    /\ queue' = Tail(queue)
    /\ UNCHANGED <<table, status, stageNum, diskVars, sub, req, stopped, hubVars, deletes, restarts,
                   lastEnd, torn>>

\* case <-ctx.Done(): return.
Exit ==
    /\ At("idle")
    /\ stopped
    /\ Goto("exited")
    /\ UNCHANGED <<memVars, diskVars, queue, sub, req, stopped, hubVars, deletes, restarts, history>>

\* job.Start and broadcast, then customRun or pipeline.Run.
BeginRestyle ==
    /\ At("begin")
    /\ wk.job \in Restyles
    /\ status' = [status EXCEPT ![wk.job] = "running"]
    /\ Goto("restyle")
    /\ UNCHANGED <<table, stageNum, cancelFn, cancelled, diskVars, queue, sub, req, stopped,
                   deletes, restarts, history>>
    /\ BroadcastStatus(wk.job)

\* The maps directory is writable; create the output and the temporary directory.
BeginImport ==
    LET j == wk.job
    IN  /\ At("begin")
        /\ j \in Imports
        /\ here' = [here EXCEPT ![worldOf[j]] = TRUE]
        /\ temp' = [temp EXCEPT ![idOf[j]] = TRUE]
        /\ status' = [status EXCEPT ![j] = "running"]
        /\ wk' = [wk EXCEPT !.pc = "run", !.stage = 1]
        /\ UNCHANGED <<table, stageNum, cancelFn, cancelled, errorJson, upload, queue, sub, req,
                       stopped, deletes, restarts, history>>
        /\ BroadcastStatus(j)

\* The precheck or a MkdirAll fails: failed without an error.json. That of an earlier
\* import, if there is one, stays.
BeginFails ==
    LET j == wk.job
    IN  /\ At("begin")
        /\ j \in Imports \cap Faulty
        /\ \/ UNCHANGED here
           \/ here' = [here EXCEPT ![worldOf[j]] = TRUE]
        /\ status' = [status EXCEPT ![j] = "failed"]
        /\ EndedSo(j, "left")
        /\ wk' = NoWork
        /\ UNCHANGED <<table, stageNum, cancelFn, cancelled, errorJson, temp, upload, queue, sub, req,
                       stopped, deletes, restarts, found, torn>>
        /\ BroadcastStatus(j)

\* MUTANT: the end of a restyle job is not announced.
MutEndRestyleSilent ==
    LET j == wk.job
    IN  /\ At("restyle")
        /\ \/ status' = [status EXCEPT ![j] = "done"]
           \/ cancelled[j] /\ status' = [status EXCEPT ![j] = "cancelled"]
           \/ j \in Faulty /\ ~cancelled[j] /\ status' = [status EXCEPT ![j] = "failed"]
        /\ wk' = NoWork
        /\ UNCHANGED <<table, stageNum, cancelFn, cancelled, diskVars, queue, sub, req, stopped,
                       hubVars, deletes, restarts, history>>

\* MUTANT: a cancelled restyle returns without a status.
MutEndRestyle ==
    LET j == wk.job
    IN  /\ At("restyle")
        /\ \/ status' = [status EXCEPT ![j] = "done"]
           \/ cancelled[j] /\ UNCHANGED status
           \/ j \in Faulty /\ ~cancelled[j] /\ status' = [status EXCEPT ![j] = "failed"]
        /\ wk' = NoWork
        /\ UNCHANGED <<table, stageNum, cancelFn, cancelled, diskVars, queue, sub, req, stopped,
                       deletes, restarts, history>>
        /\ BroadcastStatus(j)

\* The restyle callback returns: an error when it saw its context cancelled or could
\* not restyle some map, in which case a cancelled context makes it cancelled.
EndRestyle ==
    LET j == wk.job
    IN  /\ At("restyle")
        /\ \/ status' = [status EXCEPT ![j] = "done"]
           \/ cancelled[j] /\ status' = [status EXCEPT ![j] = "cancelled"]
           \/ j \in Faulty /\ ~cancelled[j] /\ status' = [status EXCEPT ![j] = "failed"]
        /\ wk' = NoWork
        /\ UNCHANGED <<table, stageNum, cancelFn, cancelled, diskVars, queue, sub, req, stopped,
                       deletes, restarts, history>>
        /\ BroadcastStatus(j)

-----------------------------------------------------------------------------
(* Pipeline.Run.                                                            *)

\* MUTANT: a cancelled run returns without a status.
MutPipelineCancelled ==
    LET j == wk.job
    IN  /\ At("run")
        /\ cancelled[j]
        /\ EndedSo(j, "left")
        /\ Goto("announce")
        /\ UNCHANGED <<table, status, stageNum, cancelFn, cancelled, diskVars, queue, sub, req, stopped, hubVars,
                       deletes, restarts, found, torn>>

\* The context is cancelled between two stages: no error.json is written or removed.
PipelineCancelled ==
    LET j == wk.job
    IN  /\ At("run")
        /\ cancelled[j]
        /\ status' = [status EXCEPT ![j] = "cancelled"]
        /\ EndedSo(j, "left")
        /\ Goto("announce")
        /\ UNCHANGED <<table, stageNum, cancelFn, cancelled, diskVars, queue, sub, req, stopped, hubVars,
                       deletes, restarts, found, torn>>

\* Report the stage, then run it.
StageBegin ==
    LET j == wk.job
    IN  /\ At("run")
        /\ ~cancelled[j]
        /\ stageNum' = [stageNum EXCEPT ![j] = wk.stage]
        /\ Goto("stage")
        /\ UNCHANGED <<table, status, cancelFn, cancelled, diskVars, queue, sub, req, stopped,
                       deletes, restarts, history>>
        /\ BroadcastProgress(j, wk.stage)

\* A stage may make the directory again that was deleted while it ran.
MayRemake(w) == here' = here \/ here' = [here EXCEPT ![w] = TRUE]

\* The next stage, or the end of the run. The context is not looked at after the
\* last stage.
StageOver ==
    IF wk.stage < NumStages
    THEN /\ wk' = [wk EXCEPT !.pc = "run", !.stage = @ + 1]
         /\ UNCHANGED <<status, lastEnd>>
    ELSE /\ status' = [status EXCEPT ![wk.job] = "done"]
         /\ EndedSo(wk.job, "done")
         /\ Goto("persist")

\* stage.Run returns nil: what it wrote, not modelled, is in the directory.
StageOK ==
    /\ At("stage")
    /\ MayRemake(worldOf[wk.job])
    /\ StageOver
    /\ UNCHANGED <<table, stageNum, cancelFn, cancelled, errorJson, temp, upload, queue, sub, req,
                   stopped, hubVars, deletes, restarts, found, torn>>

\* A stage errs by itself, because its context is cancelled (the tools it runs are
\* killed), or because the directory was deleted under it.
StageErrs == At("stage") /\ (wk.job \in Faulty \/ cancelled[wk.job] \/ ~here[worldOf[wk.job]])

StageSkipped ==
    /\ StageErrs
    /\ wk.stage \in Optional
    /\ MayRemake(worldOf[wk.job])
    /\ StageOver
    /\ UNCHANGED <<table, stageNum, cancelFn, cancelled, errorJson, temp, upload, queue, sub,
                   req, stopped, deletes, restarts, found, torn>>
    /\ BroadcastProgress(wk.job, wk.stage)

StageFails ==
    LET j == wk.job
    IN  /\ StageErrs
        /\ wk.stage \notin Optional
        /\ MayRemake(worldOf[j])
        /\ status' = [status EXCEPT ![j] = "failed"]
        /\ EndedSo(j, "failed")
        /\ Goto("persist")
        /\ UNCHANGED <<table, stageNum, cancelFn, cancelled, errorJson, temp, upload, queue, sub,
                       req, stopped, hubVars, deletes, restarts, found, torn>>

\* MUTANT: a finished run leaves the error.json of an earlier one.
MutPersist ==
    LET j == wk.job
        w == worldOf[j]
    IN  /\ At("persist")
        /\ errorJson' = [errorJson EXCEPT ![w] = IF status[j] = "done" THEN @
                                                ELSE IF here[w] THEN j ELSE @]
        /\ Goto("announce")
        /\ UNCHANGED <<memVars, here, temp, upload, queue, sub, req, stopped, hubVars,
                       deletes, restarts, history>>

\* writeErrorJSON after a failed run, os.Remove of the error.json of an earlier run
\* after a finished one. An error of either is only logged: there may be no directory
\* any more, the file may stay as it was, or the write may break off, and a file that
\* cannot be parsed tells of no failure.
Persist ==
    LET j    == wk.job
        w    == worldOf[j]
        done == status[j] = "done"
    IN  /\ At("persist")
        /\ \/ /\ done \/ here[w]
              /\ errorJson' = [errorJson EXCEPT ![w] = IF done THEN None ELSE j]
              /\ UNCHANGED lastEnd
           \/ /\ done => errorJson[w] # None
              /\ EndedSo(j, "left")
              /\ UNCHANGED errorJson
           \/ /\ ~done /\ here[w]
              /\ errorJson' = [errorJson EXCEPT ![w] = None]
              /\ EndedSo(j, "cut")
        /\ Goto("announce")
        /\ UNCHANGED <<memVars, here, temp, upload, queue, sub, req, stopped, hubVars,
                       deletes, restarts, found, torn>>

\* MUTANT: a finished import is not cleaned up.
MutAnnounceEnd ==
    /\ At("announce")
    /\ wk' = NoWork
    /\ UNCHANGED <<memVars, diskVars, queue, sub, req, stopped, deletes, restarts, history>>
    /\ BroadcastStatus(wk.job)

AnnounceEnd ==
    /\ At("announce")
    /\ wk' = IF status[wk.job] = "done" THEN [wk EXCEPT !.pc = "cleanup"] ELSE NoWork
    /\ UNCHANGED <<memVars, diskVars, queue, sub, req, stopped, deletes, restarts, history>>
    /\ BroadcastStatus(wk.job)

\* Only after success: the temporary directory and the unpacked upload.
CleanUp ==
    /\ At("cleanup")
    /\ temp' = [temp EXCEPT ![idOf[wk.job]] = FALSE]
    /\ upload' = [upload EXCEPT ![wk.job] = FALSE]
    /\ wk' = NoWork
    /\ UNCHANGED <<memVars, here, errorJson, queue, sub, req, stopped, hubVars,
                   deletes, restarts, history>>

WorkerStep ==
    \/ Take
    \/ Exit
    \/ BeginRestyle
    \/ BeginImport
    \/ BeginFails
    \/ EndRestyle
    \/ PipelineCancelled
    \/ StageBegin
    \/ StageOK
    \/ StageSkipped
    \/ StageFails
    \/ Persist
    \/ AnnounceEnd
    \/ CleanUp

-----------------------------------------------------------------------------
(* CancelJob, DeleteMap, shutdown and restart.                              *)

\* CancelJob reads the job's status and cancel function under the job's lock. A job
\* that has ended is refused; a pending one usually has no cancel function yet, and
\* the request then succeeds without having done anything.
CancelRead(c, i) ==
    LET j == table[i]
    IN  /\ req[c] = None
        /\ j # None
        /\ status[j] \in {"pending", "running"}
        /\ cancelFn[j]
        /\ req' = [req EXCEPT ![c] = j]
        /\ UNCHANGED <<memVars, diskVars, queue, sub, wk, stopped, hubVars, deletes, restarts, history>>

\* MUTANT: the canceller sets the status itself.
MutCancelCall(c) ==
    /\ req[c] # None
    /\ cancelled' = [cancelled EXCEPT ![req[c]] = TRUE]
    /\ status' = [status EXCEPT ![req[c]] = "cancelled"]
    /\ req' = [req EXCEPT ![c] = None]
    /\ UNCHANGED <<table, stageNum, cancelFn, diskVars, queue, sub, wk, stopped, hubVars,
                   deletes, restarts, history>>

\* It calls the function after it let go of the lock, on a job that may have ended.
CancelCall(c) ==
    /\ req[c] # None
    /\ cancelled' = [cancelled EXCEPT ![req[c]] = TRUE]
    /\ req' = [req EXCEPT ![c] = None]
    /\ UNCHANGED <<table, status, stageNum, cancelFn, diskVars, queue, sub, wk, stopped, hubVars,
                   deletes, restarts, history>>

\* deleteMapToolMap: os.RemoveAll of the directory, whether a job writes it or not.
DeleteMap(w) ==
    /\ deletes < MaxDeletes
    /\ here[w]
    /\ deletes' = deletes + 1
    /\ here' = [here EXCEPT ![w] = FALSE]
    /\ errorJson' = [errorJson EXCEPT ![w] = None]
    /\ lastEnd' = [lastEnd EXCEPT ![w] = NoEnd]
    /\ found' = [found EXCEPT ![w] = None]
    /\ UNCHANGED <<memVars, temp, upload, procVars, hubVars, restarts, torn>>

\* SIGTERM: cancel() cancels the context every job's context is derived from.
Shutdown ==
    /\ restarts < MaxRestarts
    /\ ~stopped
    /\ stopped' = TRUE
    /\ cancelled' = [j \in Jobs |-> cancelled[j] \/ (wk.pc # "exited" /\ wk.job = j)]
    /\ UNCHANGED <<table, status, stageNum, cancelFn, diskVars, queue, sub, wk, req, hubVars,
                   deletes, restarts, history>>

\* The process ends, after a shutdown or without one, and does not wait for the job
\* that is running; another one starts with an empty table.
Restart ==
    /\ restarts < MaxRestarts
    /\ restarts' = restarts + 1
    /\ table' = [i \in Ids |-> None]
    /\ status' = [j \in Jobs |-> IF sub[j] # "idle" THEN "lost" ELSE "none"]
    /\ stageNum' = [j \in Jobs |-> 0]
    /\ cancelFn' = [j \in Jobs |-> FALSE]
    /\ cancelled' = [j \in Jobs |-> FALSE]
    /\ queue' = <<>>
    /\ sub' = [j \in Jobs |-> IF sub[j] # "idle" THEN "done" ELSE "idle"]
    /\ wk' = NoWork
    /\ req' = [c \in Requests |-> None]
    /\ stopped' = FALSE
    /\ torn' = torn \cup {w \in Worlds : Working(w)}
    /\ subscribed' = {}
    /\ chan' = [s \in Subscribers |-> <<>>]
    /\ UNCHANGED <<diskVars, lost, deletes, lastEnd, found>>

\* A step of the server.
Operate ==
    \/ \E j \in Jobs : Submit(j) \/ SubmitStep(j)
    \/ WorkerStep
    \/ \E c \in Requests : CancelCall(c) \/ \E i \in Ids : CancelRead(c, i)
    \/ \E w \in Worlds : DeleteMap(w)
    \/ Shutdown

Next == Operate \/ Restart

Spec == Init /\ [][Next]_vars

\* The goroutine of Start and handlers that have begun go on; every stage returns.
\* Of a select with two ready cases each is picked sooner or later, so neither Take
\* nor Exit is promised alone.
Fairness ==
    /\ WF_vars(WorkerStep)
    /\ \A j \in Jobs : WF_vars(SubmitStep(j))
    /\ \A c \in Requests : WF_vars(CancelCall(c))

FairSpec == Spec /\ Fairness

-----------------------------------------------------------------------------
\* Jobs run one at a time and a job that is running is the one the goroutine of
\* Start works on: no way out of processJob leaves a job "running" for ever.
OneActive == \A j \in Jobs : status[j] = "running" => wk.job = j

\* A job that has ended keeps its status: a late cancellation, a shutdown or a job
\* with the same id does not touch it.
EndedStays ==
    [][\A j \in Jobs : status[j] \in Ended => status'[j] \in {status[j], "lost"}]_vars

\* What error.json holds by the way the last import of w ended: nothing after a
\* success, the failure of a stage after that, and what that import found there when
\* it left the file alone.
ErrorDue(w) ==
    CASE lastEnd[w].how = "failed" -> lastEnd[w].job
      [] lastEnd[w].how = "left"   -> found[w]
      [] OTHER                     -> None

\* Whenever no import of a map is under way its error.json tells what the last one of
\* them that ended, in whichever way, owes it: the failure of that import and of no
\* older one, none after a success or in a map deleted since. An import that never
\* began, was cancelled between two stages or could not write or remove the file
\* leaves what it found, which may be the failure of an older one. The server's death
\* in the middle of an import of that map excepts it.
ErrorOfLastRun ==
    \A w \in Worlds \ torn : ~Working(w) => errorJson[w] = ErrorDue(w)

\* An unpacked upload is there for as long as its job may still need it and gone when
\* the job has succeeded; a temporary directory left behind belongs to a job of its
\* id that did not succeed. Two jobs with one id share the directory and the success
\* of one must not take it from the other while that works in it.
TempLifetime ==
    /\ \A j \in Imports :
          /\ status[j] \in {"pending", "running"} => upload[j]
          /\ status[j] = "done" /\ wk.job # j => ~upload[j]
    /\ \A i \in Ids : temp[i] => \E j \in Imports : idOf[j] = i /\ (wk.job = j \/ status[j] # "done")
    /\ wk.pc \in {"run", "stage"} => temp[idOf[wk.job]]

\* Every job that is submitted ends, and its submitter gets its answer, however small
\* the queue is; only a shutdown or the death of the server prevents it.
JobsEnd ==
    \A j \in Jobs :
        status[j] = "pending" ~> (status[j] \in Ended /\ sub[j] = "done") \/ status[j] = "lost" \/ stopped

\* CLAIM (jobmanager.go:317): "Only persist error for actual failures, not
\* cancellations." A map's error.json is that of an import that could fail by itself,
\* as long as nobody deletes maps. The code breaks it: the stage that is running when
\* its context is cancelled returns an error, which Run reports as a failure.
CancelIsNotFailure ==
    deletes = 0 => \A w \in Worlds : errorJson[w] \in Faulty \cup {None}

=============================================================================
