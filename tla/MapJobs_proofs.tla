--------------------------- MODULE MapJobs_proofs ---------------------------
(***************************************************************************)
(* Theorems about MapJobs, for any number of jobs, maps, requests,         *)
(* subscribers and restarts, any pipeline and any capacities:              *)
(*                                                                         *)
(*   JobsTyped        Spec => []TypeOK                                     *)
(*   OneAtATime       Spec => []OneActive                                  *)
(*   EndsAreFinal     Spec => EndedStays                                   *)
(*   ErrorsAreOfLast  Spec => []ErrorOfLastRun                             *)
(*   FilesOutlastJobs Spec => []TempLifetime                               *)
(***************************************************************************)
EXTENDS MapJobs, TLAPS

(***************************************************************************)
(* Types.                                                                  *)
(***************************************************************************)

\* The conjuncts of TypeOK about the event hub.
HubOK ==
    /\ subscribed \subseteq Subscribers
    /\ chan \in [Subscribers -> Seq(Events)]
    /\ \A s \in Subscribers : Len(chan[s]) <= ChanSize
    /\ lost \in [Subscribers -> SUBSET Ids]

\* A broadcast of an event keeps the hub well-typed.
LEMMA BroadcastType ==
  ASSUME TypeOK, NEW e \in Events, Broadcast(e)
  PROVE  HubOK'
  <1> USE JobsAssumption
  <1> DEFINE sent == {s \in subscribed : Len(chan[s]) < ChanSize}
  <1>1. e.id \in Ids
    BY DEF Events
  <1>2. chan' = [s \in Subscribers |-> IF s \in sent THEN Append(chan[s], e) ELSE chan[s]]
    BY DEF Broadcast
  <1>3. ASSUME NEW s \in Subscribers
        PROVE  chan'[s] \in Seq(Events) /\ Len(chan'[s]) <= ChanSize
    <2>1. chan[s] \in Seq(Events) /\ Len(chan[s]) <= ChanSize
      BY DEF TypeOK
    <2>2. CASE s \in sent
      BY <1>2, <2>1, <2>2
    <2>3. CASE s \notin sent
      BY <1>2, <2>1, <2>3
    <2> QED
      BY <2>2, <2>3
  <1>4. chan' \in [Subscribers -> Seq(Events)]
    BY <1>2, <1>3
  <1>5. lost' \in [Subscribers -> SUBSET Ids]
    BY <1>1 DEF Broadcast, TypeOK
  <1> QED
    BY <1>3, <1>4, <1>5 DEF Broadcast, TypeOK, HubOK

\* So does the announcement of a job's status,
LEMMA StatusType ==
  ASSUME TypeOK, NEW j \in Jobs, BroadcastStatus(j),
         status' \in [Jobs -> Statuses], stageNum' \in [Jobs -> 0..NumStages]
  PROVE  HubOK'
  <1> DEFINE e == [type |-> "status", id |-> idOf[j], status |-> status'[j], stage |-> stageNum'[j]]
  <1>1. e \in Events
    BY JobsAssumption DEF Events
  <1> QED
    BY <1>1, BroadcastType DEF BroadcastStatus

\* and of its progress.
LEMMA ProgressType ==
  ASSUME TypeOK, NEW j \in Jobs, NEW k \in 0..NumStages, BroadcastProgress(j, k)
  PROVE  HubOK'
  <1> DEFINE e == [type |-> "progress", id |-> idOf[j], status |-> "running", stage |-> k]
  <1>1. e \in Events
    BY JobsAssumption DEF Events, Statuses
  <1> QED
    BY <1>1, BroadcastType DEF BroadcastProgress

\* A hub nobody broadcasts to stays well-typed.
LEMMA QuietHub == ASSUME TypeOK, UNCHANGED hubVars PROVE HubOK'
  BY DEF TypeOK, hubVars, HubOK

\* A state is well-typed when its parts are; a step is shown to keep each.
MemOK ==
    /\ table \in [Ids -> Jobs \cup {None}]
    /\ status \in [Jobs -> Statuses]
    /\ stageNum \in [Jobs -> 0..NumStages]
    /\ cancelFn \in [Jobs -> BOOLEAN]
    /\ cancelled \in [Jobs -> BOOLEAN]

DiskOK ==
    /\ here \in [Worlds -> BOOLEAN]
    /\ errorJson \in [Worlds -> Jobs \cup {None}]
    /\ temp \in [Ids -> BOOLEAN]
    /\ upload \in [Jobs -> BOOLEAN]

WorkOK ==
    /\ wk \in [pc : WorkerPcs, job : Jobs \cup {None}, stage : 0..NumStages]
    /\ wk.pc \notin {"idle", "exited"} => wk.job \in Jobs

ProcOK ==
    /\ queue \in Seq(Jobs) /\ Len(queue) <= QueueSize
    /\ sub \in [Jobs -> SubPcs]
    /\ req \in [Requests -> {None} \cup Jobs]
    /\ stopped \in BOOLEAN

PastOK ==
    /\ deletes \in 0..MaxDeletes
    /\ restarts \in 0..MaxRestarts
    /\ lastEnd \in [Worlds -> [job : Jobs \cup {None}, how : Hows]]
    /\ found \in [Worlds -> Jobs \cup {None}]
    /\ torn \subseteq Worlds

LEMMA TypeParts == MemOK' /\ DiskOK' /\ WorkOK' /\ ProcOK' /\ HubOK' /\ PastOK' => TypeOK'
  BY DEF TypeOK, MemOK, DiskOK, WorkOK, ProcOK, HubOK, PastOK

WorkRecs == [pc : WorkerPcs, job : Jobs \cup {None}, stage : 0..NumStages]

\* The worker's records: none, and one that moves on.
LEMMA NoWorkType == NoWork \in WorkRecs /\ NoWork.pc = "idle" /\ NoWork.job = None
  <1>1. 0 \in 0..NumStages
    BY JobsAssumption
  <1> QED
    BY <1>1 DEF NoWork, WorkRecs, WorkerPcs

LEMMA MoveType ==
  ASSUME TypeOK, NEW p \in WorkerPcs, NEW k \in 0..NumStages
  PROVE  [wk EXCEPT !.pc = p] \in WorkRecs /\ [wk EXCEPT !.pc = p, !.stage = k] \in WorkRecs
  <1>1. wk \in WorkRecs
    BY DEF TypeOK, WorkRecs
  <1> QED
    BY <1>1 DEF WorkRecs

\* The initial state is well-typed.
LEMMA TypesInit == Init => TypeOK
  <1> SUFFICES ASSUME Init PROVE TypeOK
    OBVIOUS
  <1> USE JobsAssumption
  <1>1. wk \in WorkRecs /\ wk.pc = "idle"
    BY NoWorkType DEF Init
  <1>2. queue \in Seq(Jobs) /\ Len(queue) <= QueueSize
    BY DEF Init
  <1>3. chan \in [Subscribers -> Seq(Events)] /\ \A s \in Subscribers : Len(chan[s]) <= ChanSize
    BY DEF Init
  <1>4. stageNum \in [Jobs -> 0..NumStages] /\ deletes \in 0..MaxDeletes /\ restarts \in 0..MaxRestarts
    BY DEF Init
  <1> QED
    BY <1>1, <1>2, <1>3, <1>4 DEF Init, TypeOK, WorkRecs, Statuses, SubPcs, NoEnd, Hows

\* Submitting a job keeps the types.
LEMMA TypesSubmit ==
  ASSUME TypeOK, NEW j \in Jobs, Submit(j) \/ SubmitStep(j)
  PROVE  TypeOK'
  <1> USE JobsAssumption
  <1>1. CASE Submit(j)
    <2>1. MemOK' /\ DiskOK' /\ ProcOK'
      BY <1>1 DEF Submit, TypeOK, MemOK, DiskOK, ProcOK, Statuses, SubPcs
    <2>2. WorkOK' /\ PastOK'
      BY <1>1 DEF Submit, TypeOK, WorkOK, PastOK, history
    <2> QED
      BY <1>1, <2>1, <2>2, QuietHub, TypeParts DEF Submit
  <1>2. CASE SubmitAnnounce(j)
    <2>1. MemOK' /\ DiskOK' /\ ProcOK' /\ WorkOK' /\ PastOK'
      BY <1>2 DEF SubmitAnnounce, TypeOK, MemOK, DiskOK, ProcOK, WorkOK, PastOK, SubPcs, memVars,
                  diskVars, history
    <2>2. HubOK'
      BY <1>2, <2>1, StatusType DEF SubmitAnnounce, MemOK
    <2> QED
      BY <2>1, <2>2, TypeParts
  <1>3. CASE SubmitSend(j)
    <2>1. MemOK' /\ DiskOK' /\ WorkOK' /\ PastOK'
      BY <1>3 DEF SubmitSend, TypeOK, MemOK, DiskOK, WorkOK, PastOK, memVars, diskVars, history
    <2>2. ProcOK'
      BY <1>3 DEF SubmitSend, TypeOK, ProcOK, SubPcs
    <2> QED
      BY <1>3, <2>1, <2>2, QuietHub, TypeParts DEF SubmitSend
  <1> QED
    BY <1>1, <1>2, <1>3 DEF SubmitStep

\* An import that has ended leaves the map's history well-typed.
LEMMA EndType ==
  ASSUME TypeOK, NEW j \in Jobs, NEW how \in Hows, EndedSo(j, how)
  PROVE  lastEnd' \in [Worlds -> [job : Jobs \cup {None}, how : Hows]]
  BY DEF EndedSo, TypeOK

\* A stage that is over leaves the worker and the map's history well-typed.
LEMMA StageOverType ==
  ASSUME TypeOK, At("stage"), StageOver
  PROVE  /\ status' \in [Jobs -> Statuses]
         /\ WorkOK'
         /\ lastEnd' \in [Worlds -> [job : Jobs \cup {None}, how : Hows]]
  <1> USE JobsAssumption
  <1>1. wk.job \in Jobs /\ wk.stage \in 0..NumStages
    BY DEF TypeOK, At
  <1>2. CASE wk.stage < NumStages
    <2>1. wk.stage + 1 \in 0..NumStages /\ "run" \in WorkerPcs
      BY <1>1, <1>2 DEF WorkerPcs
    <2>2. wk' = [wk EXCEPT !.pc = "run", !.stage = wk.stage + 1]
      BY <1>2 DEF StageOver
    <2>3. wk' \in WorkRecs /\ wk'.job = wk.job
      BY <2>1, <2>2, MoveType DEF WorkRecs, TypeOK
    <2> QED
      BY <1>1, <1>2, <2>3 DEF StageOver, TypeOK, WorkOK, WorkRecs
  <1>3. CASE ~(wk.stage < NumStages)
    <2>1. wk' \in WorkRecs
      BY <1>1, <1>3, MoveType DEF StageOver, Goto, WorkerPcs
    <2>2. wk'.job = wk.job
      BY <1>3 DEF StageOver, Goto, TypeOK
    <2> QED
      BY <1>1, <1>3, <2>1, <2>2, EndType DEF StageOver, TypeOK, WorkOK, WorkRecs, Statuses, Ended, Hows
  <1> QED
    BY <1>2, <1>3

LEMMA RemakeType ==
  ASSUME TypeOK, NEW w \in Worlds, MayRemake(w)
  PROVE  here' \in [Worlds -> BOOLEAN]
  BY DEF TypeOK, MayRemake

\* Every step of the goroutine of Start keeps the types.
LEMMA TypesWorker == ASSUME TypeOK, WorkerStep PROVE TypeOK'
  <1> USE JobsAssumption DEF At, Goto
  <1>0. wk.pc \notin {"idle", "exited"} => wk.job \in Jobs
    BY DEF TypeOK
  <1>1. CASE Take
    <2>1. Head(queue) \in Jobs /\ Tail(queue) \in Seq(Jobs) /\ Len(Tail(queue)) <= QueueSize
      BY <1>1 DEF Take, TypeOK
    <2>2. MemOK' /\ WorkOK' /\ ProcOK'
      BY <1>1, <2>1 DEF Take, TypeOK, MemOK, WorkOK, ProcOK, WorkerPcs
    <2>3. DiskOK' /\ PastOK'
      BY <1>1 DEF Take, TypeOK, DiskOK, PastOK, diskVars, history
    <2> QED
      BY <1>1, <2>2, <2>3, QuietHub, TypeParts DEF Take
  <1>2. CASE Exit
    <2>1. MemOK' /\ DiskOK' /\ WorkOK' /\ ProcOK' /\ PastOK'
      BY <1>2 DEF Exit, TypeOK, MemOK, DiskOK, WorkOK, ProcOK, PastOK, WorkerPcs, memVars, diskVars,
                  history
    <2> QED
      BY <1>2, <2>1, QuietHub, TypeParts DEF Exit
  <1>3. CASE BeginRestyle
    <2>1. MemOK' /\ WorkOK'
      BY <1>0, <1>3 DEF BeginRestyle, TypeOK, MemOK, WorkOK, WorkerPcs, Statuses
    <2>2. DiskOK' /\ ProcOK' /\ PastOK'
      BY <1>3 DEF BeginRestyle, TypeOK, DiskOK, ProcOK, PastOK, diskVars, history
    <2> QED
      BY <1>0, <1>3, <2>1, <2>2, StatusType, TypeParts DEF BeginRestyle, MemOK
  <1>4. CASE BeginImport
    <2>0. WorkOK'
      <3>1. wk' = [wk EXCEPT !.pc = "run", !.stage = 1] /\ "run" \in WorkerPcs /\ 1 \in 0..NumStages
        BY <1>4 DEF BeginImport, WorkerPcs
      <3>2. wk' \in WorkRecs /\ wk'.job = wk.job
        BY <3>1, MoveType DEF WorkRecs, TypeOK
      <3> QED
        BY <1>0, <1>4, <3>2 DEF BeginImport, WorkOK, WorkRecs
    <2>1. MemOK' /\ DiskOK' /\ WorkOK'
      BY <1>0, <1>4, <2>0 DEF BeginImport, TypeOK, MemOK, DiskOK, Statuses
    <2>2. ProcOK' /\ PastOK'
      BY <1>4 DEF BeginImport, TypeOK, ProcOK, PastOK, history
    <2> QED
      BY <1>0, <1>4, <2>1, <2>2, StatusType, TypeParts DEF BeginImport, MemOK
  <1>5. CASE BeginFails
    <2>1. MemOK' /\ DiskOK' /\ WorkOK'
      BY <1>0, <1>5, NoWorkType DEF BeginFails, TypeOK, MemOK, DiskOK, WorkOK, WorkRecs, Statuses, Ended
    <2>2. ProcOK' /\ PastOK'
      BY <1>0, <1>5, EndType DEF BeginFails, TypeOK, ProcOK, PastOK, Hows
    <2> QED
      BY <1>0, <1>5, <2>1, <2>2, StatusType, TypeParts DEF BeginFails, MemOK
  <1>6. CASE EndRestyle
    <2>1. MemOK' /\ WorkOK'
      BY <1>0, <1>6, NoWorkType DEF EndRestyle, TypeOK, MemOK, WorkOK, WorkRecs, Statuses, Ended
    <2>2. DiskOK' /\ ProcOK' /\ PastOK'
      BY <1>6 DEF EndRestyle, TypeOK, DiskOK, ProcOK, PastOK, diskVars, history
    <2> QED
      BY <1>0, <1>6, <2>1, <2>2, StatusType, TypeParts DEF EndRestyle, MemOK
  <1>7. CASE PipelineCancelled
    <2>1. MemOK' /\ WorkOK'
      BY <1>0, <1>7 DEF PipelineCancelled, TypeOK, MemOK, WorkOK, WorkerPcs, Statuses, Ended
    <2>2. DiskOK' /\ ProcOK' /\ PastOK'
      BY <1>0, <1>7, EndType DEF PipelineCancelled, TypeOK, DiskOK, ProcOK, PastOK, diskVars, Hows
    <2> QED
      BY <1>7, <2>1, <2>2, QuietHub, TypeParts DEF PipelineCancelled
  <1>8. CASE StageBegin
    <2>1. MemOK' /\ WorkOK'
      BY <1>0, <1>8 DEF StageBegin, TypeOK, MemOK, WorkOK, WorkerPcs
    <2>2. DiskOK' /\ ProcOK' /\ PastOK'
      BY <1>8 DEF StageBegin, TypeOK, DiskOK, ProcOK, PastOK, diskVars, history
    <2>3. wk.stage \in 0..NumStages
      BY DEF TypeOK
    <2> QED
      BY <1>0, <1>8, <2>1, <2>2, <2>3, ProgressType, TypeParts DEF StageBegin
  <1>9. CASE StageOK
    <2>1. MemOK' /\ DiskOK' /\ WorkOK' /\ PastOK'
      BY <1>0, <1>9, StageOverType, RemakeType
         DEF StageOK, TypeOK, MemOK, DiskOK, PastOK
    <2>2. ProcOK'
      BY <1>9 DEF StageOK, TypeOK, ProcOK
    <2> QED
      BY <1>9, <2>1, <2>2, QuietHub, TypeParts DEF StageOK
  <1>10. CASE StageSkipped
    <2>1. MemOK' /\ DiskOK' /\ WorkOK' /\ PastOK'
      BY <1>0, <1>10, StageOverType, RemakeType
         DEF StageSkipped, StageErrs, TypeOK, MemOK, DiskOK, PastOK
    <2>2. ProcOK'
      BY <1>10 DEF StageSkipped, TypeOK, ProcOK
    <2>3. wk.stage \in 0..NumStages
      BY DEF TypeOK
    <2> QED
      BY <1>0, <1>10, <2>1, <2>2, <2>3, ProgressType, TypeParts DEF StageSkipped, StageErrs
  <1>11. CASE StageFails
    <2>1. MemOK' /\ DiskOK' /\ WorkOK'
      BY <1>0, <1>11, RemakeType
         DEF StageFails, StageErrs, TypeOK, MemOK, DiskOK, WorkOK, Statuses, Ended, WorkerPcs
    <2>3. PastOK'
      BY <1>0, <1>11, EndType DEF StageFails, StageErrs, TypeOK, PastOK, Hows
    <2>2. ProcOK'
      BY <1>11 DEF StageFails, TypeOK, ProcOK
    <2> QED
      BY <1>11, <2>1, <2>2, <2>3, QuietHub, TypeParts DEF StageFails
  <1>12. CASE Persist
    <2>1. DiskOK' /\ WorkOK'
      BY <1>0, <1>12 DEF Persist, TypeOK, DiskOK, WorkOK, WorkerPcs
    <2>2. MemOK' /\ ProcOK'
      BY <1>12 DEF Persist, TypeOK, MemOK, ProcOK, memVars
    <2>3. PastOK'
      BY <1>0, <1>12, EndType DEF Persist, TypeOK, PastOK, Hows
    <2> QED
      BY <1>12, <2>1, <2>2, <2>3, QuietHub, TypeParts DEF Persist
  <1>13. CASE AnnounceEnd
    <2>1. WorkOK'
      <3>1. CASE wk' = NoWork
        BY <3>1, NoWorkType DEF WorkOK, WorkRecs
      <3>2. CASE wk' = [wk EXCEPT !.pc = "cleanup"]
        BY <1>0, <1>13, <3>2 DEF AnnounceEnd, TypeOK, WorkOK, WorkerPcs
      <3> QED
        BY <1>13, <3>1, <3>2 DEF AnnounceEnd
    <2>2. MemOK' /\ DiskOK' /\ ProcOK' /\ PastOK'
      BY <1>13 DEF AnnounceEnd, TypeOK, MemOK, DiskOK, ProcOK, PastOK, memVars, diskVars, history
    <2> QED
      BY <1>0, <1>13, <2>1, <2>2, StatusType, TypeParts DEF AnnounceEnd, MemOK
  <1>14. CASE CleanUp
    <2>1. DiskOK' /\ WorkOK'
      BY <1>0, <1>14, NoWorkType DEF CleanUp, TypeOK, DiskOK, WorkOK, WorkRecs
    <2>2. MemOK' /\ ProcOK' /\ PastOK'
      BY <1>14 DEF CleanUp, TypeOK, MemOK, ProcOK, PastOK, memVars, history
    <2> QED
      BY <1>14, <2>1, <2>2, QuietHub, TypeParts DEF CleanUp
  <1> QED
    BY <1>1, <1>2, <1>3, <1>4, <1>5, <1>6, <1>7, <1>8, <1>9, <1>10, <1>11, <1>12, <1>13, <1>14
       DEF WorkerStep

\* Cancelling, deleting, shutting down and restarting keep the types.
LEMMA TypesCancelRead ==
  ASSUME TypeOK, NEW c \in Requests, NEW i \in Ids, CancelRead(c, i)
  PROVE  TypeOK'
  <1>1. ProcOK'
    BY DEF CancelRead, TypeOK, ProcOK
  <1>2. MemOK' /\ DiskOK' /\ WorkOK' /\ PastOK'
    BY DEF CancelRead, TypeOK, MemOK, DiskOK, WorkOK, PastOK, memVars, diskVars, history
  <1> QED
    BY <1>1, <1>2, QuietHub, TypeParts DEF CancelRead

LEMMA TypesCancelCall ==
  ASSUME TypeOK, NEW c \in Requests, CancelCall(c)
  PROVE  TypeOK'
  <1>1. MemOK' /\ ProcOK'
    BY DEF CancelCall, TypeOK, MemOK, ProcOK
  <1>2. DiskOK' /\ WorkOK' /\ PastOK'
    BY DEF CancelCall, TypeOK, DiskOK, WorkOK, PastOK, diskVars, history
  <1> QED
    BY <1>1, <1>2, QuietHub, TypeParts DEF CancelCall

LEMMA TypesDelete ==
  ASSUME TypeOK, NEW w \in Worlds, DeleteMap(w)
  PROVE  TypeOK'
  <1> USE JobsAssumption
  <1>1. DiskOK' /\ PastOK'
    BY DEF DeleteMap, TypeOK, DiskOK, PastOK, NoEnd, Hows
  <1>2. MemOK' /\ WorkOK' /\ ProcOK'
    BY DEF DeleteMap, TypeOK, MemOK, WorkOK, ProcOK, memVars, procVars
  <1> QED
    BY <1>1, <1>2, QuietHub, TypeParts DEF DeleteMap

LEMMA TypesShutdown == ASSUME TypeOK, Shutdown PROVE TypeOK'
  <1>1. MemOK' /\ ProcOK'
    BY DEF Shutdown, TypeOK, MemOK, ProcOK
  <1>2. DiskOK' /\ WorkOK' /\ PastOK'
    BY DEF Shutdown, TypeOK, DiskOK, WorkOK, PastOK, diskVars, history
  <1> QED
    BY <1>1, <1>2, QuietHub, TypeParts DEF Shutdown

LEMMA TypesRestart == ASSUME TypeOK, Restart PROVE TypeOK'
  <1> USE JobsAssumption
  <1>1. MemOK' /\ DiskOK'
    <2>1. stageNum' \in [Jobs -> 0..NumStages]
      BY DEF Restart
    <2> QED
      BY <2>1 DEF Restart, TypeOK, MemOK, DiskOK, Statuses, diskVars
  <1>2. WorkOK'
    BY NoWorkType DEF Restart, WorkOK, WorkRecs
  <1>3. ProcOK'
    <2>1. queue' \in Seq(Jobs) /\ Len(queue') <= QueueSize
      BY DEF Restart
    <2> QED
      BY <2>1 DEF Restart, TypeOK, ProcOK, SubPcs
  <1>4. HubOK'
    <2>1. <<>> \in Seq(Events) /\ Len(<<>>) <= ChanSize
      OBVIOUS
    <2> QED
      BY <2>1 DEF Restart, TypeOK, HubOK
  <1>5. PastOK'
    BY DEF Restart, TypeOK, PastOK
  <1> QED
    BY <1>1, <1>2, <1>3, <1>4, <1>5, TypeParts

LEMMA TypesNext == TypeOK /\ [Next]_vars => TypeOK'
  <1> SUFFICES ASSUME TypeOK, [Next]_vars PROVE TypeOK'
    OBVIOUS
  <1>1. CASE Operate
    BY <1>1, TypesSubmit, TypesWorker, TypesCancelRead, TypesCancelCall, TypesDelete, TypesShutdown
       DEF Operate
  <1>2. CASE Restart
    BY <1>2, TypesRestart
  <1>3. CASE UNCHANGED vars
    <2>1. MemOK' /\ DiskOK' /\ WorkOK' /\ ProcOK' /\ PastOK'
      BY <1>3 DEF TypeOK, MemOK, DiskOK, WorkOK, ProcOK, PastOK, vars, memVars, diskVars, procVars,
                  history
    <2> QED
      BY <1>3, <2>1, QuietHub, TypeParts DEF vars
  <1> QED
    BY <1>1, <1>2, <1>3 DEF Next

\* Types are kept by every behaviour (TypeOK of the run map_jobs).
THEOREM JobsTyped == Spec => []TypeOK
  BY TypesInit, TypesNext, PTL DEF Spec

(***************************************************************************)
(* Where a job is. A job is with its submitter, then in the queue, once,   *)
(* then with the goroutine of Start; its status says which, so no step but *)
(* the goroutine's own ends a job or starts it, and none touches a job     *)
(* that has ended.                                                         *)
(***************************************************************************)
Submitters ==
    \A j \in Jobs :
        /\ sub[j] = "idle" => status[j] = "none"
        /\ sub[j] \in {"announce", "send"} => status[j] = "pending"
        /\ sub[j] # "done" => wk.job # j

Queued ==
    /\ \A n \in 1..Len(queue) :
          /\ sub[queue[n]] = "done"
          /\ status[queue[n]] = "pending"
          /\ wk.job # queue[n]
    /\ \A m, n \in 1..Len(queue) : queue[m] = queue[n] => m = n

Worker ==
    /\ wk.pc \in {"idle", "exited"} => wk.job = None
    /\ wk.pc = "begin" => status[wk.job] = "pending"
    /\ wk.pc \in {"restyle", "run", "stage"} => status[wk.job] = "running"
    /\ wk.pc \in {"persist", "announce", "cleanup"} => status[wk.job] \in Ended
    /\ wk.pc = "persist" => status[wk.job] # "cancelled"
    /\ wk.pc = "cleanup" => status[wk.job] = "done"
    /\ wk.pc = "restyle" => wk.job \in Restyles
    /\ wk.pc \in {"run", "stage", "persist", "announce", "cleanup"} => wk.job \in Imports

Places == Submitters /\ Queued /\ Worker /\ OneActive

LEMMA PlacesInit == Init => Places
  BY JobsAssumption DEF Init, Places, Submitters, Queued, Worker, OneActive, NoWork

\* Steps that leave the jobs where they are.
LEMMA PlacesQuiet ==
  ASSUME Places, UNCHANGED <<status, queue, sub, wk>>
  PROVE  Places'
  BY DEF Places, Submitters, Queued, Worker, OneActive

\* A step of the goroutine that touches no job but its own, and keeps that while it
\* is running.
LEMMA PlacesWork ==
  ASSUME TypeOK, Places, UNCHANGED <<queue, sub>>,
         \A j \in Jobs \ {wk.job} : status'[j] = status[j],
         wk'.job \in {wk.job, None},
         wk.job \in Jobs /\ status'[wk.job] = "running" => wk'.job = wk.job,
         Worker'
  PROVE  Places'
  <1> USE JobsAssumption
  <1>1. Submitters'
    BY DEF Places, Submitters
  <1>2. Queued'
    <2>1. ASSUME NEW n \in 1..Len(queue)
          PROVE  sub'[queue[n]] = "done" /\ status'[queue[n]] = "pending" /\ wk'.job # queue[n]
      <3>1. queue[n] \in Jobs
        BY DEF TypeOK
      <3> QED
        BY <3>1 DEF Places, Queued
    <2> QED
      BY <2>1 DEF Places, Queued
  <1>3. OneActive'
    BY DEF Places, OneActive
  <1> QED
    BY <1>1, <1>2, <1>3 DEF Places

\* Submitting puts a job with its submitter, then at the end of the queue.
LEMMA PlacesSubmit ==
  ASSUME TypeOK, Places, NEW j \in Jobs, Submit(j) \/ SubmitStep(j)
  PROVE  Places'
  <1> USE JobsAssumption
  <1>1. CASE Submit(j)
    <2>1. \A k \in Jobs \ {j} : status'[k] = status[k] /\ sub'[k] = sub[k]
      BY <1>1 DEF Submit, TypeOK
    <2>2. sub[j] = "idle" /\ sub'[j] = "announce" /\ status'[j] = "pending" /\ wk' = wk /\ queue' = queue
      BY <1>1 DEF Submit, TypeOK
    <2>3. wk.job # j
      BY <2>2 DEF Places, Submitters
    <2>4. Submitters'
      BY <2>1, <2>2, <2>3 DEF Places, Submitters
    <2>5. Queued'
      <3>1. ASSUME NEW n \in 1..Len(queue) PROVE queue[n] \in Jobs \ {j}
        BY <2>2 DEF Places, Queued, TypeOK
      <3> QED
        BY <2>1, <2>2, <3>1 DEF Places, Queued
    <2>6. Worker'
      BY <2>1, <2>2, <2>3 DEF Places, Worker, TypeOK
    <2>7. OneActive'
      BY <2>1, <2>2 DEF Places, OneActive
    <2> QED
      BY <2>4, <2>5, <2>6, <2>7 DEF Places
  <1>2. CASE SubmitAnnounce(j)
    <2>1. UNCHANGED <<status, queue, wk>> /\ sub[j] = "announce" /\ sub' = [sub EXCEPT ![j] = "send"]
      BY <1>2 DEF SubmitAnnounce, memVars
    <2>2. Submitters'
      BY <2>1 DEF Places, Submitters, TypeOK
    <2>3. Queued'
      <3>1. ASSUME NEW n \in 1..Len(queue) PROVE queue[n] \in Jobs \ {j}
        BY <2>1 DEF Places, Queued, TypeOK
      <3> QED
        BY <2>1, <3>1 DEF Places, Queued, TypeOK
    <2> QED
      BY <2>1, <2>2, <2>3 DEF Places, Worker, OneActive
  <1>3. CASE SubmitSend(j)
    <2>1. /\ UNCHANGED <<status, wk>> /\ sub[j] = "send"
          /\ sub' = [sub EXCEPT ![j] = "done"] /\ queue' = Append(queue, j)
      BY <1>3 DEF SubmitSend, memVars
    <2>2. Submitters'
      BY <2>1 DEF Places, Submitters, TypeOK
    <2>3. Queued'
      <3>1. ASSUME NEW n \in 1..Len(queue) PROVE queue[n] \in Jobs \ {j}
        <4>1. queue[n] \in Jobs
          BY DEF TypeOK
        <4>2. sub[queue[n]] = "done" /\ sub[j] = "send"
          BY <2>1 DEF Places, Queued
        <4> QED
          BY <4>1, <4>2
      <3>2. /\ Len(queue') = Len(queue) + 1 /\ queue'[Len(queue) + 1] = j /\ Len(queue) \in Nat
            /\ \A n \in 1..Len(queue) : queue'[n] = queue[n]
        BY <2>1 DEF TypeOK
      <3>3. status[j] = "pending" /\ wk.job # j
        BY <2>1 DEF Places, Submitters
      <3>4. ASSUME NEW n \in 1..Len(queue')
            PROVE  sub'[queue'[n]] = "done" /\ status'[queue'[n]] = "pending" /\ wk'.job # queue'[n]
        <4>1. CASE n = Len(queue) + 1
          BY <2>1, <3>2, <3>3, <4>1 DEF TypeOK
        <4>2. CASE n \in 1..Len(queue)
          BY <2>1, <3>1, <3>2, <4>2 DEF Places, Queued, TypeOK
        <4> QED
          BY <3>2, <4>1, <4>2
      <3>5. ASSUME NEW m \in 1..Len(queue'), NEW n \in 1..Len(queue'), queue'[m] = queue'[n]
            PROVE  m = n
        <4>1. CASE m \in 1..Len(queue) /\ n \in 1..Len(queue)
          BY <3>2, <3>5, <4>1 DEF Places, Queued
        <4>2. CASE m \in 1..Len(queue) /\ n \notin 1..Len(queue)
          BY <3>1, <3>2, <3>5, <4>2
        <4>3. CASE m \notin 1..Len(queue) /\ n \in 1..Len(queue)
          BY <3>1, <3>2, <3>5, <4>3
        <4>4. CASE m \notin 1..Len(queue) /\ n \notin 1..Len(queue)
          BY <3>2, <4>4
        <4> QED
          BY <4>1, <4>2, <4>3, <4>4
      <3> QED
        BY <3>4, <3>5 DEF Queued
    <2> QED
      BY <2>1, <2>2, <2>3 DEF Places, Worker, OneActive
  <1> QED
    BY <1>1, <1>2, <1>3 DEF SubmitStep

\* The goroutine takes the job at the head, and only that.
LEMMA PlacesTake == ASSUME TypeOK, Places, Take PROVE Places'
  <1> USE JobsAssumption
  <1> DEFINE j == Head(queue)
  <1>1. /\ queue # <<>> /\ queue' = Tail(queue) /\ wk' = [pc |-> "begin", job |-> j, stage |-> 0]
        /\ UNCHANGED <<status, sub>> /\ wk.pc = "idle"
    BY DEF Take, At
  <1>2. /\ Len(queue) \in Nat \ {0} /\ Len(queue') = Len(queue) - 1 /\ j = queue[1] /\ j \in Jobs
        /\ \A n \in 1..Len(queue') : n + 1 \in 1..Len(queue) /\ queue'[n] = queue[n + 1]
    BY <1>1 DEF TypeOK
  <1>3. sub[j] = "done" /\ status[j] = "pending" /\ wk.job = None
    BY <1>1, <1>2 DEF Places, Queued, Worker
  <1>4. Submitters'
    BY <1>1, <1>3 DEF Places, Submitters
  <1>5. Queued'
    <2>1. ASSUME NEW n \in 1..Len(queue')
          PROVE  /\ sub'[queue'[n]] = "done" /\ status'[queue'[n]] = "pending"
                 /\ wk'.job # queue'[n]
      <3>1. queue[n + 1] # j
        <4>1. n + 1 # 1 /\ 1 \in 1..Len(queue)
          BY <1>2
        <4> QED
          BY <1>2, <4>1 DEF Places, Queued
      <3> QED
        BY <1>1, <1>2, <3>1 DEF Places, Queued
    <2>2. ASSUME NEW m \in 1..Len(queue'), NEW n \in 1..Len(queue'), queue'[m] = queue'[n]
          PROVE  m = n
      <3>1. m + 1 = n + 1
        BY <1>2, <2>2 DEF Places, Queued
      <3> QED
        BY <3>1
    <2> QED
      BY <2>1, <2>2 DEF Queued
  <1>6. Worker'
    BY <1>1, <1>3 DEF Worker
  <1>7. OneActive'
    BY <1>1, <1>3 DEF Places, OneActive
  <1> QED
    BY <1>4, <1>5, <1>6, <1>7 DEF Places

\* A step inside a stage, or its end.
LEMMA PlacesStageOver ==
  ASSUME TypeOK, Places, At("stage"), StageOver, UNCHANGED <<queue, sub>>
  PROVE  Places'
  <1> USE JobsAssumption DEF At, Goto
  <1>1. wk.job \in Jobs
    BY DEF TypeOK
  <1>2. status[wk.job] = "running" /\ wk.job \in Imports
    BY DEF Places, Worker
  <1>3. CASE wk.stage < NumStages
    <2>1. UNCHANGED status /\ wk'.job = wk.job /\ wk'.pc = "run"
      <3>1. wk' = [wk EXCEPT !.pc = "run", !.stage = wk.stage + 1] /\ UNCHANGED status
        BY <1>3 DEF StageOver
      <3> QED
        BY <3>1 DEF TypeOK
    <2>2. Worker'
      BY <1>2, <2>1 DEF Worker
    <2> QED
      BY <2>1, <2>2, PlacesWork
  <1>4. CASE ~(wk.stage < NumStages)
    <2>1. wk'.job = wk.job /\ wk'.pc = "persist"
      BY <1>4 DEF StageOver, TypeOK
    <2>2. status'[wk.job] = "done" /\ \A j \in Jobs \ {wk.job} : status'[j] = status[j]
      BY <1>1, <1>4 DEF StageOver, TypeOK
    <2>3. Worker'
      BY <1>2, <2>1, <2>2 DEF Worker, Ended
    <2> QED
      BY <2>1, <2>2, <2>3, PlacesWork
  <1> QED
    BY <1>3, <1>4

\* Every step of the goroutine keeps the jobs in their places.
LEMMA PlacesWorker == ASSUME TypeOK, Places, WorkerStep PROVE Places'
  <1> USE JobsAssumption DEF At, Goto
  <1>0. wk.pc \notin {"idle", "exited"} => wk.job \in Jobs
    BY DEF TypeOK
  <1>1. CASE Take
    BY <1>1, PlacesTake
  <1>2. CASE Exit
    <2>1. /\ UNCHANGED <<queue, sub>>
          /\ \A j \in Jobs \ {wk.job} : status'[j] = status[j]
          /\ wk'.job \in {wk.job, None}
          /\ wk.job \in Jobs /\ status'[wk.job] = "running" => wk'.job = wk.job
      BY <1>0, <1>2 DEF Exit, TypeOK, NoWork, Ended, memVars
    <2>2. Worker'
      BY <1>0, <1>2 DEF Exit, TypeOK, Places, Worker, NoWork, Ended, Imports, memVars
    <2> QED
      BY <2>1, <2>2, PlacesWork
  <1>3. CASE BeginRestyle
    <2>1. /\ UNCHANGED <<queue, sub>>
          /\ \A j \in Jobs \ {wk.job} : status'[j] = status[j]
          /\ wk'.job \in {wk.job, None}
          /\ wk.job \in Jobs /\ status'[wk.job] = "running" => wk'.job = wk.job
      BY <1>0, <1>3 DEF BeginRestyle, TypeOK, NoWork, Ended
    <2>2. Worker'
      BY <1>0, <1>3 DEF BeginRestyle, TypeOK, Places, Worker, NoWork, Ended, Imports
    <2> QED
      BY <2>1, <2>2, PlacesWork
  <1>4. CASE BeginImport
    <2>1. /\ UNCHANGED <<queue, sub>>
          /\ \A j \in Jobs \ {wk.job} : status'[j] = status[j]
          /\ wk'.job \in {wk.job, None}
          /\ wk.job \in Jobs /\ status'[wk.job] = "running" => wk'.job = wk.job
      BY <1>0, <1>4 DEF BeginImport, TypeOK, NoWork, Ended
    <2>2. Worker'
      BY <1>0, <1>4 DEF BeginImport, TypeOK, Places, Worker, NoWork, Ended, Imports
    <2> QED
      BY <2>1, <2>2, PlacesWork
  <1>5. CASE BeginFails
    <2>1. /\ UNCHANGED <<queue, sub>>
          /\ \A j \in Jobs \ {wk.job} : status'[j] = status[j]
          /\ wk'.job \in {wk.job, None}
          /\ wk.job \in Jobs /\ status'[wk.job] = "running" => wk'.job = wk.job
      BY <1>0, <1>5 DEF BeginFails, TypeOK, NoWork, Ended
    <2>2. Worker'
      BY <1>0, <1>5 DEF BeginFails, TypeOK, Places, Worker, NoWork, Ended, Imports
    <2> QED
      BY <2>1, <2>2, PlacesWork
  <1>6. CASE EndRestyle
    <2>1. /\ UNCHANGED <<queue, sub>>
          /\ \A j \in Jobs \ {wk.job} : status'[j] = status[j]
          /\ wk'.job \in {wk.job, None}
          /\ wk.job \in Jobs /\ status'[wk.job] = "running" => wk'.job = wk.job
      BY <1>0, <1>6 DEF EndRestyle, TypeOK, NoWork, Ended
    <2>2. Worker'
      BY <1>0, <1>6 DEF EndRestyle, TypeOK, Places, Worker, NoWork, Ended, Imports
    <2> QED
      BY <2>1, <2>2, PlacesWork
  <1>7. CASE PipelineCancelled
    <2>1. /\ UNCHANGED <<queue, sub>>
          /\ \A j \in Jobs \ {wk.job} : status'[j] = status[j]
          /\ wk'.job \in {wk.job, None}
          /\ wk.job \in Jobs /\ status'[wk.job] = "running" => wk'.job = wk.job
      BY <1>0, <1>7 DEF PipelineCancelled, TypeOK, NoWork, Ended
    <2>2. Worker'
      BY <1>0, <1>7 DEF PipelineCancelled, TypeOK, Places, Worker, NoWork, Ended, Imports
    <2> QED
      BY <2>1, <2>2, PlacesWork
  <1>8. CASE StageBegin
    <2>1. /\ UNCHANGED <<queue, sub>>
          /\ \A j \in Jobs \ {wk.job} : status'[j] = status[j]
          /\ wk'.job \in {wk.job, None}
          /\ wk.job \in Jobs /\ status'[wk.job] = "running" => wk'.job = wk.job
      BY <1>0, <1>8 DEF StageBegin, TypeOK, NoWork, Ended
    <2>2. Worker'
      BY <1>0, <1>8 DEF StageBegin, TypeOK, Places, Worker, NoWork, Ended, Imports
    <2> QED
      BY <2>1, <2>2, PlacesWork
  <1>9. CASE StageOK
    BY <1>9, PlacesStageOver DEF StageOK
  <1>10. CASE StageSkipped
    BY <1>10, PlacesStageOver DEF StageSkipped, StageErrs
  <1>11. CASE StageFails
    <2>1. /\ UNCHANGED <<queue, sub>>
          /\ \A j \in Jobs \ {wk.job} : status'[j] = status[j]
          /\ wk'.job \in {wk.job, None}
          /\ wk.job \in Jobs /\ status'[wk.job] = "running" => wk'.job = wk.job
      BY <1>0, <1>11 DEF StageFails, TypeOK, NoWork, Ended, StageErrs
    <2>2. Worker'
      BY <1>0, <1>11 DEF StageFails, TypeOK, Places, Worker, NoWork, Ended, Imports, StageErrs
    <2> QED
      BY <2>1, <2>2, PlacesWork
  <1>12. CASE Persist
    <2>1. /\ UNCHANGED <<queue, sub>>
          /\ \A j \in Jobs \ {wk.job} : status'[j] = status[j]
          /\ wk'.job \in {wk.job, None}
          /\ wk.job \in Jobs /\ status'[wk.job] = "running" => wk'.job = wk.job
      BY <1>0, <1>12 DEF Persist, TypeOK, NoWork, Ended, memVars
    <2>2. Worker'
      BY <1>0, <1>12 DEF Persist, TypeOK, Places, Worker, NoWork, Ended, Imports, memVars
    <2> QED
      BY <2>1, <2>2, PlacesWork
  <1>13. CASE AnnounceEnd
    <2>1. /\ UNCHANGED <<queue, sub>>
          /\ \A j \in Jobs \ {wk.job} : status'[j] = status[j]
          /\ wk'.job \in {wk.job, None}
          /\ wk.job \in Jobs /\ status'[wk.job] = "running" => wk'.job = wk.job
      BY <1>0, <1>13 DEF AnnounceEnd, TypeOK, Places, Worker, NoWork, Ended, memVars
    <2>2. Worker'
      BY <1>0, <1>13 DEF AnnounceEnd, TypeOK, Places, Worker, NoWork, Ended, Imports, memVars
    <2> QED
      BY <2>1, <2>2, PlacesWork
  <1>14. CASE CleanUp
    <2>1. /\ UNCHANGED <<queue, sub>>
          /\ \A j \in Jobs \ {wk.job} : status'[j] = status[j]
          /\ wk'.job \in {wk.job, None}
          /\ wk.job \in Jobs /\ status'[wk.job] = "running" => wk'.job = wk.job
      BY <1>0, <1>14 DEF CleanUp, TypeOK, Places, Worker, NoWork, Ended, memVars
    <2>2. Worker'
      BY <1>0, <1>14 DEF CleanUp, TypeOK, Places, Worker, NoWork, Ended, Imports, memVars
    <2> QED
      BY <2>1, <2>2, PlacesWork
  <1> QED
    BY <1>1, <1>2, <1>3, <1>4, <1>5, <1>6, <1>7, <1>8, <1>9, <1>10, <1>11, <1>12, <1>13, <1>14 DEF WorkerStep

LEMMA PlacesRestart == ASSUME TypeOK, Restart PROVE Places'
  <1> USE JobsAssumption
  <1>1. /\ \A j \in Jobs : status'[j] = (IF sub[j] # "idle" THEN "lost" ELSE "none")
        /\ \A j \in Jobs : sub'[j] = (IF sub[j] # "idle" THEN "done" ELSE "idle")
        /\ queue' = <<>> /\ wk'.pc = "idle" /\ wk'.job = None
    BY NoWorkType DEF Restart
  <1>2. Submitters' /\ OneActive'
    BY <1>1 DEF Submitters, OneActive
  <1>3. Queued'
    BY <1>1 DEF Queued
  <1>4. Worker'
    BY <1>1 DEF Worker
  <1> QED
    BY <1>2, <1>3, <1>4 DEF Places

LEMMA PlacesNext == TypeOK /\ Places /\ [Next]_vars => Places'
  <1> SUFFICES ASSUME TypeOK, Places, [Next]_vars PROVE Places'
    OBVIOUS
  <1>1. CASE \E j \in Jobs : Submit(j) \/ SubmitStep(j)
    BY <1>1, PlacesSubmit
  <1>2. CASE WorkerStep
    BY <1>2, PlacesWorker
  <1>3. CASE \E c \in Requests : CancelCall(c) \/ \E i \in Ids : CancelRead(c, i)
    BY <1>3, PlacesQuiet DEF CancelCall, CancelRead, memVars
  <1>4. CASE \E w \in Worlds : DeleteMap(w)
    BY <1>4, PlacesQuiet DEF DeleteMap, memVars, procVars
  <1>5. CASE Shutdown
    BY <1>5, PlacesQuiet DEF Shutdown
  <1>6. CASE Restart
    BY <1>6, PlacesRestart
  <1>7. CASE UNCHANGED vars
    BY <1>7, PlacesQuiet DEF vars, memVars, procVars
  <1> QED
    BY <1>1, <1>2, <1>3, <1>4, <1>5, <1>6, <1>7 DEF Next, Operate

\* Jobs keep to their places in every behaviour.
LEMMA PlacesKept == Spec => [](TypeOK /\ Places)
  BY TypesInit, TypesNext, PlacesInit, PlacesNext, PTL DEF Spec

\* A job that is running is the one the goroutine works on (OneActive of the run
\* map_jobs): processJob leaves none behind.
THEOREM OneAtATime == Spec => []OneActive
  <1>1. Places => OneActive
    BY DEF Places
  <1> QED
    BY <1>1, PlacesKept, PTL

\* The goroutine ends only the job it works on, which has not ended.
LEMMA EndedWorker ==
  ASSUME TypeOK, Places, WorkerStep, NEW j \in Jobs, status[j] \in Ended
  PROVE  status'[j] = status[j]
  <1> USE DEF At, Goto
  <1>1. CASE UNCHANGED status
    BY <1>1
  <1>2. CASE wk.pc \in {"begin", "restyle", "run", "stage"}
    <2>1. wk.job \in Jobs /\ wk.job # j
      BY <1>2 DEF TypeOK, Places, Worker, Ended
    <2> QED
      BY <1>2, <2>1 DEF TypeOK, WorkerStep, Take, Exit, BeginRestyle, BeginImport, BeginFails, EndRestyle,
                        PipelineCancelled, StageBegin, StageOK, StageSkipped, StageFails, StageOver,
                        StageErrs, Persist, AnnounceEnd, CleanUp, memVars
  <1>3. CASE wk.pc \notin {"begin", "restyle", "run", "stage"}
    BY <1>3 DEF WorkerStep, Take, Exit, BeginRestyle, BeginImport, BeginFails, EndRestyle,
                PipelineCancelled, StageBegin, StageOK, StageSkipped, StageFails, StageErrs, Persist,
                AnnounceEnd, CleanUp, memVars
  <1> QED
    BY <1>2, <1>3

\* No step changes the status of a job that has ended.
LEMMA EndedNext ==
  ASSUME TypeOK, Places, [Next]_vars, NEW j \in Jobs, status[j] \in Ended
  PROVE  status'[j] \in {status[j], "lost"}
  <1>1. CASE \E k \in Jobs : Submit(k) \/ SubmitStep(k)
    <2>1. PICK k \in Jobs : Submit(k) \/ SubmitStep(k)
      BY <1>1
    <2>2. CASE Submit(k)
      <3>1. j # k
        BY <2>2 DEF Submit, Places, Submitters, Ended
      <3> QED
        BY <2>2, <3>1 DEF Submit, TypeOK
    <2>3. CASE SubmitStep(k)
      BY <2>3 DEF SubmitStep, SubmitAnnounce, SubmitSend, memVars
    <2> QED
      BY <2>1, <2>2, <2>3
  <1>2. CASE WorkerStep
    BY <1>2, EndedWorker
  <1>3. CASE \E c \in Requests : CancelCall(c) \/ \E i \in Ids : CancelRead(c, i)
    BY <1>3 DEF CancelCall, CancelRead, memVars
  <1>4. CASE \E w \in Worlds : DeleteMap(w)
    BY <1>4 DEF DeleteMap, memVars
  <1>5. CASE Shutdown
    BY <1>5 DEF Shutdown
  <1>6. CASE Restart
    <2>1. sub[j] # "idle"
      BY DEF Places, Submitters, Ended
    <2> QED
      BY <1>6, <2>1 DEF Restart
  <1>7. CASE UNCHANGED vars
    BY <1>7 DEF vars, memVars
  <1> QED
    BY <1>1, <1>2, <1>3, <1>4, <1>5, <1>6, <1>7 DEF Next, Operate

\* A job that has ended keeps its status (EndedStays of the run map_jobs): neither a
\* late cancellation nor a shutdown nor a job of the same id touches it.
THEOREM EndsAreFinal == Spec => EndedStays
  <1>1. TypeOK /\ Places /\ [Next]_vars
        => [\A j \in Jobs : status[j] \in Ended => status'[j] \in {status[j], "lost"}]_vars
    BY EndedNext
  <1> QED
    BY <1>1, PlacesKept, PTL DEF Spec, EndedStays

(***************************************************************************)
(* error.json. Between the end of a run and the write of its error.json    *)
(* the file is still that of the run before.                               *)
(***************************************************************************)
Writing(w) == wk.pc = "persist" /\ Working(w)

\* An import that has not got to error.json yet.
Ahead(w) == wk.pc \in {"begin", "run", "stage", "persist"} /\ Working(w)

Recorded ==
    \A w \in Worlds \ torn :
        /\ Ahead(w) => errorJson[w] = found[w]
        /\ IF Writing(w)
           THEN /\ status[wk.job] = "done" => lastEnd[w].how \in {"done", "none"}
                /\ status[wk.job] = "failed" /\ here[w] =>
                       lastEnd[w] = [job |-> wk.job, how |-> "failed"]
           ELSE errorJson[w] = ErrorDue(w)

LEMMA RecordedInit == Init => Recorded
  BY DEF Init, Recorded, Writing, Ahead, NoWork, NoEnd, ErrorDue

\* Steps that leave the goroutine, its job and the directories alone.
LEMMA RecordedQuiet ==
  ASSUME Recorded, UNCHANGED <<errorJson, lastEnd, found, torn, here, wk>>,
         wk.job \in Jobs => status'[wk.job] = status[wk.job]
  PROVE  Recorded'
  BY DEF Recorded, Writing, Ahead, Working, Imports, ErrorDue

\* Steps of the goroutine before the end of a run and after the write.
LEMMA RecordedAway ==
  ASSUME Recorded, UNCHANGED <<errorJson, lastEnd, found, torn>>, wk.pc # "persist", wk'.pc # "persist",
         \A w \in Worlds : Ahead(w)' => Ahead(w)
  PROVE  Recorded'
  BY DEF Recorded, Writing, ErrorDue

\* The import the goroutine works on has ended without touching error.json.
LEMMA RecordedLeft ==
  ASSUME TypeOK, Recorded, wk.job \in Imports, wk.pc \in {"begin", "run"}, EndedSo(wk.job, "left"),
         wk'.pc \notin {"begin", "run", "stage", "persist"}, UNCHANGED <<errorJson, found, torn>>
  PROVE  Recorded'
  <1>1. ASSUME NEW w \in Worlds \ torn PROVE errorJson'[w] = ErrorDue(w)'
    <2>1. CASE w = worldOf[wk.job]
      <3>1. errorJson[w] = found[w]
        BY <2>1 DEF Recorded, Ahead, Working
      <3>2. lastEnd'[w].how = "left"
        BY <2>1 DEF EndedSo, TypeOK
      <3> QED
        BY <3>1, <3>2 DEF ErrorDue
    <2>2. CASE w # worldOf[wk.job]
      <3>1. errorJson[w] = ErrorDue(w)
        BY DEF Recorded, Writing
      <3>2. lastEnd'[w] = lastEnd[w]
        BY <2>2 DEF EndedSo, TypeOK
      <3> QED
        BY <3>1, <3>2 DEF ErrorDue
    <2> QED
      BY <2>1, <2>2
  <1> QED
    BY <1>1 DEF Recorded, Ahead, Writing

\* A stage has succeeded or failed for good: error.json is about to be written.
LEMMA RecordedToWrite ==
  ASSUME TypeOK, Recorded, wk.job \in Imports, wk.pc = "stage", NEW how \in {"done", "failed"},
         EndedSo(wk.job, how), status'[wk.job] = how, wk'.pc = "persist", wk'.job = wk.job,
         UNCHANGED <<errorJson, found, torn>>
  PROVE  Recorded'
  <1> USE JobsAssumption
  <1> SUFFICES ASSUME NEW w \in Worlds \ torn
               PROVE  /\ Ahead(w)' => errorJson'[w] = found'[w]
                      /\ IF Writing(w)'
                         THEN /\ how = "done" => lastEnd'[w].how \in {"done", "none"}
                              /\ how = "failed" /\ here'[w] =>
                                     lastEnd'[w] = [job |-> wk.job, how |-> "failed"]
                         ELSE errorJson'[w] = ErrorDue(w)'
    BY DEF Recorded
  <1>1. Working(w)' <=> w = worldOf[wk.job]
    BY DEF Working, Imports
  <1>2. CASE w = worldOf[wk.job]
    <2>1. lastEnd'[w] = [job |-> wk.job, how |-> how]
      BY <1>2 DEF EndedSo, TypeOK
    <2>2. errorJson[w] = found[w]
      BY <1>2 DEF Recorded, Ahead, Working
    <2> QED
      BY <1>1, <1>2, <2>1, <2>2 DEF Writing
  <1>3. CASE w # worldOf[wk.job]
    <2>1. lastEnd'[w] = lastEnd[w]
      BY <1>3 DEF EndedSo, TypeOK
    <2>2. errorJson[w] = ErrorDue(w)
      BY DEF Recorded, Writing
    <2> QED
      BY <1>1, <1>3, <2>1, <2>2 DEF Writing, Ahead, ErrorDue
  <1> QED
    BY <1>2, <1>3

\* A stage that is over: the next one, or a run that succeeded.
LEMMA RecordedStageOver ==
  ASSUME TypeOK, Places, Recorded, At("stage"), StageOver, UNCHANGED <<errorJson, found, torn>>
  PROVE  Recorded'
  <1> USE DEF At, Goto
  <1>0. wk.job \in Imports /\ wk.job \in Jobs
    BY DEF Places, Worker, TypeOK
  <1>1. CASE wk.stage < NumStages
    <2>1. wk' = [wk EXCEPT !.pc = "run", !.stage = wk.stage + 1] /\ UNCHANGED lastEnd
      BY <1>1 DEF StageOver
    <2>2. wk'.pc = "run" /\ wk'.job = wk.job
      BY <2>1 DEF TypeOK
    <2> QED
      BY <2>1, <2>2, RecordedAway DEF Ahead, Working
  <1>2. CASE ~(wk.stage < NumStages)
    <2>1. wk'.job = wk.job /\ wk'.pc = "persist" /\ status'[wk.job] = "done"
      BY <1>0, <1>2 DEF StageOver, TypeOK
    <2>2. EndedSo(wk.job, "done")
      BY <1>2 DEF StageOver
    <2> QED
      BY <1>0, <2>1, <2>2, RecordedToWrite
  <1> QED
    BY <1>1, <1>2

\* Only imports write error.json: a run that failed or the removal after a success.
LEMMA RecordedPersist == ASSUME TypeOK, Places, Recorded, Persist PROVE Recorded'
  <1> USE JobsAssumption DEF At, Goto
  <1> DEFINE u == worldOf[wk.job]
  <1>1. /\ wk.pc = "persist" /\ wk'.pc = "announce" /\ UNCHANGED <<found, torn>>
    BY DEF Persist, TypeOK
  <1>2. wk.job \in Imports /\ status[wk.job] \in {"done", "failed"}
    BY <1>1 DEF Places, Worker, Ended
  <1>3. u \in Worlds /\ Writing(u) /\ Ahead(u)
    BY <1>1, <1>2 DEF Writing, Ahead, Working, Imports
  <1>4. ASSUME NEW w \in Worlds \ torn PROVE errorJson'[w] = ErrorDue(w)'
    <2>1. CASE w = u
      <3>0. errorJson[u] = found[u]
        BY <1>3, <2>1 DEF Recorded
      <3>1. CASE /\ status[wk.job] = "done" \/ here[u]
                 /\ errorJson' = [errorJson EXCEPT ![u] = IF status[wk.job] = "done" THEN None ELSE wk.job]
                 /\ UNCHANGED lastEnd
        BY <1>1, <1>2, <1>3, <2>1, <3>1 DEF Recorded, ErrorDue, TypeOK
      <3>2. CASE EndedSo(wk.job, "left") /\ UNCHANGED errorJson
        BY <1>1, <1>3, <2>1, <3>0, <3>2 DEF EndedSo, ErrorDue, TypeOK
      <3>3. CASE EndedSo(wk.job, "cut") /\ errorJson' = [errorJson EXCEPT ![u] = None]
        BY <1>1, <1>3, <2>1, <3>3 DEF EndedSo, ErrorDue, TypeOK
      <3> QED
        BY <3>1, <3>2, <3>3 DEF Persist
    <2>2. CASE w # u
      <3>1. errorJson[w] = ErrorDue(w)
        BY <2>2 DEF Recorded, Writing, Working
      <3>2. lastEnd'[w] = lastEnd[w] /\ errorJson'[w] = errorJson[w]
        BY <2>2 DEF Persist, EndedSo, TypeOK
      <3> QED
        BY <1>1, <3>1, <3>2 DEF ErrorDue
    <2> QED
      BY <2>1, <2>2
  <1> QED
    BY <1>1, <1>4 DEF Recorded, Writing, Ahead

LEMMA RecordedWorker == ASSUME TypeOK, Places, Recorded, WorkerStep PROVE Recorded'
  <1> USE JobsAssumption DEF At, Goto
  <1>0. wk.pc \notin {"idle", "exited"} => wk.job \in Jobs
    BY DEF TypeOK
  <1>1. CASE Take
    <2>1. /\ wk.pc = "idle" /\ wk'.pc = "begin" /\ UNCHANGED <<errorJson, lastEnd, torn>>
          /\ wk'.job = Head(queue)
          /\ found' = [w \in Worlds |-> IF Head(queue) \in Imports /\ worldOf[Head(queue)] = w
                                        THEN errorJson[w] ELSE found[w]]
      BY <1>1 DEF Take, diskVars
    <2>2. ASSUME NEW w \in Worlds \ torn
          PROVE  (Ahead(w)' => errorJson'[w] = found'[w]) /\ errorJson'[w] = ErrorDue(w)'
      <3>1. errorJson[w] = ErrorDue(w)
        BY <2>1 DEF Recorded, Writing
      <3>2. found'[w] \in {errorJson[w], found[w]} /\ (Working(w)' => found'[w] = errorJson[w])
        BY <2>1 DEF Working
      <3> QED
        BY <2>1, <3>1, <3>2 DEF ErrorDue, Ahead
    <2> QED
      BY <2>1, <2>2 DEF Recorded, Writing
  <1>2. CASE Exit \/ BeginRestyle \/ BeginImport \/ EndRestyle \/ StageBegin
    <2>1. UNCHANGED <<errorJson, lastEnd, found, torn>>
      BY <1>2 DEF Exit, BeginRestyle, BeginImport, EndRestyle, StageBegin, diskVars, history
    <2>2. /\ wk.pc # "persist" /\ wk'.pc # "persist"
          /\ wk'.pc \in {"begin", "run", "stage", "persist"} =>
                wk.pc \in {"begin", "run", "stage", "persist"} /\ wk'.job = wk.job
      <3>1. CASE Exit \/ StageBegin
        BY <3>1 DEF Exit, StageBegin, TypeOK
      <3>2. CASE BeginRestyle \/ EndRestyle
        BY <3>2 DEF BeginRestyle, EndRestyle, TypeOK, NoWork
      <3>3. CASE BeginImport
        BY <3>3 DEF BeginImport, TypeOK
      <3> QED
        BY <1>2, <3>1, <3>2, <3>3
    <2> QED
      BY <2>1, <2>2, RecordedAway DEF Ahead, Working
  <1>3. CASE BeginFails
    BY <1>3, RecordedLeft DEF BeginFails, NoWork
  <1>4. CASE PipelineCancelled
    <2>1. wk.job \in Imports /\ wk'.pc = "announce"
      BY <1>0, <1>4 DEF PipelineCancelled, Places, Worker, TypeOK
    <2> QED
      BY <1>4, <2>1, RecordedLeft DEF PipelineCancelled, diskVars
  <1>5. CASE StageOK \/ StageSkipped
    BY <1>5, RecordedStageOver DEF StageOK, StageSkipped, StageErrs
  <1>6. CASE StageFails
    <2>1. /\ wk.job \in Imports /\ wk.pc = "stage" /\ UNCHANGED <<errorJson, found, torn>>
          /\ wk'.job = wk.job /\ wk'.pc = "persist" /\ status'[wk.job] = "failed"
          /\ EndedSo(wk.job, "failed")
      BY <1>0, <1>6 DEF StageFails, StageErrs, TypeOK, Places, Worker
    <2> QED
      BY <2>1, RecordedToWrite
  <1>7. CASE Persist
    BY <1>7, RecordedPersist
  <1>8. CASE AnnounceEnd \/ CleanUp
    BY <1>8, RecordedAway DEF AnnounceEnd, CleanUp, TypeOK, NoWork, diskVars, history, Ahead
  <1> QED
    BY <1>1, <1>2, <1>3, <1>4, <1>5, <1>6, <1>7, <1>8 DEF WorkerStep

\* A crash excuses the maps it caught in the middle of an import, a deleted map has
\* neither a file nor a failure.
LEMMA RecordedNext == TypeOK /\ Places /\ Recorded /\ [Next]_vars => Recorded'
  <1> SUFFICES ASSUME TypeOK, Places, Recorded, [Next]_vars PROVE Recorded'
    OBVIOUS
  <1>1. CASE \E j \in Jobs : Submit(j) \/ SubmitStep(j)
    <2>1. PICK j \in Jobs : Submit(j) \/ SubmitStep(j)
      BY <1>1
    <2>2. CASE Submit(j)
      <3>1. j # wk.job
        BY <2>2 DEF Submit, Places, Submitters
      <3>2. UNCHANGED <<errorJson, lastEnd, found, torn, here, wk>>
        BY <2>2 DEF Submit, history
      <3>3. wk.job \in Jobs => status'[wk.job] = status[wk.job]
        BY <2>2, <3>1 DEF Submit, TypeOK
      <3> QED
        BY <3>2, <3>3, RecordedQuiet
    <2>3. CASE SubmitStep(j)
      BY <2>3, RecordedQuiet DEF SubmitStep, SubmitAnnounce, SubmitSend, memVars, diskVars, history
    <2> QED
      BY <2>1, <2>2, <2>3
  <1>2. CASE WorkerStep
    BY <1>2, RecordedWorker
  <1>3. CASE \E c \in Requests : CancelCall(c) \/ \E i \in Ids : CancelRead(c, i)
    BY <1>3, RecordedQuiet DEF CancelCall, CancelRead, memVars, diskVars, history
  <1>4. CASE \E w \in Worlds : DeleteMap(w)
    <2>1. PICK u \in Worlds : DeleteMap(u)
      BY <1>4
    <2>2. UNCHANGED <<status, wk, torn>>
      BY <2>1 DEF DeleteMap, memVars, procVars
    <2>3. /\ errorJson'[u] = None /\ lastEnd'[u] = NoEnd /\ found'[u] = None /\ here'[u] = FALSE
          /\ \A w \in Worlds \ {u} : /\ errorJson'[w] = errorJson[w]
                                     /\ lastEnd'[w] = lastEnd[w]
                                     /\ found'[w] = found[w]
                                     /\ here'[w] = here[w]
      BY <2>1 DEF DeleteMap, TypeOK
    <2> QED
      BY <2>2, <2>3 DEF Recorded, Writing, Ahead, Working, ErrorDue, NoEnd
  <1>5. CASE Shutdown
    BY <1>5, RecordedQuiet DEF Shutdown, diskVars, history
  <1>6. CASE Restart
    <2>1. UNCHANGED <<errorJson, lastEnd, found>> /\ torn' = torn \cup {w \in Worlds : Working(w)}
      BY <1>6 DEF Restart, diskVars
    <2>2. wk'.pc = "idle"
      BY <1>6, NoWorkType DEF Restart
    <2> QED
      BY <2>1, <2>2 DEF Recorded, Writing, Ahead, ErrorDue
  <1>7. CASE UNCHANGED vars
    BY <1>7, RecordedQuiet DEF vars, memVars, diskVars, procVars, history
  <1> QED
    BY <1>1, <1>2, <1>3, <1>4, <1>5, <1>6, <1>7 DEF Next, Operate

\* Whenever no import of a map is under way, its error.json holds what the last import
\* that ended owes it by the way it ended (ErrorOfLastRun of the run map_jobs), unless
\* the server died in the middle of one.
THEOREM ErrorsAreOfLast == Spec => []ErrorOfLastRun
  <1>1. Recorded => ErrorOfLastRun
    BY DEF Recorded, Writing, ErrorOfLastRun
  <1> QED
    BY <1>1, RecordedInit, RecordedNext, PlacesKept, PTL DEF Spec

(***************************************************************************)
(* The unpacked uploads and the temporary directories: TempLifetime, one   *)
(* name per conjunct, is kept by every step.                               *)
(***************************************************************************)
Uploads ==
    \A j \in Imports :
        /\ status[j] \in {"pending", "running"} => upload[j]
        /\ status[j] = "done" /\ wk.job # j => ~upload[j]

Temps == \A i \in Ids : temp[i] => \E j \in Imports : idOf[j] = i /\ (wk.job = j \/ status[j] # "done")

InTemp == wk.pc \in {"run", "stage"} => temp[idOf[wk.job]]

LEMMA LifetimeParts == TempLifetime <=> Uploads /\ Temps /\ InTemp
  BY DEF TempLifetime, Uploads, Temps, InTemp

LEMMA LifetimeInit == Init => TempLifetime
  BY DEF Init, TempLifetime, NoWork, Imports

\* Steps that move no files, start no job of which the files are gone and let go of no
\* import that has just succeeded.
LEMMA LifetimeKept ==
  ASSUME TempLifetime, UNCHANGED <<temp, upload>>,
         \A j \in Jobs \ {wk.job} : status'[j] = status[j],
         wk.job \in Imports /\ status'[wk.job] \in {"pending", "running"}
             => status[wk.job] \in {"pending", "running"},
         wk'.job = wk.job \/ (wk.job \in Imports => status'[wk.job] # "done"),
         wk'.pc \in {"run", "stage"} => wk.pc \in {"run", "stage"} /\ wk'.job = wk.job
  PROVE  TempLifetime'
  <1>1. Uploads'
    BY DEF TempLifetime, Uploads, Imports
  <1>2. Temps'
    <2> SUFFICES ASSUME NEW i \in Ids, temp[i]
                 PROVE  \E j \in Imports : idOf[j] = i /\ (wk'.job = j \/ status'[j] # "done")
      BY DEF Temps
    <2>1. PICK j \in Imports : idOf[j] = i /\ (wk.job = j \/ status[j] # "done")
      BY DEF TempLifetime
    <2> QED
      BY <2>1 DEF Imports
  <1>3. InTemp'
    BY DEF TempLifetime, InTemp
  <1> QED
    BY <1>1, <1>2, <1>3, LifetimeParts DEF TempLifetime, Uploads, Temps, InTemp

\* An upload is unpacked for its job.
LEMMA LifetimeSubmit ==
  ASSUME TypeOK, Places, TempLifetime, NEW j \in Jobs, Submit(j)
  PROVE  TempLifetime'
  <1>1. /\ UNCHANGED <<temp, wk>> /\ status'[j] = "pending" /\ upload'[j] = (j \in Imports)
        /\ \A k \in Jobs \ {j} : status'[k] = status[k] /\ upload'[k] = upload[k]
    BY DEF Submit, TypeOK
  <1>2. Uploads'
    BY <1>1 DEF TempLifetime, Uploads, Imports
  <1>3. Temps'
    <2> SUFFICES ASSUME NEW i \in Ids, temp[i]
                 PROVE  \E k \in Imports : idOf[k] = i /\ (wk'.job = k \/ status'[k] # "done")
      BY <1>1 DEF Temps
    <2>1. PICK k \in Imports : idOf[k] = i /\ (wk.job = k \/ status[k] # "done")
      BY DEF TempLifetime
    <2> QED
      BY <1>1, <2>1 DEF Imports
  <1>4. InTemp'
    BY <1>1 DEF TempLifetime, InTemp
  <1> QED
    BY <1>2, <1>3, <1>4 DEF TempLifetime, Uploads, Temps, InTemp

LEMMA LifetimeStageOver ==
  ASSUME TypeOK, Places, TempLifetime, At("stage"), StageOver, UNCHANGED <<temp, upload>>
  PROVE  TempLifetime'
  <1> USE DEF At, Goto
  <1>1. wk.job \in Jobs /\ status[wk.job] = "running"
    BY DEF TypeOK, Places, Worker
  <1>2. wk'.job = wk.job
    <2>1. \/ wk' = [wk EXCEPT !.pc = "run", !.stage = wk.stage + 1]
          \/ wk' = [wk EXCEPT !.pc = "persist"]
      BY DEF StageOver
    <2> QED
      BY <2>1 DEF TypeOK
  <1>3. \A j \in Jobs \ {wk.job} : status'[j] = status[j]
    BY DEF StageOver, TypeOK
  <1> QED
    BY <1>1, <1>2, <1>3, LifetimeKept

\* The goroutine makes the directory of its import and removes both after a success.
LEMMA LifetimeWorker == ASSUME TypeOK, Places, TempLifetime, WorkerStep PROVE TempLifetime'
  <1> USE JobsAssumption DEF At, Goto
  <1>0. wk.pc \notin {"idle", "exited"} => wk.job \in Jobs
    BY DEF TypeOK
  <1>1. CASE Take
    <2>1. /\ UNCHANGED <<temp, upload>>
          /\ \A j \in Jobs \ {wk.job} : status'[j] = status[j]
      BY <1>1 DEF Take, TypeOK, diskVars
    <2>2. /\ wk.job \in Imports /\ status'[wk.job] \in {"pending", "running"}
               => status[wk.job] \in {"pending", "running"}
          /\ wk'.job = wk.job \/ (wk.job \in Imports => status'[wk.job] # "done")
          /\ wk'.pc \in {"run", "stage"} => wk.pc \in {"run", "stage"} /\ wk'.job = wk.job
      BY <1>0, <1>1 DEF Take, TypeOK, Places, Worker, NoWork, Imports, Ended, diskVars
    <2> QED
      BY <2>1, <2>2, LifetimeKept
  <1>2. CASE Exit
    <2>1. /\ UNCHANGED <<temp, upload>>
          /\ \A j \in Jobs \ {wk.job} : status'[j] = status[j]
      BY <1>2 DEF Exit, TypeOK, memVars, diskVars
    <2>2. /\ wk.job \in Imports /\ status'[wk.job] \in {"pending", "running"}
               => status[wk.job] \in {"pending", "running"}
          /\ wk'.job = wk.job \/ (wk.job \in Imports => status'[wk.job] # "done")
          /\ wk'.pc \in {"run", "stage"} => wk.pc \in {"run", "stage"} /\ wk'.job = wk.job
      BY <1>0, <1>2 DEF Exit, TypeOK, Places, Worker, NoWork, Imports, Ended, memVars, diskVars
    <2> QED
      BY <2>1, <2>2, LifetimeKept
  <1>3. CASE BeginRestyle
    <2>1. /\ UNCHANGED <<temp, upload>>
          /\ \A j \in Jobs \ {wk.job} : status'[j] = status[j]
      BY <1>3 DEF BeginRestyle, TypeOK, diskVars
    <2>2. /\ wk.job \in Imports /\ status'[wk.job] \in {"pending", "running"}
               => status[wk.job] \in {"pending", "running"}
          /\ wk'.job = wk.job \/ (wk.job \in Imports => status'[wk.job] # "done")
          /\ wk'.pc \in {"run", "stage"} => wk.pc \in {"run", "stage"} /\ wk'.job = wk.job
      BY <1>0, <1>3 DEF BeginRestyle, TypeOK, Places, Worker, NoWork, Imports, Ended, diskVars
    <2> QED
      BY <2>1, <2>2, LifetimeKept
  <1>4. CASE BeginFails
    <2>1. /\ UNCHANGED <<temp, upload>>
          /\ \A j \in Jobs \ {wk.job} : status'[j] = status[j]
      BY <1>4 DEF BeginFails, TypeOK
    <2>2. /\ wk.job \in Imports /\ status'[wk.job] \in {"pending", "running"}
               => status[wk.job] \in {"pending", "running"}
          /\ wk'.job = wk.job \/ (wk.job \in Imports => status'[wk.job] # "done")
          /\ wk'.pc \in {"run", "stage"} => wk.pc \in {"run", "stage"} /\ wk'.job = wk.job
      BY <1>0, <1>4 DEF BeginFails, TypeOK, Places, Worker, NoWork, Imports, Ended
    <2> QED
      BY <2>1, <2>2, LifetimeKept
  <1>5. CASE EndRestyle
    <2>1. /\ UNCHANGED <<temp, upload>>
          /\ \A j \in Jobs \ {wk.job} : status'[j] = status[j]
      BY <1>5 DEF EndRestyle, TypeOK, diskVars
    <2>2. /\ wk.job \in Imports /\ status'[wk.job] \in {"pending", "running"}
               => status[wk.job] \in {"pending", "running"}
          /\ wk'.job = wk.job \/ (wk.job \in Imports => status'[wk.job] # "done")
          /\ wk'.pc \in {"run", "stage"} => wk.pc \in {"run", "stage"} /\ wk'.job = wk.job
      BY <1>0, <1>5 DEF EndRestyle, TypeOK, Places, Worker, NoWork, Imports, Ended, diskVars
    <2> QED
      BY <2>1, <2>2, LifetimeKept
  <1>6. CASE PipelineCancelled
    <2>1. /\ UNCHANGED <<temp, upload>>
          /\ \A j \in Jobs \ {wk.job} : status'[j] = status[j]
      BY <1>6 DEF PipelineCancelled, TypeOK, diskVars
    <2>2. /\ wk.job \in Imports /\ status'[wk.job] \in {"pending", "running"}
               => status[wk.job] \in {"pending", "running"}
          /\ wk'.job = wk.job \/ (wk.job \in Imports => status'[wk.job] # "done")
          /\ wk'.pc \in {"run", "stage"} => wk.pc \in {"run", "stage"} /\ wk'.job = wk.job
      BY <1>0, <1>6 DEF PipelineCancelled, TypeOK, Places, Worker, NoWork, Imports, Ended, diskVars
    <2> QED
      BY <2>1, <2>2, LifetimeKept
  <1>7. CASE StageBegin
    <2>1. /\ UNCHANGED <<temp, upload>>
          /\ \A j \in Jobs \ {wk.job} : status'[j] = status[j]
      BY <1>7 DEF StageBegin, TypeOK, diskVars
    <2>2. /\ wk.job \in Imports /\ status'[wk.job] \in {"pending", "running"}
               => status[wk.job] \in {"pending", "running"}
          /\ wk'.job = wk.job \/ (wk.job \in Imports => status'[wk.job] # "done")
          /\ wk'.pc \in {"run", "stage"} => wk.pc \in {"run", "stage"} /\ wk'.job = wk.job
      BY <1>0, <1>7 DEF StageBegin, TypeOK, Places, Worker, NoWork, Imports, Ended, diskVars
    <2> QED
      BY <2>1, <2>2, LifetimeKept
  <1>8. CASE StageFails
    <2>1. /\ UNCHANGED <<temp, upload>>
          /\ \A j \in Jobs \ {wk.job} : status'[j] = status[j]
      BY <1>8 DEF StageFails, TypeOK, StageErrs
    <2>2. /\ wk.job \in Imports /\ status'[wk.job] \in {"pending", "running"}
               => status[wk.job] \in {"pending", "running"}
          /\ wk'.job = wk.job \/ (wk.job \in Imports => status'[wk.job] # "done")
          /\ wk'.pc \in {"run", "stage"} => wk.pc \in {"run", "stage"} /\ wk'.job = wk.job
      BY <1>0, <1>8 DEF StageFails, TypeOK, Places, Worker, NoWork, Imports, Ended, StageErrs
    <2> QED
      BY <2>1, <2>2, LifetimeKept
  <1>9. CASE Persist
    <2>1. /\ UNCHANGED <<temp, upload>>
          /\ \A j \in Jobs \ {wk.job} : status'[j] = status[j]
      BY <1>9 DEF Persist, TypeOK, memVars
    <2>2. /\ wk.job \in Imports /\ status'[wk.job] \in {"pending", "running"}
               => status[wk.job] \in {"pending", "running"}
          /\ wk'.job = wk.job \/ (wk.job \in Imports => status'[wk.job] # "done")
          /\ wk'.pc \in {"run", "stage"} => wk.pc \in {"run", "stage"} /\ wk'.job = wk.job
      BY <1>0, <1>9 DEF Persist, TypeOK, Places, Worker, NoWork, Imports, Ended, memVars
    <2> QED
      BY <2>1, <2>2, LifetimeKept
  <1>10. CASE AnnounceEnd
    <2>1. /\ UNCHANGED <<temp, upload>>
          /\ \A j \in Jobs \ {wk.job} : status'[j] = status[j]
      BY <1>10 DEF AnnounceEnd, TypeOK, memVars, diskVars
    <2>2. /\ wk.job \in Imports /\ status'[wk.job] \in {"pending", "running"}
               => status[wk.job] \in {"pending", "running"}
          /\ wk'.job = wk.job \/ (wk.job \in Imports => status'[wk.job] # "done")
          /\ wk'.pc \in {"run", "stage"} => wk.pc \in {"run", "stage"} /\ wk'.job = wk.job
      BY <1>0, <1>10 DEF AnnounceEnd, TypeOK, Places, Worker, NoWork, Imports, Ended, memVars, diskVars
    <2> QED
      BY <2>1, <2>2, LifetimeKept
  <1>11. CASE StageOK \/ StageSkipped
    BY <1>11, LifetimeStageOver DEF StageOK, StageSkipped, StageErrs
  <1>12. CASE BeginImport
    <2>1. /\ wk.job \in Imports /\ status[wk.job] = "pending" /\ UNCHANGED upload
          /\ status'[wk.job] = "running" /\ \A j \in Jobs \ {wk.job} : status'[j] = status[j]
          /\ \A i \in Ids : temp'[i] = (temp[i] \/ i = idOf[wk.job])
      BY <1>0, <1>12 DEF BeginImport, TypeOK, Places, Worker
    <2>2. wk'.job = wk.job
      BY <1>12 DEF BeginImport, TypeOK
    <2>3. Uploads'
      BY <2>1, <2>2 DEF TempLifetime, Uploads, Imports
    <2>4. Temps'
      <3> SUFFICES ASSUME NEW i \in Ids, temp'[i]
                   PROVE  \E j \in Imports : idOf[j] = i /\ (wk'.job = j \/ status'[j] # "done")
        BY DEF Temps
      <3>1. CASE i = idOf[wk.job]
        BY <2>1, <2>2, <3>1
      <3>2. CASE i # idOf[wk.job]
        <4>1. PICK j \in Imports : idOf[j] = i /\ (wk.job = j \/ status[j] # "done")
          BY <2>1, <3>2 DEF TempLifetime
        <4> QED
          BY <2>1, <3>2, <4>1 DEF Imports
      <3> QED
        BY <3>1, <3>2
    <2>5. InTemp'
      BY <1>0, <1>12, <2>1, <2>2 DEF BeginImport, InTemp, TypeOK
    <2> QED
      BY <2>3, <2>4, <2>5 DEF TempLifetime, Uploads, Temps, InTemp
  <1>13. CASE CleanUp
    <2>1. /\ wk.job \in Imports /\ UNCHANGED status /\ status[wk.job] = "done"
          /\ upload'[wk.job] = FALSE /\ \A j \in Jobs \ {wk.job} : upload'[j] = upload[j]
          /\ \A i \in Ids : temp'[i] = (temp[i] /\ i # idOf[wk.job])
      BY <1>0, <1>13 DEF CleanUp, TypeOK, memVars, Places, Worker
    <2>2. wk'.pc = "idle" /\ wk'.job = None
      BY <1>13, NoWorkType DEF CleanUp
    <2>3. Uploads'
      BY <2>1, <2>2 DEF TempLifetime, Uploads, Imports
    <2>4. Temps'
      <3> SUFFICES ASSUME NEW i \in Ids, temp[i], i # idOf[wk.job]
                   PROVE  \E j \in Imports : idOf[j] = i /\ (wk'.job = j \/ status'[j] # "done")
        BY <2>1 DEF Temps
      <3>1. PICK j \in Imports : idOf[j] = i /\ (wk.job = j \/ status[j] # "done")
        BY DEF TempLifetime
      <3> QED
        BY <2>1, <3>1
    <2>5. InTemp'
      BY <2>2 DEF InTemp
    <2> QED
      BY <2>3, <2>4, <2>5 DEF TempLifetime, Uploads, Temps, InTemp
  <1> QED
    BY <1>1, <1>2, <1>3, <1>4, <1>5, <1>6, <1>7, <1>8, <1>9, <1>10, <1>11, <1>12, <1>13 DEF WorkerStep

LEMMA LifetimeRestart == ASSUME TypeOK, TempLifetime, Restart PROVE TempLifetime'
  <1>1. /\ UNCHANGED <<temp, upload>> /\ \A j \in Jobs : status'[j] \in {"lost", "none"}
        /\ wk'.pc = "idle"
    BY NoWorkType DEF Restart, diskVars
  <1> QED
    BY <1>1 DEF TempLifetime, Imports

LEMMA LifetimeNext == TypeOK /\ Places /\ TempLifetime /\ [Next]_vars => TempLifetime'
  <1> SUFFICES ASSUME TypeOK, Places, TempLifetime, [Next]_vars PROVE TempLifetime'
    OBVIOUS
  <1>1. CASE \E j \in Jobs : Submit(j)
    BY <1>1, LifetimeSubmit
  <1>2. CASE \E j \in Jobs : SubmitStep(j)
    BY <1>2, LifetimeKept DEF SubmitStep, SubmitAnnounce, SubmitSend, memVars, diskVars
  <1>3. CASE WorkerStep
    BY <1>3, LifetimeWorker
  <1>4. CASE \E c \in Requests : CancelCall(c) \/ \E i \in Ids : CancelRead(c, i)
    BY <1>4, LifetimeKept DEF CancelCall, CancelRead, memVars, diskVars
  <1>5. CASE \E w \in Worlds : DeleteMap(w)
    BY <1>5, LifetimeKept DEF DeleteMap, memVars, procVars
  <1>6. CASE Shutdown
    BY <1>6, LifetimeKept DEF Shutdown, diskVars
  <1>7. CASE Restart
    BY <1>7, LifetimeRestart
  <1>8. CASE UNCHANGED vars
    BY <1>8, LifetimeKept DEF vars, memVars, diskVars, procVars
  <1> QED
    BY <1>1, <1>2, <1>3, <1>4, <1>5, <1>6, <1>7, <1>8 DEF Next, Operate

\* A job's upload is there for as long as it may need it, its temporary directory for as
\* long as it runs, and both are gone after its success (TempLifetime of the run
\* map_jobs), also when two jobs have one id.
THEOREM FilesOutlastJobs == Spec => []TempLifetime
  BY LifetimeInit, LifetimeNext, PlacesKept, PTL DEF Spec

=============================================================================
