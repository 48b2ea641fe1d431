-------------------------- MODULE JobEvents_proofs --------------------------
(***************************************************************************)
(* Theorems about JobEvents, for any number of jobs, browsers, connections *)
(* and restarts and any capacity of the channels:                          *)
(*                                                                         *)
(*   EventsTyped    EventsSpec => []EventsTypeOK                           *)
(*   ViewsCurrent   EventsSpec => []ViewCurrent                            *)
(*   EndsAreShown   EventsSpec => NoGoingBack                              *)
(*                                                                         *)
(* What a browser knows of a job is the last event of it in its channel    *)
(* or, without one, its view. The invariant says what that is (Shown), and *)
(* that nothing follows the end of a job (EndIsLast).                      *)
(***************************************************************************)
EXTENDS JobEvents, MapJobs_proofs

\* What an event makes the browser show, and what it should show of j.
Shows(e) == [status |-> e.status, stage |-> e.stage]
Now(j)   == [status |-> status[j], stage |-> stageNum[j]]

\* With the events q to come and the view v, the last to be heard of i is that it is st.
Last(q, v, i, st) ==
    \/ \E n \in 1..Len(q) : /\ q[n].id = i /\ q[n].status = st
                            /\ \A m \in 1..Len(q) : m > n => q[m].id # i
    \/ (\A n \in 1..Len(q) : q[n].id # i) /\ v.status = st

\* Whatever tells that i has ended tells that it is as in `now`, and so does all that
\* follows.
Ends(q, v, i, now) ==
    /\ v.status \in Ended => /\ v = now
                             /\ \A n \in 1..Len(q) : q[n].id = i => Shows(q[n]) = now
    /\ \A m, n \in 1..Len(q) :
            m <= n /\ q[m].id = i /\ q[n].id = i /\ q[m].status \in Ended => Shows(q[n]) = now

Told(s, j) ==
    ~Unannounced(j) /\ idOf[j] \notin lost[s] /\ status[j] # "lost"
        => Last(chan[s], view[s][idOf[j]], idOf[j], status[j])

Ending(s, j) == Ends(chan[s], view[s][idOf[j]], idOf[j], Now(j))

\* The table holds a job from its submission to the death of the server.
HasJob ==
    \A j \in Jobs : OwnId(j) =>
        table[idOf[j]] = IF status[j] \in {"none", "lost"} THEN None ELSE j

Channels  == \A s \in Subscribers : conn[s] # "live" => chan[s] = <<>>
Shown     == \A s \in Subscribers, j \in Jobs : OwnId(j) /\ conn[s] # "off" => Told(s, j)
EndIsLast == \A s \in Subscribers, j \in Jobs : OwnId(j) /\ conn[s] # "off" => Ending(s, j)

EventsInv == HasJob /\ Channels /\ Shown /\ EndIsLast

EventsKnown == EventsTypeOK /\ Places /\ EventsInv

(***************************************************************************)
(* Channels. An event is added at the end or taken from the front.         *)
(***************************************************************************)
LEMMA LastAppend ==
  ASSUME NEW q \in Seq(Events), NEW e \in Events, NEW v, NEW i, NEW st,
         IF e.id = i THEN e.status = st ELSE Last(q, v, i, st)
  PROVE  Last(Append(q, e), v, i, st)
  <1> DEFINE r == Append(q, e)
  <1>1. Len(r) = Len(q) + 1 /\ r[Len(q) + 1] = e /\ Len(q) \in Nat
    OBVIOUS
  <1>2. \A n \in 1..Len(q) : r[n] = q[n]
    OBVIOUS
  <1> HIDE DEF r
  <1>3. CASE e.id = i
    <2>1. Len(q) + 1 \in 1..Len(r) /\ \A m \in 1..Len(r) : ~(m > Len(q) + 1)
      BY <1>1
    <2> QED
      BY <1>1, <1>3, <2>1 DEF Last, r
  <1>4. CASE e.id # i
    <2>1. \A n \in 1..Len(r) : n \in 1..Len(q) \/ n = Len(q) + 1
      BY <1>1
    <2>2. \A n \in 1..Len(q) : n \in 1..Len(r)
      BY <1>1
    <2>3. CASE \A n \in 1..Len(q) : q[n].id # i
      <3>1. v.status = st
        BY <1>4, <2>3 DEF Last
      <3>2. \A n \in 1..Len(r) : r[n].id # i
        BY <1>1, <1>2, <1>4, <2>1, <2>3
      <3> QED
        BY <3>1, <3>2 DEF Last, r
    <2>4. CASE ~\A n \in 1..Len(q) : q[n].id # i
      <3>1. PICK n \in 1..Len(q) : /\ q[n].id = i /\ q[n].status = st
                                   /\ \A m \in 1..Len(q) : m > n => q[m].id # i
        BY <1>4, <2>4 DEF Last
      <3>2. \A m \in 1..Len(r) : m > n => r[m].id # i
        BY <1>1, <1>2, <1>4, <2>1, <3>1
      <3>3. n \in 1..Len(r) /\ r[n].id = i /\ r[n].status = st
        BY <1>2, <2>2, <3>1
      <3> QED
        BY <3>2, <3>3 DEF Last, r
    <2> QED
      BY <2>3, <2>4
  <1> QED
    BY <1>3, <1>4

LEMMA LastForward ==
  ASSUME NEW q \in Seq(Events), q # <<>>, NEW v, NEW w, NEW i, NEW st, Last(q, v, i, st),
         w = IF Head(q).id = i THEN Shows(Head(q)) ELSE v
  PROVE  Last(Tail(q), w, i, st)
  <1> DEFINE r == Tail(q)
  <1>1. Len(r) = Len(q) - 1 /\ Len(q) \in Nat \ {0} /\ Head(q) = q[1]
    OBVIOUS
  <1>2. \A n \in 1..Len(r) : r[n] = q[n + 1] /\ n + 1 \in 1..Len(q)
    OBVIOUS
  <1> HIDE DEF r
  <1>3. CASE \A n \in 1..Len(q) : q[n].id # i
    <2>1. v.status = st /\ w = v
      BY <1>1, <1>3 DEF Last
    <2> QED
      BY <1>2, <1>3, <2>1 DEF Last, r
  <1>4. CASE ~\A n \in 1..Len(q) : q[n].id # i
    <2>1. PICK n \in 1..Len(q) : /\ q[n].id = i /\ q[n].status = st
                                 /\ \A m \in 1..Len(q) : m > n => q[m].id # i
      BY <1>4 DEF Last
    <2>2. CASE n = 1
      <3>1. w.status = st
        BY <1>1, <2>1, <2>2 DEF Shows
      <3>2. \A m \in 1..Len(r) : r[m].id # i
        BY <1>1, <1>2, <2>1, <2>2
      <3> QED
        BY <3>1, <3>2 DEF Last, r
    <2>3. CASE n # 1
      <3>1. n - 1 \in 1..Len(r) /\ r[n - 1] = q[n]
        BY <1>1, <1>2, <2>3
      <3>2. \A m \in 1..Len(r) : m > n - 1 => r[m].id # i
        BY <1>1, <1>2, <2>1
      <3> QED
        BY <2>1, <3>1, <3>2 DEF Last, r
    <2> QED
      BY <2>2, <2>3
  <1> QED
    BY <1>3, <1>4

\* The job may be told of anew as long as it has not ended.
LEMMA EndsAppend ==
  ASSUME NEW q \in Seq(Events), NEW e \in Events, NEW v, NEW i, NEW old, NEW now,
         Ends(q, v, i, old), old.status \in Ended => now = old,
         e.id = i => \/ Shows(e) = now
                     \/ old.status \notin Ended /\ e.status \notin Ended
  PROVE  Ends(Append(q, e), v, i, now)
  <1> DEFINE r == Append(q, e)
  <1>1. Len(r) = Len(q) + 1 /\ r[Len(q) + 1] = e /\ Len(q) \in Nat
    OBVIOUS
  <1>2. \A n \in 1..Len(q) : r[n] = q[n]
    OBVIOUS
  <1> HIDE DEF r
  <1>3. \A n \in 1..Len(r) : n \in 1..Len(q) \/ n = Len(q) + 1
    BY <1>1
  <1>4. v.status \in Ended => /\ v = now
                              /\ \A n \in 1..Len(r) : r[n].id = i => Shows(r[n]) = now
    <2> SUFFICES ASSUME v.status \in Ended
                 PROVE  v = now /\ \A n \in 1..Len(r) : r[n].id = i => Shows(r[n]) = now
      OBVIOUS
    <2>1. v = old /\ now = old /\ old.status \in Ended
      BY DEF Ends
    <2>2. \A n \in 1..Len(q) : q[n].id = i => Shows(q[n]) = now
      BY <2>1 DEF Ends
    <2> QED
      BY <1>1, <1>2, <1>3, <2>1, <2>2
  <1>5. ASSUME NEW m \in 1..Len(r), NEW n \in 1..Len(r),
               m <= n, r[m].id = i, r[n].id = i, r[m].status \in Ended
        PROVE  Shows(r[n]) = now
    <2>1. CASE m \in 1..Len(q)
      <3>1. Shows(q[m]) = old
        BY <1>2, <1>5, <2>1 DEF Ends
      <3>2. old.status \in Ended
        BY <1>2, <1>5, <2>1, <3>1 DEF Shows
      <3>3. CASE n \in 1..Len(q)
        <4>1. Shows(q[n]) = old
          BY <1>2, <1>5, <2>1, <3>3 DEF Ends
        <4> QED
          BY <1>2, <3>2, <3>3, <4>1
      <3> QED
        BY <1>1, <1>3, <1>5, <3>2, <3>3
    <2>2. CASE m = Len(q) + 1
      <3>1. n = m
        BY <1>1, <1>5, <2>2
      <3> QED
        BY <1>1, <1>5, <2>2, <3>1
    <2> QED
      BY <1>3, <2>1, <2>2
  <1> QED
    BY <1>4, <1>5 DEF Ends, r

LEMMA EndsForward ==
  ASSUME NEW q \in Seq(Events), q # <<>>, NEW v, NEW w, NEW i, NEW now, Ends(q, v, i, now),
         w = IF Head(q).id = i THEN Shows(Head(q)) ELSE v
  PROVE  /\ Ends(Tail(q), w, i, now)
         /\ v.status \in Ended => w = v
  <1> DEFINE r == Tail(q)
  <1>1. Len(r) = Len(q) - 1 /\ Len(q) \in Nat \ {0} /\ Head(q) = q[1] /\ 1 \in 1..Len(q)
    OBVIOUS
  <1>2. \A n \in 1..Len(r) : r[n] = q[n + 1] /\ n + 1 \in 1..Len(q) /\ 1 <= n + 1
    OBVIOUS
  <1> HIDE DEF r
  <1>3. w.status \in Ended => /\ w = now
                              /\ \A n \in 1..Len(r) : r[n].id = i => Shows(r[n]) = now
    <2>1. CASE q[1].id = i
      <3>1. w.status = q[1].status /\ w = Shows(q[1])
        BY <1>1, <2>1 DEF Shows
      <3>2. w.status \in Ended => \A n \in 1..Len(q) : 1 <= n /\ q[n].id = i => Shows(q[n]) = now
        BY <1>1, <2>1, <3>1 DEF Ends
      <3> QED
        BY <1>1, <1>2, <2>1, <3>1, <3>2
    <2>2. CASE q[1].id # i
      <3>1. w = v
        BY <1>1, <2>2
      <3> QED
        BY <1>2, <3>1 DEF Ends
    <2> QED
      BY <2>1, <2>2
  <1>4. ASSUME NEW m \in 1..Len(r), NEW n \in 1..Len(r),
               m <= n, r[m].id = i, r[n].id = i, r[m].status \in Ended
        PROVE  Shows(r[n]) = now
    <2>1. m + 1 <= n + 1 /\ m + 1 \in 1..Len(q) /\ n + 1 \in 1..Len(q)
      BY <1>1, <1>2, <1>4
    <2>2. r[m] = q[m + 1] /\ r[n] = q[n + 1]
      BY <1>2
    <2> QED
      BY <1>4, <2>1, <2>2 DEF Ends
  <1>5. v.status \in Ended => w = v
    BY <1>1 DEF Ends
  <1> QED
    BY <1>3, <1>4, <1>5 DEF Ends, r

(***************************************************************************)
(* What a step of the server says of j: nothing, and then j is as it was   *)
(* or about to be announced; something of another job; or how j is now.    *)
(***************************************************************************)
Kept(j) == Unannounced(j)' \/ (status'[j] = status[j] /\ ~Unannounced(j))

Tells(e, j) ==
    /\ Unannounced(j)' \/ e.status = status'[j]
    /\ \/ Shows(e) = [status |-> status'[j], stage |-> stageNum'[j]]
       \/ status[j] \notin Ended /\ e.status \notin Ended

Heard(j) ==
    \/ UNCHANGED hubVars /\ Kept(j)
    \/ \E e \in Events :
          /\ Broadcast(e)
          /\ \/ e.id = idOf[j] /\ Tells(e, j)
             \/ Kept(j) /\ \E k \in Jobs \ {j} : e.id = idOf[k]

LEMMA HeardStatus ==
  ASSUME TypeOK', NEW k \in Jobs, BroadcastStatus(k), NEW j \in Jobs, j # k => Kept(j)
  PROVE  Heard(j)
  <1> DEFINE e == [type |-> "status", id |-> idOf[k], status |-> status'[k], stage |-> stageNum'[k]]
  <1>1. e \in Events
    BY JobsAssumption DEF Events, TypeOK
  <1>2. Broadcast(e)
    BY DEF BroadcastStatus
  <1>3. e.id = idOf[k] /\ e.status = status'[k] /\ Shows(e) = [status |-> status'[k], stage |-> stageNum'[k]]
    BY DEF Shows
  <1> HIDE DEF e
  <1>4. CASE j = k
    BY <1>1, <1>2, <1>3, <1>4 DEF Heard, Tells
  <1>5. CASE j # k
    BY <1>1, <1>2, <1>3, <1>5 DEF Heard
  <1> QED
    BY <1>4, <1>5

LEMMA HeardProgress ==
  ASSUME NEW k \in Jobs, NEW n \in 0..NumStages, BroadcastProgress(k, n), status[k] = "running",
         Unannounced(k)' \/ status'[k] = "running", NEW j \in Jobs, j # k => Kept(j)
  PROVE  Heard(j)
  <1> DEFINE e == [type |-> "progress", id |-> idOf[k], status |-> "running", stage |-> n]
  <1>1. e \in Events
    BY JobsAssumption DEF Events, Statuses
  <1>2. Broadcast(e)
    BY DEF BroadcastProgress
  <1>3. e.id = idOf[k] /\ e.status = "running"
    OBVIOUS
  <1> HIDE DEF e
  <1>4. CASE j = k
    <2>1. Unannounced(j)' \/ e.status = status'[j]
      BY <1>3, <1>4
    <2>2. status[j] \notin Ended /\ e.status \notin Ended
      BY <1>3, <1>4 DEF Ended
    <2> QED
      BY <1>1, <1>2, <1>3, <1>4, <2>1, <2>2 DEF Heard, Tells
  <1>5. CASE j # k
    BY <1>1, <1>2, <1>3, <1>5 DEF Heard
  <1> QED
    BY <1>4, <1>5

LEMMA HeardSubmit ==
  ASSUME TypeOK, TypeOK', Places, NEW k \in Jobs, Submit(k) \/ SubmitStep(k), NEW j \in Jobs
  PROVE  Heard(j)
  <1> USE DEF Kept, Unannounced
  <1>1. CASE Submit(k)
    <2>1. UNCHANGED hubVars
      BY <1>1 DEF Submit
    <2>2. Kept(j)
      BY <1>1 DEF Submit, TypeOK
    <2> QED
      BY <2>1, <2>2 DEF Heard
  <1>2. CASE SubmitAnnounce(k)
    <2>1. j # k => Kept(j)
      BY <1>2 DEF SubmitAnnounce, TypeOK, memVars
    <2> QED
      BY <1>2, <2>1, HeardStatus DEF SubmitAnnounce
  <1>3. CASE SubmitSend(k)
    <2>1. UNCHANGED hubVars
      BY <1>3 DEF SubmitSend
    <2>2. sub[k] = "send" /\ wk.job # k
      BY <1>3 DEF SubmitSend, Places, Submitters
    <2>3. Kept(j)
      BY <1>3, <2>2 DEF SubmitSend, TypeOK, memVars
    <2> QED
      BY <2>1, <2>3 DEF Heard
  <1> QED
    BY <1>1, <1>2, <1>3 DEF SubmitStep

\* The goroutine leaves the jobs alone it does not work on.
LEMMA OthersKept ==
  ASSUME TypeOK, Places, WorkerStep, NEW j \in Jobs, j # wk.job
  PROVE  Kept(j)
  <1> USE DEF At, Goto
  <1>1. sub' = sub
    BY DEF WorkerStep, Take, Exit, BeginRestyle, BeginImport, BeginFails, EndRestyle,
           PipelineCancelled, StageBegin, StageOK, StageSkipped, StageFails, Persist, AnnounceEnd, CleanUp
  <1>2. status'[j] = status[j]
    BY DEF TypeOK, WorkerStep, Take, Exit, BeginRestyle, BeginImport, BeginFails, EndRestyle,
           PipelineCancelled, StageBegin, StageOK, StageSkipped, StageFails, StageOver,
           StageErrs, Persist, AnnounceEnd, CleanUp, memVars
  <1>3. wk'.job # j \/ wk'.pc = "begin"
    <2>1. CASE Take
      BY <2>1 DEF Take
    <2>2. CASE ~Take
      <3>1. CASE BeginFails \/ EndRestyle \/ CleanUp
        BY <3>1, NoWorkType, JobsAssumption DEF BeginFails, EndRestyle, CleanUp
      <3>2. CASE Exit \/ BeginRestyle \/ BeginImport \/ PipelineCancelled \/ StageBegin \/ Persist
        BY <3>2 DEF TypeOK, Exit, BeginRestyle, BeginImport, PipelineCancelled, StageBegin, Persist
      <3>3. CASE StageOK \/ StageSkipped \/ StageFails
        BY <3>3 DEF TypeOK, StageOK, StageSkipped, StageFails, StageOver
      <3>4. CASE AnnounceEnd
        BY <3>4, NoWorkType, JobsAssumption DEF TypeOK, AnnounceEnd
      <3> QED
        BY <2>2, <3>1, <3>2, <3>3, <3>4 DEF WorkerStep
    <2> QED
      BY <2>1, <2>2
  <1> QED
    BY <1>1, <1>2, <1>3 DEF Kept, Unannounced

LEMMA HeardWorker ==
  ASSUME TypeOK, TypeOK', Places, WorkerStep, NEW j \in Jobs
  PROVE  Heard(j)
  <1> USE DEF At, Goto
  <1>0. j # wk.job => Kept(j)
    BY OthersKept
  <1>1. CASE BeginRestyle \/ BeginImport \/ BeginFails \/ EndRestyle \/ AnnounceEnd
    <2>1. wk.job \in Jobs /\ BroadcastStatus(wk.job)
      BY <1>1 DEF BeginRestyle, BeginImport, BeginFails, EndRestyle, AnnounceEnd, TypeOK
    <2> QED
      BY <1>0, <2>1, HeardStatus
  <1>2. CASE StageBegin \/ StageSkipped
    <2>1. wk.pc \in {"run", "stage"} /\ BroadcastProgress(wk.job, wk.stage)
      BY <1>2 DEF StageBegin, StageSkipped, StageErrs
    <2>2. PICK k \in Jobs : k = wk.job
      BY <2>1 DEF TypeOK
    <2>3. wk.stage \in 0..NumStages /\ status[k] = "running" /\ BroadcastProgress(k, wk.stage)
      BY <2>1, <2>2 DEF TypeOK, Places, Worker
    <2>4. CASE status' = status
      BY <1>0, <2>2, <2>3, <2>4, HeardProgress
    <2>5. CASE status' # status
      <3>1. StageBegin => status' = status
        BY DEF StageBegin
      <3>2. wk' = [wk EXCEPT !.pc = "persist"]
        BY <1>2, <2>5, <3>1 DEF StageSkipped, StageOver
      <3>3. Unannounced(k)'
        BY <2>2, <3>2 DEF Unannounced, TypeOK
      <3> QED
        BY <1>0, <2>2, <2>3, <3>3, HeardProgress
    <2> QED
      BY <2>4, <2>5
  <1>3. CASE Take \/ Exit \/ PipelineCancelled \/ StageOK \/ StageFails \/ Persist \/ CleanUp
    <2>1. UNCHANGED hubVars
      BY <1>3 DEF Take, Exit, PipelineCancelled, StageOK, StageFails, Persist, CleanUp
    <2>2. j = wk.job => Kept(j)
      <3> SUFFICES ASSUME j = wk.job PROVE Kept(j)
        OBVIOUS
      <3>1. sub[j] = "done" /\ wk.pc \notin {"idle", "exited"}
        BY JobsAssumption DEF Places, Submitters, Worker, TypeOK
      <3>2. CASE PipelineCancelled \/ StageFails \/ Persist
        BY <3>2 DEF PipelineCancelled, StageFails, Persist, Kept, Unannounced, TypeOK
      <3>3. CASE StageOK
        BY <3>1, <3>3 DEF StageOK, StageOver, Kept, Unannounced, TypeOK
      <3>4. CASE CleanUp
        BY <3>1, <3>4 DEF CleanUp, Kept, Unannounced, memVars, NoWork
      <3> QED
        BY <1>3, <3>1, <3>2, <3>3, <3>4 DEF Take, Exit
    <2> QED
      BY <1>0, <2>1, <2>2 DEF Heard
  <1> QED
    BY <1>1, <1>2, <1>3 DEF WorkerStep

LEMMA HeardOf == ASSUME TypeOK, TypeOK', Places, Operate, NEW j \in Jobs PROVE Heard(j)
  <1>1. CASE \E k \in Jobs : Submit(k) \/ SubmitStep(k)
    BY <1>1, HeardSubmit
  <1>2. CASE WorkerStep
    BY <1>2, HeardWorker
  <1>3. CASE \/ \E c \in Requests : CancelCall(c) \/ \E i \in Ids : CancelRead(c, i)
             \/ \E w \in Worlds : DeleteMap(w)
             \/ Shutdown
    <2>1. UNCHANGED <<status, sub, wk, hubVars>>
      BY <1>3 DEF CancelCall, CancelRead, DeleteMap, Shutdown, memVars, procVars
    <2> QED
      BY <2>1 DEF Heard, Kept, Unannounced
  <1> QED
    BY <1>1, <1>2, <1>3 DEF Operate

\* A job that has ended stays as it is while the server lives.
LEMMA NowEnded ==
  ASSUME TypeOK, Places, Operate, NEW j \in Jobs, status[j] \in Ended
  PROVE  status'[j] = status[j] /\ stageNum'[j] = stageNum[j]
  <1>1. CASE \E k \in Jobs : Submit(k) \/ SubmitStep(k)
    <2>1. PICK k \in Jobs : Submit(k) \/ SubmitStep(k)
      BY <1>1
    <2>2. CASE Submit(k)
      <3>1. j # k
        BY <2>2 DEF Submit, Places, Submitters, Ended
      <3> QED
        BY <2>2, <3>1 DEF Submit, TypeOK
    <2>3. CASE SubmitStep(k)
      BY <2>3 DEF SubmitStep, SubmitAnnounce, SubmitSend, memVars
    <2> QED
      BY <2>1, <2>2, <2>3
  <1>2. CASE WorkerStep
    <2>1. stageNum'[j] = stageNum[j]
      <3>1. CASE StageBegin
        <4>1. wk.job # j
          BY <3>1 DEF StageBegin, At, Places, Worker, Ended
        <4> QED
          BY <3>1, <4>1 DEF StageBegin, TypeOK
      <3>2. CASE ~StageBegin
        BY <1>2, <3>2 DEF WorkerStep, Take, Exit, BeginRestyle, BeginImport, BeginFails, EndRestyle,
                          PipelineCancelled, StageOK, StageSkipped, StageFails, Persist, AnnounceEnd,
                          CleanUp, memVars
      <3> QED
        BY <3>1, <3>2
    <2> QED
      BY <1>2, <2>1, EndedWorker
  <1>3. CASE \/ \E c \in Requests : CancelCall(c) \/ \E i \in Ids : CancelRead(c, i)
             \/ \E w \in Worlds : DeleteMap(w)
             \/ Shutdown
    BY <1>3 DEF CancelCall, CancelRead, DeleteMap, Shutdown, memVars
  <1> QED
    BY <1>1, <1>2, <1>3 DEF Operate

(***************************************************************************)
(* A step of the server keeps the invariant.                               *)
(***************************************************************************)
LEMMA HubOf ==
  ASSUME Operate
  PROVE  UNCHANGED hubVars \/ \E e : Broadcast(e)
  <1>1. CASE \E k \in Jobs : Submit(k) \/ SubmitStep(k)
    BY <1>1 DEF Submit, SubmitStep, SubmitAnnounce, SubmitSend, BroadcastStatus
  <1>2. CASE WorkerStep
    BY <1>2 DEF WorkerStep, Take, Exit, BeginRestyle, BeginImport, BeginFails, EndRestyle,
                PipelineCancelled, StageBegin, StageOK, StageSkipped, StageFails, Persist, AnnounceEnd,
                CleanUp, BroadcastStatus, BroadcastProgress
  <1>3. CASE \/ \E c \in Requests : CancelCall(c) \/ \E i \in Ids : CancelRead(c, i)
             \/ \E w \in Worlds : DeleteMap(w)
             \/ Shutdown
    BY <1>3 DEF CancelCall, CancelRead, DeleteMap, Shutdown
  <1> QED
    BY <1>1, <1>2, <1>3 DEF Operate

\* A job enters the table as it is submitted, and only then.
LEMMA TableNext ==
  ASSUME TypeOK, Places, HasJob, Operate
  PROVE  HasJob'
  <1> USE JobsAssumption
  <1> SUFFICES ASSUME NEW j \in Jobs, OwnId(j)
               PROVE  table'[idOf[j]] = IF status'[j] \in {"none", "lost"} THEN None ELSE j
    BY DEF HasJob, OwnId
  <1>1. table[idOf[j]] = IF status[j] \in {"none", "lost"} THEN None ELSE j
    BY DEF HasJob
  <1>2. CASE \E k \in Jobs : Submit(k)
    <2>1. PICK k \in Jobs : Submit(k)
      BY <1>2
    <2>2. CASE k = j
      BY <2>1, <2>2 DEF Submit, TypeOK
    <2>3. CASE k # j
      <3>1. idOf[k] # idOf[j] /\ status'[j] = status[j]
        BY <2>1, <2>3 DEF OwnId, Submit
      <3>2. table'[idOf[j]] = table[idOf[j]]
        BY <2>1, <3>1 DEF Submit, TypeOK
      <3> QED
        BY <1>1, <3>1, <3>2
    <2> QED
      BY <2>2, <2>3
  <1>3. CASE WorkerStep
    <2>1. table' = table
      BY <1>3 DEF WorkerStep, Take, Exit, BeginRestyle, BeginImport, BeginFails, EndRestyle,
                  PipelineCancelled, StageBegin, StageOK, StageSkipped, StageFails, Persist, AnnounceEnd,
                  CleanUp, memVars
    <2>2. CASE status'[j] = status[j]
      BY <1>1, <2>1, <2>2
    <2>3. CASE status'[j] # status[j]
      <3>1. wk.pc \in {"begin", "restyle", "run", "stage"} /\ j = wk.job
        BY <1>3, <2>3 DEF WorkerStep, Take, Exit, BeginRestyle, BeginImport, BeginFails, EndRestyle,
                    PipelineCancelled, StageBegin, StageOK, StageSkipped, StageFails, StageOver,
                    StageErrs, Persist, AnnounceEnd, CleanUp, At, Goto, TypeOK, memVars
      <3>2. status[j] \in {"pending", "running"}
        BY <3>1 DEF Places, Worker
      <3>3. status'[j] \in {"running"} \cup Ended
        BY <1>3, <2>3, <3>1
           DEF WorkerStep, Take, Exit, BeginRestyle, BeginImport, BeginFails, EndRestyle,
               PipelineCancelled, StageBegin, StageOK, StageSkipped, StageFails, StageOver,
               StageErrs, Persist, AnnounceEnd, CleanUp, TypeOK, memVars, Ended
      <3> QED
        BY <1>1, <2>1, <3>2, <3>3 DEF Ended
    <2> QED
      BY <2>2, <2>3
  <1>4. CASE \/ \E k \in Jobs : SubmitStep(k)
             \/ \E c \in Requests : CancelCall(c) \/ \E i \in Ids : CancelRead(c, i)
             \/ \E w \in Worlds : DeleteMap(w)
             \/ Shutdown
    <2>1. UNCHANGED <<table, status>>
      BY <1>4 DEF SubmitStep, SubmitAnnounce, SubmitSend, CancelCall, CancelRead, DeleteMap, Shutdown,
                  memVars
    <2> QED
      BY <1>1, <2>1
  <1> QED
    BY <1>2, <1>3, <1>4 DEF Operate

\* A channel without news of j is right about j as long as j is as it was.
LEMMA EndsKept ==
  ASSUME NEW q, NEW v, NEW i, NEW old, NEW now, Ends(q, v, i, old),
         old.status \in Ended => now = old
  PROVE  Ends(q, v, i, now)
  <1>1. v.status \in Ended => /\ v = now
                              /\ \A n \in 1..Len(q) : q[n].id = i => Shows(q[n]) = now
    BY DEF Ends
  <1>2. ASSUME NEW m \in 1..Len(q), NEW n \in 1..Len(q),
               m <= n, q[m].id = i, q[n].id = i, q[m].status \in Ended
        PROVE  Shows(q[n]) = now
    <2>1. m <= m
      OBVIOUS
    <2>2. Shows(q[m]) = old /\ Shows(q[n]) = old
      BY <1>2, <2>1 DEF Ends
    <2>3. old.status \in Ended
      BY <1>2, <2>2 DEF Shows
    <2> QED
      BY <2>2, <2>3
  <1> QED
    BY <1>1, <1>2 DEF Ends

LEMMA ServerTells ==
  ASSUME EventsKnown, TypeOK', Operate, UNCHANGED clientVars,
         NEW s \in Subscribers, NEW j \in Jobs, OwnId(j), conn[s] # "off"
  PROVE  Told(s, j)' /\ Ending(s, j)'
  <1> USE DEF EventsKnown, EventsTypeOK
  <1> DEFINE q == chan[s]
             v == view[s][idOf[j]]
             i == idOf[j]
             old == Now(j)
             now == [status |-> status'[j], stage |-> stageNum'[j]]
  <1>1. Told(s, j) /\ Ends(q, v, i, old) /\ q \in Seq(Events) /\ view' = view
    BY DEF EventsInv, Shown, EndIsLast, Ending, TypeOK, clientVars
  <1>2. old.status \in Ended => now = old
    BY NowEnded DEF Now
  <1>3. Kept(j) /\ ~Unannounced(j)' => ~Unannounced(j) /\ status'[j] = status[j]
    BY DEF Kept
  <1>4. ASSUME chan'[s] = q, Kept(j), idOf[j] \notin lost'[s] => idOf[j] \notin lost[s]
        PROVE  Told(s, j)' /\ Ending(s, j)'
    <2>1. Told(s, j)'
      BY <1>1, <1>3, <1>4 DEF Told
    <2>2. Ends(q, v, i, now)
      BY <1>1, <1>2, EndsKept
    <2> QED
      BY <1>1, <1>4, <2>1, <2>2 DEF Ending, Now
  <1>5. ASSUME NEW e \in Events, Broadcast(e),
               \/ e.id = idOf[j] /\ Tells(e, j)
               \/ Kept(j) /\ \E k \in Jobs \ {j} : e.id = idOf[k]
        PROVE  Told(s, j)' /\ Ending(s, j)'
    <2>1. CASE s \in subscribed /\ Len(chan[s]) < ChanSize
      <3>1. chan'[s] = Append(q, e) /\ lost'[s] = lost[s] \ {e.id}
        BY <1>5, <2>1 DEF Broadcast
      <3>2. CASE e.id = idOf[j] /\ Tells(e, j)
        <4>1. Shows(e) = now \/ (old.status \notin Ended /\ e.status \notin Ended)
          BY <3>2 DEF Tells, Now
        <4>2. Ends(Append(q, e), v, i, now)
          BY <1>1, <1>2, <4>1, EndsAppend
        <4>3. ~Unannounced(j)' => Last(Append(q, e), v, i, status'[j])
          <5>1. ~Unannounced(j)' => e.status = status'[j]
            BY <3>2 DEF Tells
          <5> QED
            BY <1>1, <3>2, <5>1, LastAppend
        <4> QED
          BY <1>1, <3>1, <4>2, <4>3 DEF Told, Ending, Now
      <3>3. CASE Kept(j) /\ \E k \in Jobs \ {j} : e.id = idOf[k]
        <4>1. e.id # i
          BY <3>3 DEF OwnId
        <4>2. Ends(Append(q, e), v, i, now)
          BY <1>1, <1>2, <4>1, EndsAppend
        <4>3. ASSUME ~Unannounced(j)', idOf[j] \notin lost'[s], status'[j] # "lost"
              PROVE  Last(Append(q, e), v, i, status'[j])
          <5>1. Last(q, v, i, status'[j])
            BY <1>1, <1>3, <3>1, <3>3, <4>1, <4>3 DEF Told
          <5> QED
            BY <1>1, <4>1, <5>1, LastAppend
        <4> QED
          BY <1>1, <3>1, <4>2, <4>3 DEF Told, Ending, Now
      <3> QED
        BY <1>5, <3>2, <3>3
    <2>2. CASE ~(s \in subscribed /\ Len(chan[s]) < ChanSize)
      <3>1. chan'[s] = q /\ lost'[s] = lost[s] \cup {e.id}
        BY <1>5, <2>2 DEF Broadcast
      <3>2. CASE e.id = idOf[j]
        <4>1. Ends(q, v, i, now)
          BY <1>1, <1>2, EndsKept
        <4> QED
          BY <1>1, <3>1, <3>2, <4>1 DEF Told, Ending, Now
      <3>3. CASE e.id # idOf[j]
        BY <1>4, <1>5, <3>1, <3>3
      <3> QED
        BY <3>2, <3>3
    <2> QED
      BY <2>1, <2>2
  <1>6. Heard(j)
    BY HeardOf
  <1>7. CASE UNCHANGED hubVars /\ Kept(j)
    BY <1>4, <1>7 DEF hubVars
  <1> QED
    BY <1>5, <1>6, <1>7 DEF Heard

LEMMA ServerKeeps ==
  ASSUME EventsKnown, Operate, UNCHANGED clientVars
  PROVE  EventsKnown'
  <1> USE DEF EventsKnown
  <1>1. TypeOK'
    BY TypesNext DEF EventsTypeOK, Next
  <1>2. Places'
    BY PlacesNext DEF EventsTypeOK, Next
  <1>3. subscribed' = subscribed
    BY HubOf DEF Broadcast, hubVars
  <1>4. EventsTypeOK'
    BY <1>1, <1>3 DEF EventsTypeOK, clientVars
  <1>5. Channels'
    <2> SUFFICES ASSUME NEW s \in Subscribers, conn[s] # "live" PROVE chan'[s] = <<>>
      BY DEF Channels, clientVars
    <2>1. chan[s] = <<>> /\ s \notin subscribed
      BY DEF EventsInv, Channels, EventsTypeOK
    <2> QED
      BY <2>1, HubOf DEF Broadcast, hubVars
  <1>6. Shown' /\ EndIsLast'
    <2>1. ASSUME NEW s \in Subscribers, NEW j \in Jobs, OwnId(j), conn[s] # "off"
          PROVE  Told(s, j)' /\ Ending(s, j)'
      BY <1>1, <2>1, ServerTells
    <2> QED
      BY <2>1 DEF Shown, EndIsLast, OwnId, clientVars
  <1> QED
    BY <1>2, <1>4, <1>5, <1>6, TableNext DEF EventsInv, EventsTypeOK

(***************************************************************************)
(* So does a step of a connection.                                         *)
(***************************************************************************)

\* The server's own variables.
ServerVars == <<memVars, diskVars, procVars, deletes, restarts, history>>

LEMMA TableQuiet ==
  ASSUME EventsKnown, UNCHANGED ServerVars
  PROVE  Places' /\ HasJob' /\ (HubOK' => TypeOK')
  <1>1. UNCHANGED <<table, status, queue, sub, wk>>
    BY DEF ServerVars, memVars, procVars
  <1>2. Places'
    BY <1>1, PlacesQuiet DEF EventsKnown
  <1>3. HasJob'
    BY <1>1 DEF EventsKnown, EventsInv, HasJob, OwnId
  <1>4. MemOK' /\ DiskOK' /\ WorkOK' /\ ProcOK' /\ PastOK'
    BY DEF EventsKnown, EventsTypeOK, ServerVars, TypeOK, MemOK, DiskOK, WorkOK, ProcOK, PastOK, memVars,
           diskVars, procVars, history
  <1> QED
    BY <1>2, <1>3, <1>4, TypeParts

\* A subscriber that gets and loses nothing knows what it knew.
LEMMA StillTold ==
  ASSUME UNCHANGED ServerVars, NEW s \in Subscribers, NEW j \in Jobs, Told(s, j), Ending(s, j),
         chan'[s] = chan[s], view'[s] = view[s], lost'[s] = lost[s]
  PROVE  Told(s, j)' /\ Ending(s, j)'
  <1>1. UNCHANGED <<status, stageNum, sub, wk>>
    BY DEF ServerVars, memVars, procVars
  <1>2. Told(s, j)'
    BY <1>1 DEF Told, Unannounced
  <1>3. Ending(s, j)'
    BY <1>1 DEF Ending, Now
  <1> QED
    BY <1>2, <1>3

\* The snapshot is what a browser should show.
LEMMA ConnectKeeps ==
  ASSUME EventsKnown, NEW r \in Subscribers, Connect(r)
  PROVE  EventsKnown'
  <1> USE DEF EventsKnown, EventsTypeOK
  <1>1. UNCHANGED <<ServerVars, subscribed, chan>>
    BY DEF Connect, ServerVars, procVars
  <1>2. \A s \in Subscribers \ {r} : conn'[s] = conn[s] /\ view'[s] = view[s] /\ lost'[s] = lost[s]
    BY DEF Connect, TypeOK
  <1>3. conn[r] = "off" /\ conn'[r] = "snapshot" /\ view'[r] = ListJobs /\ lost'[r] = {}
    BY DEF Connect, TypeOK
  <1>4. ListJobs \in [Ids -> [status : Statuses, stage : 0..NumStages]]
    <2>1. NotShown \in [status : Statuses, stage : 0..NumStages]
      BY JobsAssumption DEF NotShown, Statuses
    <2>2. ASSUME NEW i \in Ids, table[i] # None
          PROVE  [status |-> status[table[i]], stage |-> stageNum[table[i]]]
                    \in [status : Statuses, stage : 0..NumStages]
      <3>1. table[i] \in Jobs
        BY <2>2 DEF TypeOK
      <3> QED
        BY <3>1 DEF TypeOK
    <2> QED
      BY <2>1, <2>2 DEF ListJobs
  <1>5. EventsTypeOK'
    <2>1. lost' \in [Subscribers -> SUBSET Ids]
      BY DEF Connect, TypeOK
    <2>2. HubOK'
      BY <1>1, <2>1 DEF HubOK, TypeOK
    <2>3. view' \in [Subscribers -> [Ids -> [status : Statuses, stage : 0..NumStages]]]
      BY <1>4 DEF Connect
    <2>4. conn' \in [Subscribers -> {"off", "snapshot", "live"}] /\ connects' \in [Subscribers -> 0..MaxConnects]
      BY EventsAssumption DEF Connect
    <2>5. subscribed' = {s \in Subscribers : conn'[s] = "live"}
      BY <1>1, <1>2, <1>3
    <2> QED
      BY <1>1, <2>2, <2>3, <2>4, <2>5, TableQuiet
  <1>6. Channels'
    BY <1>1, <1>2, <1>3 DEF EventsInv, Channels
  <1>7. ASSUME NEW s \in Subscribers, NEW j \in Jobs, OwnId(j), conn'[s] # "off"
        PROVE  Told(s, j)' /\ Ending(s, j)'
    <2>1. CASE s # r
      BY <1>1, <1>2, <1>7, <2>1, StillTold DEF EventsInv, Shown, EndIsLast
    <2>2. CASE s = r
      <3>1. chan'[s] = <<>> /\ UNCHANGED <<status, stageNum>>
        BY <1>1, <1>3, <2>2 DEF EventsInv, Channels, ServerVars, memVars
      <3>2. idOf[j] \in Ids /\ None \notin Jobs
        BY JobsAssumption
      <3>3. view'[s][idOf[j]] = IF status[j] \in {"none", "lost"} THEN NotShown ELSE Now(j)
        BY <1>3, <1>7, <2>2, <3>2 DEF ListJobs, EventsInv, HasJob, Now
      <3>4. status[j] # "lost" => view'[s][idOf[j]].status = status[j]
        BY <3>3 DEF NotShown, Now
      <3>5. view'[s][idOf[j]].status \in Ended => view'[s][idOf[j]] = Now(j)
        BY <3>3 DEF NotShown, Ended
      <3>6. Len(chan'[s]) = 0 /\ \A n \in 1..0 : FALSE
        BY <3>1
      <3>7. Told(s, j)'
        BY <3>1, <3>4, <3>6 DEF Told, Last
      <3>8. Ending(s, j)'
        BY <3>1, <3>5, <3>6 DEF Ending, Ends, Now
      <3> QED
        BY <3>7, <3>8
    <2> QED
      BY <2>1, <2>2
  <1> QED
    BY <1>1, <1>5, <1>6, <1>7, TableQuiet DEF EventsInv, Shown, EndIsLast, OwnId

LEMMA SubscribeKeeps ==
  ASSUME EventsKnown, NEW r \in Subscribers, Subscribe(r)
  PROVE  EventsKnown'
  <1> USE DEF EventsKnown, EventsTypeOK
  <1>1. UNCHANGED <<ServerVars, lost, view, connects>>
    BY DEF Subscribe, ServerVars, procVars
  <1>2. chan[r] = <<>>
    BY DEF Subscribe, EventsInv, Channels
  <1>3. chan' = chan
    BY <1>2 DEF Subscribe, TypeOK
  <1>4. conn' = [conn EXCEPT ![r] = "live"] /\ subscribed' = subscribed \cup {r} /\ conn[r] = "snapshot"
    BY DEF Subscribe
  <1>5. EventsTypeOK'
    <2>1. HubOK'
      BY <1>1, <1>3, <1>4 DEF HubOK, TypeOK
    <2>2. conn' \in [Subscribers -> {"off", "snapshot", "live"}]
          /\ subscribed' = {s \in Subscribers : conn'[s] = "live"}
      BY <1>4
    <2> QED
      BY <1>1, <2>1, <2>2, TableQuiet
  <1>6. Channels'
    BY <1>3, <1>4 DEF EventsInv, Channels
  <1>7. ASSUME NEW s \in Subscribers, NEW j \in Jobs, OwnId(j), conn'[s] # "off"
        PROVE  Told(s, j)' /\ Ending(s, j)'
    BY <1>1, <1>3, <1>4, <1>7, StillTold DEF EventsInv, Shown, EndIsLast
  <1> QED
    BY <1>1, <1>5, <1>6, <1>7, TableQuiet DEF EventsInv, Shown, EndIsLast, OwnId

LEMMA DisconnectKeeps ==
  ASSUME EventsKnown, NEW r \in Subscribers, Disconnect(r)
  PROVE  EventsKnown'
  <1> USE DEF EventsKnown, EventsTypeOK
  <1>1. UNCHANGED <<ServerVars, lost, view, connects>>
    BY DEF Disconnect, ServerVars, procVars
  <1>2. /\ conn' = [conn EXCEPT ![r] = "off"]
        /\ subscribed' = subscribed \ {r}
        /\ chan' = [chan EXCEPT ![r] = <<>>]
    BY DEF Disconnect
  <1>3. \A s \in Subscribers \ {r} : conn'[s] = conn[s] /\ chan'[s] = chan[s]
    BY <1>2 DEF TypeOK
  <1>4. conn'[r] = "off" /\ chan'[r] = <<>>
    BY <1>2 DEF TypeOK
  <1>5. EventsTypeOK'
    <2>1. <<>> \in Seq(Events) /\ Len(<<>>) <= ChanSize
      BY JobsAssumption
    <2>2. \A s \in Subscribers : Len(chan'[s]) <= ChanSize
      BY <1>3, <1>4, <2>1 DEF TypeOK
    <2>3. chan' \in [Subscribers -> Seq(Events)]
      BY <1>2, <2>1 DEF TypeOK
    <2>4. HubOK'
      BY <1>1, <1>2, <2>2, <2>3 DEF HubOK, TypeOK
    <2>5. conn' \in [Subscribers -> {"off", "snapshot", "live"}]
          /\ subscribed' = {s \in Subscribers : conn'[s] = "live"}
      BY <1>2
    <2> QED
      BY <1>1, <2>4, <2>5, TableQuiet
  <1>6. Channels'
    BY <1>3, <1>4 DEF EventsInv, Channels
  <1>7. ASSUME NEW s \in Subscribers, NEW j \in Jobs, OwnId(j), conn'[s] # "off"
        PROVE  Told(s, j)' /\ Ending(s, j)'
    BY <1>1, <1>3, <1>4, <1>7, StillTold DEF EventsInv, Shown, EndIsLast
  <1> QED
    BY <1>1, <1>5, <1>6, <1>7, TableQuiet DEF EventsInv, Shown, EndIsLast, OwnId

LEMMA ForwardKeeps ==
  ASSUME EventsKnown, NEW r \in Subscribers, Forward(r)
  PROVE  /\ EventsKnown'
         /\ \A j \in Jobs : OwnId(j) /\ view[r][idOf[j]].status \in Ended
                => view'[r][idOf[j]] = view[r][idOf[j]]
  <1> USE DEF EventsKnown, EventsTypeOK
  <1> DEFINE q == chan[r]
             e == Head(q)
  <1>1. UNCHANGED <<ServerVars, subscribed, lost, conn, connects>>
    BY DEF Forward, ServerVars, procVars
  <1>2. conn[r] = "live" /\ q \in Seq(Events) /\ q # <<>> /\ Len(q) <= ChanSize /\ ChanSize \in Nat
    BY JobsAssumption DEF Forward, TypeOK
  <1>3. e \in Events /\ Tail(q) \in Seq(Events) /\ Len(Tail(q)) <= ChanSize
    BY <1>2
  <1>4. chan' = [chan EXCEPT ![r] = Tail(q)] /\ view' = [view EXCEPT ![r][e.id] = Shows(e)]
    BY DEF Forward, Shows
  <1>5. \A s \in Subscribers \ {r} : chan'[s] = chan[s] /\ view'[s] = view[s]
    BY <1>4 DEF TypeOK
  <1>6. /\ chan'[r] = Tail(q)
        /\ \A i \in Ids : view'[r][i] = IF e.id = i THEN Shows(e) ELSE view[r][i]
    BY <1>4 DEF TypeOK
  <1>7. EventsTypeOK'
    <2>1. Shows(e) \in [status : Statuses, stage : 0..NumStages] /\ e.id \in Ids
      BY <1>3 DEF Shows, Events
    <2>2. view' \in [Subscribers -> [Ids -> [status : Statuses, stage : 0..NumStages]]]
      BY <1>4, <2>1
    <2>3. chan' \in [Subscribers -> Seq(Events)]
      BY <1>3, <1>4 DEF TypeOK
    <2>4. \A s \in Subscribers : Len(chan'[s]) <= ChanSize
      BY <1>3, <1>5, <1>6 DEF TypeOK
    <2>5. HubOK'
      BY <1>1, <2>3, <2>4 DEF HubOK, TypeOK
    <2> QED
      BY <1>1, <2>2, <2>5, TableQuiet
  <1>8. Channels'
    BY <1>1, <1>2, <1>5 DEF EventsInv, Channels
  <1>9. ASSUME NEW j \in Jobs, OwnId(j)
        PROVE  /\ Told(r, j)' /\ Ending(r, j)'
               /\ view[r][idOf[j]].status \in Ended => view'[r][idOf[j]] = view[r][idOf[j]]
    <2>1. Told(r, j) /\ Ends(q, view[r][idOf[j]], idOf[j], Now(j))
      BY <1>2, <1>9 DEF EventsInv, Shown, EndIsLast, Ending
    <2>2. view'[r][idOf[j]] = IF e.id = idOf[j] THEN Shows(e) ELSE view[r][idOf[j]]
      BY <1>6, JobsAssumption
    <2>3. UNCHANGED <<status, stageNum, sub, wk>>
      BY <1>1 DEF ServerVars, memVars, procVars
    <2>4. /\ Ends(Tail(q), view'[r][idOf[j]], idOf[j], Now(j))
          /\ view[r][idOf[j]].status \in Ended => view'[r][idOf[j]] = view[r][idOf[j]]
      BY <1>2, <2>1, <2>2, EndsForward
    <2>5. Ending(r, j)'
      BY <1>6, <2>3, <2>4 DEF Ending, Now
    <2>6. Last(q, view[r][idOf[j]], idOf[j], status[j])
            => Last(Tail(q), view'[r][idOf[j]], idOf[j], status[j])
      BY <1>2, <2>2, LastForward
    <2>7. Told(r, j)'
      BY <1>1, <1>6, <2>1, <2>3, <2>6 DEF Told, Unannounced
    <2> QED
      BY <2>4, <2>5, <2>7
  <1>10. ASSUME NEW s \in Subscribers, NEW j \in Jobs, OwnId(j), conn'[s] # "off"
         PROVE  Told(s, j)' /\ Ending(s, j)'
    <2>1. CASE s = r
      BY <1>9, <1>10, <2>1
    <2>2. CASE s # r
      BY <1>1, <1>5, <1>10, <2>2, StillTold DEF EventsInv, Shown, EndIsLast
    <2> QED
      BY <2>1, <2>2
  <1> QED
    BY <1>1, <1>7, <1>8, <1>9, <1>10, TableQuiet DEF EventsInv, Shown, EndIsLast, OwnId

LEMMA RestartKeeps ==
  ASSUME EventsKnown, RestartBreaks
  PROVE  EventsKnown'
  <1> USE DEF EventsKnown, EventsTypeOK
  <1>1. Restart /\ conn' = [s \in Subscribers |-> "off"] /\ UNCHANGED <<view, connects>>
    BY DEF RestartBreaks
  <1>2. TypeOK' /\ Places'
    BY <1>1, TypesNext, PlacesNext DEF Next
  <1>3. EventsTypeOK'
    BY <1>1, <1>2 DEF Restart
  <1>4. HasJob'
    <2>1. \A j \in Jobs : status'[j] \in {"none", "lost"} /\ idOf[j] \in Ids
      BY <1>1, JobsAssumption DEF Restart
    <2> QED
      BY <1>1, <2>1 DEF Restart, HasJob
  <1>5. Channels' /\ Shown' /\ EndIsLast'
    BY <1>1 DEF Restart, Channels, Shown, EndIsLast
  <1> QED
    BY <1>2, <1>3, <1>4, <1>5 DEF EventsInv

(***************************************************************************)
(* The theorems.                                                           *)
(***************************************************************************)
LEMMA KnownInit == EventsInit => EventsKnown
  <1> SUFFICES ASSUME EventsInit PROVE EventsKnown
    OBVIOUS
  <1>1. TypeOK /\ Places
    BY TypesInit, PlacesInit DEF EventsInit
  <1>2. NotShown \in [status : Statuses, stage : 0..NumStages]
    BY JobsAssumption DEF NotShown, Statuses
  <1>3. EventsTypeOK
    BY <1>1, <1>2, EventsAssumption DEF EventsInit, EventsTypeOK, Init
  <1>4. HasJob
    BY JobsAssumption DEF EventsInit, Init, HasJob
  <1>5. Channels /\ Shown /\ EndIsLast
    BY DEF EventsInit, Init, Channels, Shown, EndIsLast
  <1> QED
    BY <1>1, <1>3, <1>4, <1>5 DEF EventsKnown, EventsInv

LEMMA KnownNext == EventsKnown /\ [EventsNext]_allVars => EventsKnown'
  <1> SUFFICES ASSUME EventsKnown, [EventsNext]_allVars PROVE EventsKnown'
    OBVIOUS
  <1>1. CASE Operate /\ UNCHANGED clientVars
    BY <1>1, ServerKeeps
  <1>2. CASE RestartBreaks
    BY <1>2, RestartKeeps
  <1>3. CASE \E s \in Subscribers : Connect(s) \/ ClientStep(s) \/ Disconnect(s)
    BY <1>3, ConnectKeeps, SubscribeKeeps, ForwardKeeps, DisconnectKeeps DEF ClientStep
  <1>4. CASE UNCHANGED allVars
    <2>1. TypeOK' /\ Places'
      BY <1>4, TypesNext, PlacesNext DEF allVars, EventsKnown, EventsTypeOK
    <2>2. UNCHANGED <<table, status, stageNum, sub, wk, subscribed, chan, lost, conn, view, connects>>
      BY <1>4 DEF allVars, vars, clientVars, memVars, procVars, hubVars
    <2>3. EventsTypeOK' /\ HasJob' /\ Channels'
      BY <2>1, <2>2 DEF EventsKnown, EventsTypeOK, EventsInv, HasJob, OwnId, Channels
    <2>4. Shown' /\ EndIsLast'
      BY <2>2 DEF EventsKnown, EventsInv, Shown, EndIsLast, OwnId, Told, Ending, Now, Unannounced
    <2> QED
      BY <2>1, <2>3, <2>4 DEF EventsKnown, EventsInv
  <1> QED
    BY <1>1, <1>2, <1>3, <1>4 DEF EventsNext

LEMMA KnownAlways == EventsSpec => []EventsKnown
  BY KnownInit, KnownNext, PTL DEF EventsSpec

\* Types are kept by every behaviour of the server and its browsers (EventsTypeOK of
\* the run job_events); the hub knows exactly the live connections.
THEOREM EventsTyped == EventsSpec => []EventsTypeOK
  <1>1. EventsKnown => EventsTypeOK
    BY DEF EventsKnown
  <1> QED
    BY <1>1, KnownAlways, PTL

\* A connected browser that has been sent everything shows every job as it is
\* (ViewCurrent of the run job_events), whatever was dropped before, and however often
\* it connected and the server died.
THEOREM ViewsCurrent == EventsSpec => []ViewCurrent
  <1>1. EventsKnown => ViewCurrent
    <2> SUFFICES ASSUME EventsKnown, NEW s \in Subscribers, NEW j \in Jobs,
                        conn[s] = "live", chan[s] = <<>>, OwnId(j), ~Unannounced(j),
                        idOf[j] \notin lost[s], status[j] # "lost"
                 PROVE  Current(s, j)
      BY DEF ViewCurrent
    <2>1. Last(chan[s], view[s][idOf[j]], idOf[j], status[j])
      BY DEF EventsKnown, EventsInv, Shown, Told
    <2>2. Len(chan[s]) = 0
      OBVIOUS
    <2> QED
      BY <2>1, <2>2 DEF Last, Current
  <1> QED
    BY <1>1, KnownAlways, PTL

\* No event revives a job that is shown as ended (NoGoingBack of the run job_events).
THEOREM EndsAreShown == EventsSpec => NoGoingBack
  <1>1. EventsKnown /\ [EventsNext]_allVars
        => [\A s \in Subscribers : \A j \in Jobs :
              OwnId(j) /\ conn[s] = "live" /\ view[s][idOf[j]].status \in Ended
                  => view'[s][idOf[j]] = view[s][idOf[j]]]_allVars
    <2> SUFFICES ASSUME EventsKnown, EventsNext, NEW s \in Subscribers, NEW j \in Jobs,
                        OwnId(j), conn[s] = "live", view[s][idOf[j]].status \in Ended
                 PROVE  view'[s][idOf[j]] = view[s][idOf[j]]
      OBVIOUS
    <2>1. CASE (Operate /\ UNCHANGED clientVars) \/ RestartBreaks
      BY <2>1 DEF clientVars, RestartBreaks
    <2>2. ASSUME NEW r \in Subscribers, Connect(r) \/ Subscribe(r) \/ Disconnect(r)
          PROVE  view'[s] = view[s]
      BY <2>2 DEF Connect, Subscribe, Disconnect, EventsKnown, EventsTypeOK
    <2>3. ASSUME NEW r \in Subscribers, Forward(r)
          PROVE  view'[s][idOf[j]] = view[s][idOf[j]]
      <3>1. CASE r = s
        BY <2>3, <3>1, ForwardKeeps
      <3>2. CASE r # s
        BY <2>3, <3>2 DEF Forward, EventsKnown, EventsTypeOK
      <3> QED
        BY <3>1, <3>2
    <2> QED
      BY <2>1, <2>2, <2>3 DEF EventsNext, ClientStep
  <1> QED
    BY <1>1, KnownAlways, PTL DEF EventsSpec, NoGoingBack

=============================================================================
