----------------------------- MODULE JobEvents -----------------------------
(***************************************************************************)
(* The live view of the import jobs: MapJobs with its subscribers.         *)
(*                                                                         *)
(*   - the event stream  internal/server/handler_maptool.go                *)
(*   - the browser       ui/src/pages/map-manager/useMapToolEvents.ts      *)
(*                                                                         *)
(* A connection gets a snapshot of all jobs, is then subscribed to the     *)
(* event hub and sent what its channel holds. What the hub broadcasts      *)
(* between the two is not sent, and neither is what finds the channel      *)
(* full. A browser that loses its connection makes another one.            *)
(***************************************************************************)
EXTENDS MapJobs

CONSTANT MaxConnects   \* bound: how often a browser connects

ASSUME EventsAssumption == MaxConnects \in Nat

VARIABLES
    conn,      \* conn[s]: "off", "snapshot" (sent, not subscribed yet) or "live"
    view,      \* view[s][i]: what the browser shows of the job with id i
    connects   \* connects[s]: how often s connected

clientVars == <<conn, view, connects>>
allVars    == <<vars, clientVars>>

NotShown == [status |-> "none", stage |-> 0]

EventsTypeOK ==
    /\ TypeOK
    /\ conn \in [Subscribers -> {"off", "snapshot", "live"}]
    /\ view \in [Subscribers -> [Ids -> [status : Statuses, stage : 0..NumStages]]]
    /\ connects \in [Subscribers -> 0..MaxConnects]
    /\ subscribed = {s \in Subscribers : conn[s] = "live"}

EventsInit ==
    /\ Init
    /\ conn = [s \in Subscribers |-> "off"]
    /\ view = [s \in Subscribers |-> [i \in Ids |-> NotShown]]
    /\ connects = [s \in Subscribers |-> 0]

-----------------------------------------------------------------------------
\* ListJobs: a snapshot of every job of the table.
ListJobs ==
    [i \in Ids |-> IF table[i] = None THEN NotShown
                   ELSE [status |-> status[table[i]], stage |-> stageNum[table[i]]]]

\* The browser connects; the handler sends the snapshot, which replaces the view.
Connect(s) ==
    /\ conn[s] = "off"
    /\ connects[s] < MaxConnects
    /\ connects' = [connects EXCEPT ![s] = @ + 1]
    /\ conn' = [conn EXCEPT ![s] = "snapshot"]
    /\ view' = [view EXCEPT ![s] = ListJobs]
    /\ lost' = [lost EXCEPT ![s] = {}]
    /\ UNCHANGED <<memVars, diskVars, procVars, subscribed, chan, deletes, restarts, history>>

\* hub.subscribe: a new, empty channel.
Subscribe(s) ==
    /\ conn[s] = "snapshot"
    /\ conn' = [conn EXCEPT ![s] = "live"]
    /\ subscribed' = subscribed \cup {s}
    /\ chan' = [chan EXCEPT ![s] = <<>>]
    /\ UNCHANGED <<memVars, diskVars, procVars, lost, deletes, restarts, history, view, connects>>

\* MUTANT: a status event only replaces a job that is shown.
MutForward(s) ==
    /\ conn[s] = "live"
    /\ chan[s] # <<>>
    /\ LET e == Head(chan[s])
       IN  view' = [view EXCEPT ![s][e.id] = IF @ = NotShown THEN @
                                            ELSE [status |-> e.status, stage |-> e.stage]]
    /\ chan' = [chan EXCEPT ![s] = Tail(@)]
    /\ UNCHANGED <<memVars, diskVars, procVars, subscribed, lost, deletes, restarts, history,
                   conn, connects>>

\* MUTANT: a status event makes the browser fetch the list of jobs.
MutForwardFetches(s) ==
    /\ conn[s] = "live"
    /\ chan[s] # <<>>
    /\ LET e == Head(chan[s])
       IN  view' = [view EXCEPT ![s] = IF e.type = "status" THEN ListJobs
                                      ELSE [@ EXCEPT ![e.id] = [status |-> e.status, stage |-> e.stage]]]
    /\ chan' = [chan EXCEPT ![s] = Tail(@)]
    /\ UNCHANGED <<memVars, diskVars, procVars, subscribed, lost, deletes, restarts, history,
                   conn, connects>>

\* An event of the channel reaches the browser, which adds the job or replaces it; a
\* progress event makes it "running".
Forward(s) ==
    /\ conn[s] = "live"
    /\ chan[s] # <<>>
    /\ LET e == Head(chan[s])
       IN  view' = [view EXCEPT ![s][e.id] = [status |-> e.status, stage |-> e.stage]]
    /\ chan' = [chan EXCEPT ![s] = Tail(@)]
    /\ UNCHANGED <<memVars, diskVars, procVars, subscribed, lost, deletes, restarts, history,
                   conn, connects>>

\* MUTANT: the handler returns without unsubscribing.
MutDisconnect(s) ==
    /\ conn[s] # "off"
    /\ conn' = [conn EXCEPT ![s] = "off"]
    /\ UNCHANGED <<memVars, diskVars, procVars, hubVars, deletes, restarts, history, view, connects>>

\* The connection breaks, or stays silent for the browser's heartbeat timeout; the
\* handler returns and unsubscribes. The browser keeps what it shows.
Disconnect(s) ==
    /\ conn[s] # "off"
    /\ conn' = [conn EXCEPT ![s] = "off"]
    /\ subscribed' = subscribed \ {s}
    /\ chan' = [chan EXCEPT ![s] = <<>>]
    /\ UNCHANGED <<memVars, diskVars, procVars, lost, deletes, restarts, history,
                   view, connects>>

ClientStep(s) == Subscribe(s) \/ Forward(s)

\* The death of the server breaks every connection.
RestartBreaks ==
    /\ Restart
    /\ conn' = [s \in Subscribers |-> "off"]
    /\ UNCHANGED <<view, connects>>

EventsNext ==
    \/ Operate /\ UNCHANGED clientVars
    \/ RestartBreaks
    \/ \E s \in Subscribers : Connect(s) \/ ClientStep(s) \/ Disconnect(s)

EventsSpec == EventsInit /\ [][EventsNext]_allVars

\* As in MapJobs, and a handler of the event stream goes on sending.
EventsFairSpec ==
    /\ EventsSpec
    /\ WF_allVars(WorkerStep /\ UNCHANGED clientVars)
    /\ \A j \in Jobs : WF_allVars(SubmitStep(j) /\ UNCHANGED clientVars)
    /\ \A s \in Subscribers : WF_allVars(ClientStep(s))

-----------------------------------------------------------------------------
\* A job whose id no other submission has: with a shared id the events of both go to
\* one entry of the view.
OwnId(j) == \A k \in Jobs \ {j} : idOf[k] # idOf[j]

\* The status of j was changed and is about to be broadcast.
Unannounced(j) == sub[j] = "announce" \/ (wk.job = j /\ wk.pc \in {"persist", "announce"})

Current(s, j) == view[s][idOf[j]].status = status[j]

\* A browser that is connected and has been sent everything shows every job as it is,
\* unless it did not get the latest event of that job, which was broadcast between its
\* snapshot and its subscription or found its channel full. In particular no older
\* event ever overwrites a newer state.
ViewCurrent ==
    \A s \in Subscribers : \A j \in Jobs :
        /\ conn[s] = "live" /\ chan[s] = <<>>
        /\ OwnId(j) /\ ~Unannounced(j)
        /\ idOf[j] \notin lost[s]
        /\ status[j] # "lost"
        => Current(s, j)

\* On one connection a job that is shown as ended stays so: the browser's handler of
\* progress events makes any job "running", so none may come after the end.
NoGoingBack ==
    [][\A s \in Subscribers : \A j \in Jobs :
          OwnId(j) /\ conn[s] = "live" /\ view[s][idOf[j]].status \in Ended
              => view'[s][idOf[j]] = view[s][idOf[j]]]_allVars

\* A job that ends is shown as ended in the end by every browser that stays connected
\* and gets its last event.
ShownInTheEnd ==
    \A s \in Subscribers : \A j \in Jobs :
        OwnId(j) /\ conn[s] = "live" /\ status[j] \in Ended
            ~> Current(s, j) \/ conn[s] = "off" \/ idOf[j] \in lost[s]

\* CLAIM (MapManager.tsx:125): "Maps list will refresh automatically when the job
\* completes via SSE". The refresh is made when the number of jobs shown as done or
\* failed grows, so a browser that has got everything must show a job that is done as
\* done. It need not: the job may end between its snapshot and its subscription.
DoneIsShown ==
    \A s \in Subscribers : \A j \in Jobs :
        conn[s] = "live" /\ chan[s] = <<>> /\ ~Unannounced(j) /\ status[j] = "done"
            => view[s][idOf[j]].status = "done"

=============================================================================
