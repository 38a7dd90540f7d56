--------------------------- MODULE SystemMonitor ----------------------------
(***************************************************************************)
(* The helper's system monitor (system/service.rs): the subscriptions that *)
(* the dispatch thread of HelperIpcService makes, polls and drops, the     *)
(* broadcast channel between them and the two workers, and the shutdown by *)
(* the helper's main thread (launch.rs).  A snapshot is its number in the  *)
(* order of collection; 0 is the empty one the monitor starts with.        *)
(***************************************************************************)
EXTENDS Naturals, Sequences, FiniteSets

CONSTANTS
  Subscribers,   \* names for the subscriptions
  ViewerLimit,   \* 32 in the code
  Capacity,      \* events the channel retains, 16 in the code
  MaxSnapshots,  \* bound on the snapshots collected in one behaviour
  MaxEvents      \* activity is sent while fewer events than this were

VARIABLES
  viewers,   \* SystemMonitor.viewers
  stopped,   \* SystemMonitor.stop
  latest,    \* SystemMonitor.snapshot
  sent,      \* every event sent on the channel, in order
  held,      \* live Subscriptions
  cursor,    \* how much of sent each receiver has passed
  view,      \* the last snapshot given to each subscriber
  call,      \* what the dispatch thread is doing
  snapper, collected,  \* the snapshot worker and the snapshot in its hands
  activity, sensors,   \* the activity worker and its collector
  main, joining        \* the main thread and the workers it waits for

workerVars == <<snapper, collected, activity, sensors>>
mainVars   == <<stopped, main, joining>>
vars == <<viewers, latest, sent, held, cursor, view, call, workerVars, mainVars>>

None == "none"   \* no call, or a worker that was not started
Calls == {[op |-> None]} \cup [op : {"subscribe", "initial", "poll"}, who : Subscribers]
Events == [kind : {"snapshot", "activity"}, stamp : Nat]

\* The shape of the state: the viewers subscribe counts stay within the limit.
TypeOK ==
  /\ viewers \in 0..ViewerLimit
  /\ stopped \in BOOLEAN
  /\ latest \in Nat /\ collected \in Nat
  /\ sent \in Seq(Events)
  /\ held \subseteq Subscribers
  /\ cursor \in [Subscribers -> Nat]
  /\ view \in [Subscribers -> Nat]
  /\ call \in Calls
  /\ snapper \in {None, "check", "collected", "sent", "done"}
  /\ activity \in {None, "check", "polled", "done"}
  /\ sensors \in BOOLEAN
  /\ main \in {"serving", "stopping", "joining", "joined"}
  /\ joining \subseteq {"snapshot", "activity"}

Init ==
  /\ viewers = 0 /\ stopped = FALSE /\ latest = 0 /\ sent = <<>>
  /\ held = {}
  /\ cursor = [s \in Subscribers |-> 0]
  /\ view = [s \in Subscribers |-> 0]
  /\ call = [op |-> None]
  /\ snapper = None /\ collected = 0 /\ activity = None /\ sensors = FALSE
  /\ main = "serving" /\ joining = {}

\* Nobody holds the viewers mutex: subscribe keeps it until it returns.
Unlocked == call.op # "initial"

-----------------------------------------------------------------------------
(* The dispatch thread                                                     *)

\* dispatch accepts a request unless the helper is stopping.
Accept(op, s) ==
  /\ call.op = None /\ main = "serving"
  /\ IF op = "poll" THEN s \in held ELSE s \notin held
  /\ call' = [op |-> op, who |-> s]
  /\ UNCHANGED <<viewers, latest, sent, held, cursor, view, workerVars, mainVars>>

MayRegister == ~stopped /\ viewers < ViewerLimit

\* subscribe: the viewer is counted and its receiver created.
Register(s) ==
  /\ call = [op |-> "subscribe", who |-> s]
  /\ IF MayRegister
       THEN /\ viewers' = viewers + 1
            /\ held' = held \cup {s}
            /\ cursor' = [cursor EXCEPT ![s] = Len(sent)]
            /\ call' = [op |-> "initial", who |-> s]
       ELSE call' = [op |-> None] /\ UNCHANGED <<viewers, held, cursor>>
  /\ UNCHANGED <<latest, sent, view, workerVars, mainVars>>

\* The retained snapshot is read, the workers are started the first time
\* and the mutex is released.
ReadInitial(s) ==
  /\ call = [op |-> "initial", who |-> s]
  /\ view' = [view EXCEPT ![s] = latest]
  /\ snapper' = IF snapper = None THEN "check" ELSE snapper
  /\ activity' = IF activity = None THEN "check" ELSE activity
  /\ call' = [op |-> None]
  /\ UNCHANGED <<viewers, latest, sent, held, cursor, collected, sensors, mainVars>>

\* A receiver that passed less than the channel has forgotten lags.
Forgotten == IF Len(sent) > Capacity THEN Len(sent) - Capacity ELSE 0

MutantLagged(s) ==
  /\ cursor' = [cursor EXCEPT ![s] = Len(sent)]
  /\ UNCHANGED view

\* Lagged: the receiver moves to the oldest retained event, and the poll
\* answers with a gap and the snapshot the monitor holds.
Lagged(s) ==
  /\ cursor' = [cursor EXCEPT ![s] = Forgotten]
  /\ view' = [view EXCEPT ![s] = latest]

NextEvent(s) ==
  /\ cursor' = [cursor EXCEPT ![s] = cursor[s] + 1]
  /\ LET e == sent[cursor[s] + 1]
     IN view' = [view EXCEPT ![s] = IF e.kind = "snapshot" THEN e.stamp ELSE view[s]]

Poll(s) ==
  /\ call = [op |-> "poll", who |-> s]
  /\ CASE cursor[s] < Forgotten -> Lagged(s)
       [] cursor[s] >= Forgotten /\ cursor[s] < Len(sent) -> NextEvent(s)
       [] OTHER -> UNCHANGED <<cursor, view>>
  /\ call' = [op |-> None]
  /\ UNCHANGED <<viewers, latest, sent, held, workerVars, mainVars>>

\* What a receiver knew is gone with it.
Forget(s) ==
  /\ cursor' = [cursor EXCEPT ![s] = 0]
  /\ view' = [view EXCEPT ![s] = 0]

\* The session is closed or its lease expires: the Subscription is dropped.
Drop(s) ==
  /\ call.op = None /\ s \in held
  /\ held' = held \ {s}
  /\ viewers' = viewers - 1
  /\ Forget(s)
  /\ UNCHANGED <<latest, sent, call, workerVars, mainVars>>

-----------------------------------------------------------------------------
(* The workers                                                             *)

\* active() waits for the viewers mutex.
Active == ~stopped /\ viewers > 0

\* The snapshot worker finds a viewer and collects.
Collect ==
  /\ snapper = "check" /\ Unlocked /\ Active
  /\ collected < MaxSnapshots
  /\ collected' = collected + 1
  /\ snapper' = "collected"
  /\ UNCHANGED <<viewers, latest, sent, held, cursor, view, call, activity,
                 sensors, mainVars>>

SendSnapshot ==
  /\ snapper = "collected"
  /\ sent' = Append(sent, [kind |-> "snapshot", stamp |-> collected])
  /\ snapper' = "sent"
  /\ UNCHANGED <<viewers, latest, held, cursor, view, call, collected, activity,
                 sensors, mainVars>>

WriteSnapshot ==
  /\ snapper = "sent"
  /\ latest' = collected
  /\ snapper' = "check"
  /\ UNCHANGED <<viewers, sent, held, cursor, view, call, collected, activity,
                 sensors, mainVars>>

MutantSnapperEnds ==
  /\ snapper = "check" /\ stopped /\ viewers > 0
  /\ snapper' = "done"
  /\ UNCHANGED <<viewers, latest, sent, held, cursor, view, call, collected,
                 activity, sensors, mainVars>>

SnapperEnds ==
  /\ snapper = "check" /\ stopped
  /\ snapper' = "done"
  /\ UNCHANGED <<viewers, latest, sent, held, cursor, view, call, collected,
                 activity, sensors, mainVars>>

\* run_activity: the collector exists only while somebody watches.
CheckActivity ==
  /\ activity = "check" /\ ~stopped /\ Unlocked
  /\ activity' = IF Active THEN "polled" ELSE "check"
  /\ sensors' = Active
  /\ UNCHANGED <<viewers, latest, sent, held, cursor, view, call, snapper,
                 collected, mainVars>>

\* A second has passed: the batch is sent.
SendActivity ==
  /\ activity = "polled" /\ Len(sent) < MaxEvents
  /\ sent' = Append(sent, [kind |-> "activity", stamp |-> latest])
  /\ activity' = "check"
  /\ UNCHANGED <<viewers, latest, held, cursor, view, call, snapper, collected,
                 sensors, mainVars>>

\* It has not.
SkipActivity ==
  /\ activity = "polled"
  /\ activity' = "check"
  /\ UNCHANGED <<viewers, latest, sent, held, cursor, view, call, snapper,
                 collected, sensors, mainVars>>

ActivityEnds ==
  /\ activity = "check" /\ stopped
  /\ activity' = "done"
  /\ sensors' = FALSE
  /\ UNCHANGED <<viewers, latest, sent, held, cursor, view, call, snapper,
                 collected, mainVars>>

-----------------------------------------------------------------------------
(* launch_privileged_helper after its loop                                 *)

\* CollectorManager::stop: the process monitor first, so that dispatch
\* refuses; then this one, under the viewers mutex.
StopDispatch ==
  /\ main = "serving"
  /\ main' = "stopping"
  /\ UNCHANGED <<viewers, latest, sent, held, cursor, view, call, workerVars,
                 stopped, joining>>

Stop ==
  /\ main = "stopping" /\ ~stopped /\ Unlocked
  /\ stopped' = TRUE
  /\ UNCHANGED <<viewers, latest, sent, held, cursor, view, call, workerVars,
                 main, joining>>

\* join_workers takes the handles there are and waits for each of them.
TakeWorkers ==
  /\ main = "stopping" /\ stopped
  /\ main' = "joining"
  /\ joining' = {w \in {"snapshot", "activity"} :
                   (IF w = "snapshot" THEN snapper ELSE activity) # None}
  /\ UNCHANGED <<viewers, latest, sent, held, cursor, view, call, workerVars, stopped>>

Joined ==
  /\ main = "joining"
  /\ "snapshot" \in joining => snapper = "done"
  /\ "activity" \in joining => activity = "done"
  /\ main' = "joined"
  /\ UNCHANGED <<viewers, latest, sent, held, cursor, view, call, workerVars,
                 stopped, joining>>

-----------------------------------------------------------------------------
Dispatch(s) ==
  \/ \E op \in {"subscribe", "poll"} : Accept(op, s)
  \/ Register(s) \/ ReadInitial(s) \/ Poll(s) \/ Drop(s)
Snapshots == Collect \/ SendSnapshot \/ WriteSnapshot \/ SnapperEnds
Activities == CheckActivity \/ SendActivity \/ SkipActivity \/ ActivityEnds
Shutdown == StopDispatch \/ Stop \/ TakeWorkers \/ Joined

Next ==
  \/ \E s \in Subscribers : Dispatch(s)
  \/ Snapshots \/ Activities \/ Shutdown

Spec == Init /\ [][Next]_vars

\* Every thread runs.  Only the start of the shutdown, what clients ask for
\* and the second that an activity batch waits for are left to chance.
Fairness ==
  /\ WF_vars(\E s \in Subscribers : Register(s) \/ ReadInitial(s) \/ Poll(s))
  /\ WF_vars(SendSnapshot) /\ WF_vars(WriteSnapshot) /\ WF_vars(SnapperEnds)
  /\ SF_vars(CheckActivity) /\ WF_vars(SkipActivity) /\ WF_vars(ActivityEnds)
  /\ SF_vars(Stop) /\ WF_vars(TakeWorkers) /\ WF_vars(Joined)

FairSpec == Spec /\ Fairness

-----------------------------------------------------------------------------
(* Properties                                                              *)

\* The count that decides whether collection runs and whether a viewer is
\* refused is the number of live subscriptions (subscribe, Drop).
ViewersCounted == viewers = Cardinality(held)

\* A subscriber that has received all there is was not left behind: it shows
\* the monitor's snapshot or a newer one, or misses exactly the one that was
\* sent before its receiver existed and written after it read its initial
\* one; lag and the workers' order of send and write included.
AtMostOneBehind ==
  \A s \in held : cursor[s] = Len(sent) /\ call # [op |-> "initial", who |-> s]
                    => view[s] + 1 >= latest

\* When join_workers has returned no worker runs: none was started after the
\* handles were taken, although subscribe runs on another thread.
JoinedQuiet == main = "joined" => snapper \in {None, "done"} /\ activity \in {None, "done"}

\* SystemMonitor: viewers are counted exactly, a subscriber that read all it was sent
\* is at most one snapshot behind, and no worker outlives join_workers.
SystemViewers == ViewersCounted /\ AtMostOneBehind /\ JoinedQuiet

\* "Collection pauses and sensors are released when the worker next checks
\* state" (DEVELOPMENT.md) after the last connection closes.
SensorsReleased == held = {} ~> ~sensors \/ held # {}

\* Shutdown does not hang: once the helper stops, the workers end and are
\* joined.
StopJoins == main = "stopping" ~> main = "joined"

=============================================================================
