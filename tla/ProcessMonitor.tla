--------------------------- MODULE ProcessMonitor ---------------------------
(***************************************************************************)
(* The helper's process monitor (process/monitoring/service.rs): permits,  *)
(* one collector thread per observation with its watch channel, the        *)
(* dispatch thread that observes and polls (helper_service.rs) and the     *)
(* shutdown (launch.rs).  All observations are of one process, which may   *)
(* exit; what a sample holds is left out.                                  *)
(***************************************************************************)
EXTENDS Naturals, FiniteSets

CONSTANTS
  Observations,  \* names for the ObserveProcess requests
  ViewerLimit    \* 32 in the code

VARIABLES
  alive,      \* the process with the observed identity exists
  viewers,    \* ProcessMonitor.viewers
  stopped,    \* ProcessMonitor.stopped
  workers,    \* observations whose thread handle is in ProcessMonitor.workers
  phase,      \* the observation, as the dispatch thread sees it
  polling,    \* the observation whose poll dispatch has accepted
  cancelled,  \* ObservationPermit.cancelled
  thread,     \* the collector thread
  sample,     \* what it captured last
  exited,     \* ProcessDetailSnapshot.exited of the value in the channel
  fresh,      \* the receiver has not seen that value
  shown,      \* exited of the last value given to the client
  main, joining  \* the main thread and the handles it waits for

dispatchVars == <<viewers, phase, polling, cancelled, shown>>
threadVars   == <<thread, sample, exited>>
mainVars     == <<stopped, main, joining>>
vars == <<alive, workers, fresh, dispatchVars, threadVars, mainVars>>

Nobody == "nobody"
Permit == {"reserved", "captured", "open"}

\* The shape of the state: the viewers reserve counts stay within the limit.
TypeOK ==
  /\ alive \in BOOLEAN /\ stopped \in BOOLEAN
  /\ viewers \in 0..ViewerLimit
  /\ workers \subseteq Observations
  /\ phase \in [Observations -> {"free", "reserved", "captured", "open", "refused",
                                 "closed", "ended"}]
  /\ polling \in Observations \cup {Nobody}
  /\ cancelled \in [Observations -> BOOLEAN]
  /\ thread \in [Observations -> {"none", "wait", "capture", "publish", "exiting", "done"}]
  /\ sample \in [Observations -> {"ok", "failed", "exited"}]
  /\ exited \in [Observations -> BOOLEAN]
  /\ fresh \in [Observations -> BOOLEAN]
  /\ shown \in [Observations -> BOOLEAN]
  /\ main \in {"serving", "stopped", "joining", "joined"}
  /\ joining \subseteq Observations

Init ==
  /\ alive = TRUE /\ viewers = 0 /\ stopped = FALSE /\ workers = {}
  /\ phase = [o \in Observations |-> "free"]
  /\ polling = Nobody
  /\ cancelled = [o \in Observations |-> FALSE]
  /\ thread = [o \in Observations |-> "none"]
  /\ sample = [o \in Observations |-> "ok"]
  /\ exited = [o \in Observations |-> FALSE]
  /\ fresh = [o \in Observations |-> FALSE]
  /\ shown = [o \in Observations |-> FALSE]
  /\ main = "serving" /\ joining = {}

\* The process exits, or its PID is reused: its identity is gone.
Exit ==
  /\ alive
  /\ alive' = FALSE
  /\ UNCHANGED <<workers, fresh, dispatchVars, threadVars, mainVars>>

-----------------------------------------------------------------------------
(* The dispatch thread, one request at a time                              *)

Idle == polling = Nobody /\ \A o \in Observations : phase[o] \notin {"reserved", "captured"}

\* The permit is dropped: the collector is told and the viewer discounted.
Release(o, to) ==
  /\ phase' = [phase EXCEPT ![o] = to]
  /\ cancelled' = [cancelled EXCEPT ![o] = TRUE]
  /\ viewers' = viewers - 1

MayReserve == ~stopped /\ viewers < ViewerLimit

\* dispatch checks that the helper serves and that the process exists.
Reserve(o) ==
  /\ phase[o] = "free" /\ Idle /\ alive
  /\ MayReserve
  /\ phase' = [phase EXCEPT ![o] = "reserved"]
  /\ viewers' = viewers + 1
  /\ UNCHANGED <<alive, workers, fresh, polling, cancelled, shown, threadVars, mainVars>>

\* capture_target and Sampler::bootstrap: fails when the process is gone,
\* and may fail otherwise.
Capture(o) ==
  /\ phase[o] = "reserved"
  /\ \/ /\ alive
        /\ phase' = [phase EXCEPT ![o] = "captured"]
        /\ UNCHANGED <<viewers, cancelled>>
     \/ Release(o, "refused")
  /\ UNCHANGED <<alive, workers, fresh, polling, shown, threadVars, mainVars>>

Finished == {o \in Observations : thread[o] = "done"}

\* Under the workers mutex: refused when stopping, else finished collectors
\* are reaped and a new one starts; the initial value goes to the client.
Spawn(o) ==
  /\ phase[o] = "captured"
  /\ IF stopped
       THEN Release(o, "refused") /\ UNCHANGED <<workers, thread>>
       ELSE /\ workers' = (workers \ Finished) \cup {o}
            /\ thread' = [thread EXCEPT ![o] = "wait"]
            /\ phase' = [phase EXCEPT ![o] = "open"]
            /\ UNCHANGED <<viewers, cancelled>>
  /\ UNCHANGED <<alive, fresh, polling, shown, sample, exited, mainVars>>

AcceptPoll(o) ==
  /\ phase[o] = "open" /\ Idle /\ ~stopped
  /\ polling' = o
  /\ UNCHANGED <<alive, workers, fresh, viewers, phase, cancelled, shown, threadVars, mainVars>>

\* The sender was dropped.
Dropped(o) == thread[o] = "done"

MutantShow(o) == shown[o] \/ (exited[o] /\ ~Dropped(o))

\* What the client has been shown after a poll that answers with a value.
Show(o) == exited[o]

\* A value not seen, or the end of the channel with its last value; the
\* session is removed when the value says that the process exited, or at
\* the end.
Poll(o) ==
  /\ polling = o
  /\ polling' = Nobody
  /\ IF fresh[o] \/ Dropped(o)
       THEN /\ fresh' = [fresh EXCEPT ![o] = FALSE]
            /\ shown' = [shown EXCEPT ![o] = Show(o)]
            /\ IF Dropped(o) \/ exited[o]
                 THEN Release(o, "ended")
                 ELSE UNCHANGED <<viewers, phase, cancelled>>
       ELSE UNCHANGED <<fresh, shown, viewers, phase, cancelled>>
  /\ UNCHANGED <<alive, workers, threadVars, mainVars>>

\* The client closes the session or its lease expires.
Close(o) ==
  /\ phase[o] = "open" /\ Idle
  /\ Release(o, "closed")
  /\ UNCHANGED <<alive, workers, fresh, polling, shown, threadVars, mainVars>>

-----------------------------------------------------------------------------
(* The collector thread                                                    *)

\* The interval is over or cut short.
Wake(o) ==
  /\ thread[o] = "wait"
  /\ thread' = [thread EXCEPT ![o] =
                  IF stopped \/ cancelled[o] \/ phase[o] # "open" THEN "done" ELSE "capture"]
  /\ UNCHANGED <<alive, workers, fresh, dispatchVars, sample, exited, mainVars>>

MutantCaptureSample(o) ==
  /\ thread[o] = "capture"
  /\ sample' = [sample EXCEPT ![o] = IF alive THEN "ok" ELSE "failed"]
  /\ thread' = [thread EXCEPT ![o] = "publish"]
  /\ UNCHANGED <<alive, workers, fresh, dispatchVars, exited, mainVars>>

\* capture_sample, and for a failure whether the identity is gone; procfs may
\* also fail to tell.
CaptureSample(o) ==
  /\ thread[o] = "capture"
  /\ \E r \in {"ok", "failed", "exited"} :
       /\ r = "ok" => alive
       /\ r = "exited" => ~alive
       /\ sample' = [sample EXCEPT ![o] = r]
  /\ thread' = [thread EXCEPT ![o] = "publish"]
  /\ UNCHANGED <<alive, workers, fresh, dispatchVars, exited, mainVars>>

\* send_replace, whether or not a receiver is left.
Publish(o) ==
  /\ thread[o] = "publish"
  /\ exited' = [exited EXCEPT ![o] = sample[o] = "exited"]
  /\ fresh' = [fresh EXCEPT ![o] = TRUE]
  /\ thread' = [thread EXCEPT ![o] = IF sample[o] = "exited" THEN "exiting" ELSE "wait"]
  /\ UNCHANGED <<alive, workers, dispatchVars, sample, mainVars>>

\* The thread returns and drops the sender.
Return(o) ==
  /\ thread[o] = "exiting"
  /\ thread' = [thread EXCEPT ![o] = "done"]
  /\ UNCHANGED <<alive, workers, fresh, dispatchVars, sample, exited, mainVars>>

-----------------------------------------------------------------------------
(* The main thread                                                         *)

Stop ==
  /\ main = "serving"
  /\ main' = "stopped"
  /\ stopped' = TRUE
  /\ UNCHANGED <<alive, workers, fresh, dispatchVars, threadVars, joining>>

\* join_collectors
TakeHandles ==
  /\ main = "stopped"
  /\ main' = "joining"
  /\ joining' = workers
  /\ workers' = {}
  /\ UNCHANGED <<alive, fresh, dispatchVars, threadVars, stopped>>

Joined ==
  /\ main = "joining" /\ joining \subseteq Finished
  /\ main' = "joined"
  /\ UNCHANGED <<alive, workers, fresh, dispatchVars, threadVars, stopped, joining>>

-----------------------------------------------------------------------------
Dispatch(o) == Reserve(o) \/ Capture(o) \/ Spawn(o) \/ AcceptPoll(o) \/ Poll(o) \/ Close(o)
Collector(o) == Wake(o) \/ CaptureSample(o) \/ Publish(o) \/ Return(o)

Next ==
  \/ Exit
  \/ \E o \in Observations : Dispatch(o) \/ Collector(o)
  \/ Stop \/ TakeHandles \/ Joined

Spec == Init /\ [][Next]_vars

\* Threads run, a client with an open observation goes on polling it, and
\* procfs does not hide for ever that a process is gone.
Fairness ==
  /\ \A o \in Observations :
       /\ WF_vars(Collector(o))
       /\ SF_vars(CaptureSample(o) /\ sample'[o] = "exited")
       /\ WF_vars(Capture(o) \/ Spawn(o) \/ Poll(o))
       /\ SF_vars(AcceptPoll(o))
  /\ WF_vars(TakeHandles) /\ WF_vars(Joined)

FairSpec == Spec /\ Fairness

-----------------------------------------------------------------------------
(* Properties                                                              *)

\* A permit is returned on every path, the failures between reserving and
\* starting the collector included: the viewers counted are the permits.
PermitsCounted == viewers = Cardinality({o \in Observations : phase[o] \in Permit})

\* "Forward it before ending the HTTP observation stream": a stream that the
\* helper ended has shown the exit, unless the helper was stopping; although
\* the channel reports its closure before its last value.
EndShown == \A o \in Observations : phase[o] = "ended" => shown[o] \/ stopped

\* After join_collectors has returned there is no collector, whatever observe
\* was doing on the dispatch thread at the time of the stop.
JoinedQuiet == main = "joined" => \A o \in Observations : thread[o] \in {"none", "done"}

\* ProcessMonitor: permits are counted exactly on every path, a client is shown the
\* exit before its stream ends, and no collector outlives join_collectors.
ProcessViewers == PermitsCounted /\ EndShown /\ JoinedQuiet

\* A collector whose observation ended or was closed stops.
CollectorStops ==
  \A o \in Observations : phase[o] \in {"closed", "ended"} ~> thread[o] = "done"

\* A client that goes on polling sees the stream end after the process exits.
ExitEndsStream ==
  \A o \in Observations : phase[o] = "open" /\ ~alive ~> phase[o] # "open" \/ stopped

=============================================================================
