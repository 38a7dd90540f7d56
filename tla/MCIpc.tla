-------------------------------- MODULE MCIpc --------------------------------
(* The requests to the helper and the monitor that serves the system's      *)
(* viewers, for TLC: `which` says which of them a behaviour is about; the   *)
(* variables of the other stay as they start.                               *)
EXTENDS MonitorIpc, TLC

CONSTANTS Subscribers, ViewerLimit, Capacity, MaxSnapshots, MaxEvents

VARIABLES
  which,
  viewers, halted, latest, sent, held, cursor, view, call, snapper, collected,
  activity, sensors, main, joining

System == INSTANCE SystemMonitor WITH stopped <- halted

systemVars == <<viewers, halted, latest, sent, held, cursor, view, call, snapper,
                collected, activity, sensors, main, joining>>

MCInit == which \in {"ipc", "system"} /\ Init /\ System!Init

MCNext ==
  /\ UNCHANGED which
  /\ \/ which = "ipc" /\ Next /\ UNCHANGED systemVars
     \/ which = "system" /\ System!Next /\ UNCHANGED vars

\* The fairness of each, where a behaviour is about it.
InIpc == which = "ipc"
IpcFairness ==
  /\ WF_vars(InIpc /\ Worker)
  /\ WF_vars(InIpc /\ ~open /\ toMain = <<>> /\ helper = "gone" /\ ReadFails)
  /\ WF_vars(InIpc /\ (Expire \/ Take))
  /\ WF_vars(InIpc /\ Dispatch)
  /\ WF_vars(InIpc /\ ReplyFails)
  /\ WF_vars(InIpc /\ ~open /\ toHelper = <<>> /\ HelperEnds)
  /\ \A t \in Streams : WF_vars(InIpc /\ mode[t] = "ending" /\ Drop(t))
InSystem == which = "system"
SystemFairness ==
  /\ WF_systemVars(InSystem /\ \E s \in Subscribers :
                     System!Register(s) \/ System!ReadInitial(s) \/ System!Poll(s))
  /\ WF_systemVars(InSystem /\ System!SendSnapshot)
  /\ WF_systemVars(InSystem /\ System!WriteSnapshot)
  /\ WF_systemVars(InSystem /\ System!SnapperEnds)
  /\ SF_systemVars(InSystem /\ System!CheckActivity)
  /\ WF_systemVars(InSystem /\ System!SkipActivity)
  /\ WF_systemVars(InSystem /\ System!ActivityEnds)
  /\ SF_systemVars(InSystem /\ System!Stop)
  /\ WF_systemVars(InSystem /\ System!TakeWorkers)
  /\ WF_systemVars(InSystem /\ System!Joined)

MCSpec == MCInit /\ [][MCNext]_<<which, vars, systemVars>> /\ IpcFairness /\ SystemFairness

-----------------------------------------------------------------------------
(* Properties                                                              *)

\* Every request to the helper ends, when the connection breaks too, and a session
\* whose stream went away without a Close ends with its lease (helper_service.rs).
RequestsEnd == RequestSettles /\ AbandonedReleased

\* SystemMonitor: viewers are counted exactly, a subscriber that read all it was sent
\* is at most one snapshot behind, and no worker outlives join_workers.
SystemViewers == System!SystemViewers

\* The sensors are released after the last viewer leaves, and a stop is not held up
\* by a worker (SystemMonitor::stop, join_workers).
SystemReleases == System!SensorsReleased /\ System!StopJoins
=============================================================================
