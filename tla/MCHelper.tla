------------------------------ MODULE MCHelper ------------------------------
(* The helper and what keeps it running, for TLC: the observations of       *)
(* processes, the life cycle of server and helper, and the helper's         *)
(* resolver threads.  `which` says which of them a behaviour is about; the  *)
(* variables of the others stay as they start.                              *)
EXTENDS ProcessMonitor, Sequences

CONSTANTS
  Required, Unneeded, Commands, ConfigFiles, MinBackoff, MaxBackoff, None,
  Ips, Workers, QueueLimit, CacheLimit

VARIABLES
  which,
  options, root, app, caps, sealed, after, sup, helper, private, armed, stop,
  frozen, hello, socket, shutdown, servers, link, backoff, attempts,
  cache, queue, worker

Life == INSTANCE Lifecycle
Dns == INSTANCE ReverseDns

lifeVars == <<options, root, app, caps, sealed, after, sup, helper, private, armed,
              stop, frozen, hello, socket, shutdown, servers, link, backoff, attempts>>
dnsVars == <<cache, queue, worker>>
allVars == <<which, vars, lifeVars, dnsVars>>

-----------------------------------------------------------------------------
Options(listen, agents, allow, token, connect, privacy) ==
  [listen |-> listen, agents |-> agents, allow |-> allow, token |-> token,
   connect |-> connect, privacy |-> privacy]

\* A hub on a public address, with and without leave; an agent; privacy mode.
MCCommands ==
  {Options({}, {"public"}, allow, None, None, FALSE) : allow \in BOOLEAN}
  \cup {Options({"public"}, {}, FALSE, None, "hub", TRUE)}
MCConfigFiles ==
  {Options({}, {}, allow, token, None, FALSE) : allow \in BOOLEAN, token \in {None, "token"}}

OneCommand == options = (CHOOSE o \in Commands \X ConfigFiles : TRUE) /\ root

MCInit ==
  /\ Init /\ Life!Init /\ Dns!Init
  /\ \/ which = "life"
     \/ which \in {"process", "dns"} /\ OneCommand

MCNext ==
  /\ UNCHANGED which
  /\ \/ which = "process" /\ Next /\ UNCHANGED <<lifeVars, dnsVars>>
     \/ which = "life" /\ Life!Next /\ UNCHANGED <<vars, dnsVars>>
     \/ which = "dns" /\ Dns!Next /\ UNCHANGED <<vars, lifeVars>>
     \* Processes may stop for good.
     \/ which \in {"process", "life"} /\ UNCHANGED <<vars, lifeVars, dnsVars>>

\* The fairness of each, where a behaviour is about it.
InProcess == which = "process"
InLife == which = "life"
MCFairness ==
  /\ \A o \in Observations :
       /\ WF_vars(InProcess /\ Collector(o))
       /\ SF_vars(InProcess /\ CaptureSample(o) /\ sample'[o] = "exited")
       /\ WF_vars(InProcess /\ (Capture(o) \/ Spawn(o) \/ Poll(o)))
       /\ SF_vars(InProcess /\ AcceptPoll(o))
  /\ WF_vars(InProcess /\ TakeHandles)
  /\ WF_vars(InProcess /\ Joined)
  /\ WF_lifeVars(InLife /\ Life!AppStep) /\ WF_lifeVars(InLife /\ Life!SupervisorStep)
  /\ WF_lifeVars(InLife /\ Life!HelperStep) /\ WF_lifeVars(InLife /\ Life!Drains)
  /\ WF_lifeVars(InLife /\ Life!LinkStops)
  /\ \A w \in Workers : /\ WF_dnsVars(which = "dns" /\ Dns!Take(w))
                         /\ WF_dnsVars(which = "dns" /\ Dns!Answer(w))

MCSpec == MCInit /\ [][MCNext]_allVars /\ MCFairness

-----------------------------------------------------------------------------
(* Properties                                                              *)

\* A collector stops after its observation, and a client that goes on polling sees
\* the end of a process that exits (ProcessMonitor::observe).
ProcessEnds == CollectorStops /\ ExitEndsStream

\* What is served is served without privileges and with leave (entry.rs,
\* privileges.rs), and no failure to start the helper leaves one behind (launch.rs).
ServesSafely == Life!ServesSafely /\ Life!NoStrayHelper

\* The delay of run_hub_connector doubles with the sessions that end early, within
\* its limits, and starts over after a stable one.
DelayOfAttempts == Life!DelayOfAttempts

\* The helper ends whatever becomes of the server, and a server told to stop does,
\* although the helper hangs or the server is killed before its death signal is set.
BothEnd == Life!HelperEnds /\ Life!ServerStops

\* resolver.rs: an address is asked for once at a time, while lookups of others sweep
\* the cache and a full channel refuses requests.
AskedOnce == Dns!AskedOnce

\* An address waiting for its name gets an answer and can be asked for again.
PendingAnswered == Dns!PendingAnswered
=============================================================================
