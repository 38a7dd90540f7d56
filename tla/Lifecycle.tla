----------------------------- MODULE Lifecycle ------------------------------
(***************************************************************************)
(* The life of the two processes: the server reads its options (entry.rs), *)
(* gives up its capabilities (privileges.rs), starts the helper and greets *)
(* it (launch.rs), serves and stops (server.rs) with a supervisor thread   *)
(* that reaps the helper; the helper checks its parent, keeps only the     *)
(* capabilities it needs, serves and stops (privileged_helper/launch.rs,   *)
(* privileges.rs).  An agent's connector reconnects with backoff           *)
(* (hosts/connector.rs).  Either process may die or be signalled at every  *)
(* step, and the helper may be stopped for good.                           *)
(***************************************************************************)
EXTENDS Naturals, FiniteSets

CONSTANTS
  Required,     \* the capabilities the helper keeps
  Unneeded,     \* the others
  Commands,     \* command lines
  ConfigFiles,  \* config files
  MinBackoff,   \* 1 s in the code
  MaxBackoff,   \* 30 s
  None          \* an absent option

VARIABLES
  options,     \* the command line and the config file, then what they mean
  root,        \* started by root, or by a user with a capable helper binary
  app,         \* how far the server is
  caps,        \* the capabilities of each process
  sealed,      \* the processes with no_new_privs
  after,       \* what the server does once the helper is reaped
  sup,         \* the helper-supervisor thread
  helper,      \* how far the helper is
  private,     \* the helper refuses to read memory and environments
  armed,       \* its parent's death sends it SIGTERM
  stop,        \* its STOP flag
  frozen,      \* it was stopped and does not run again
  hello,       \* its HelperIdentity is on the socket
  socket,      \* the socket pair: open, or shut down by one end
  shutdown,    \* the shutdown watch of the server's tasks
  servers,     \* HTTP connections are being served
  link,        \* run_hub_connector
  backoff,     \* its backoff
  attempts     \* how often it slept since a stable session or the start, up to MaxBackoff

appVars    == <<options, root, app, after, sup, shutdown, servers>>
helperVars == <<helper, private, armed, stop, frozen, hello>>
linkVars   == <<link, backoff, attempts>>
vars == <<appVars, helperVars, linkVars, caps, sealed, socket>>

All == Required \cup Unneeded
Gone(state) == state \in {"exited", "crashed"}
NoHelper == helper \in {"none", "exited"}

-----------------------------------------------------------------------------
(* Options: entry.rs                                                       *)

Or(cli, config) == IF cli = None THEN config ELSE cli
\* merge_cli_configuration: a list on the command line replaces the file's; a
\* switch is on when either sets it.
Merged(cli, config) ==
  [listen  |-> LET given == IF cli.listen = {} THEN config.listen ELSE cli.listen
               IN  IF given = {} THEN {"loopback"} ELSE given,
   agents  |-> IF cli.agents = {} THEN config.agents ELSE cli.agents,
   allow   |-> cli.allow \/ config.allow,
   token   |-> Or(cli.token, config.token),
   connect |-> Or(cli.connect, config.connect),
   privacy |-> cli.privacy \/ config.privacy]

\* run_application: other addresses than loopback on request, agents on them
\* with a token.
Allowed(o) == /\ o.listen \subseteq {"loopback"} \/ o.allow
              /\ o.agents \subseteq {"loopback"} \/ (o.allow /\ o.token # None)
RunApplication ==
  /\ app = "entry"
  /\ LET merged == Merged(options[1], options[2])
     IN  /\ options' = merged
         /\ app' = IF Allowed(merged) THEN "launch" ELSE "exited"
  /\ UNCHANGED <<root, after, sup, shutdown, servers, helperVars, linkVars, caps, sealed, socket>>

-----------------------------------------------------------------------------
(* The server: launch.rs, server.rs                                        *)

\* close_inherited, drop_application_capabilities
DropsCapabilities ==
  /\ app = "launch"
  /\ caps' = [caps EXCEPT !.app = {}]
  /\ app' = "dropped"
  /\ UNCHANGED <<options, root, after, sup, shutdown, servers, helperVars, linkVars, sealed, socket>>

\* What the kernel gives the helper: its file's capabilities, or all of root's;
\* no new ones once no_new_privs is set.
ExecCaps == IF "app" \in sealed THEN caps.app ELSE IF root THEN All ELSE Required
Spawns ==
  /\ app = "dropped"
  /\ \/ /\ app' = "spawned" /\ helper' = "exec" /\ socket' = "open"
        /\ caps' = [caps EXCEPT !.helper = ExecCaps]
        /\ sealed' = IF "app" \in sealed THEN sealed \cup {"helper"} ELSE sealed
        /\ private' = options.privacy
     \/ app' = "unconnected" /\ UNCHANGED <<helper, socket, caps, sealed, private>>
  /\ UNCHANGED <<options, root, after, sup, shutdown, servers, armed, stop, frozen, hello, linkVars>>

\* The helper's greeting arrives; its process id is the child's.
Greeted ==
  /\ app = "spawned" /\ hello
  /\ app' = "connected"
  /\ UNCHANGED <<options, root, after, sup, shutdown, servers, helperVars, linkVars, caps, sealed, socket>>

\* HelperGuard is dropped: the helper is reaped before the server goes on.
Failed == app' = "reaping" /\ after' = "unconnected"
\* The socket was closed, or five seconds passed without a greeting.
NotGreeted ==
  /\ app = "spawned"
  /\ Failed
  /\ socket' = "closed"
  /\ UNCHANGED <<options, root, sup, shutdown, servers, helperVars, linkVars, caps, sealed>>

\* HelperGuard::drop: wait for the helper; after ten seconds kill it.
Killed == helper' = "exited" /\ caps' = [caps EXCEPT !.helper = {}]
Reaps ==
  /\ app = "reaping"
  /\ \/ NoHelper /\ UNCHANGED <<helper, caps>>
     \/ ~NoHelper /\ Killed
  /\ app' = after
  /\ UNCHANGED <<options, root, after, sup, shutdown, servers, private, armed, stop, frozen, hello,
                 linkVars, sealed, socket>>

\* seal_application, MonitorClient::new and HelperSupervisor::new; when one
\* fails, the guard is dropped on the way out.
Seals ==
  /\ app \in {"connected", "unconnected"}
  /\ \/ /\ sealed' = sealed \cup {"app"}
        /\ sup' = IF app = "connected" THEN "watch" ELSE sup
        /\ app' = "sealed"
        /\ UNCHANGED <<after, socket>>
     \/ /\ app' = "reaping" /\ after' = "exited" /\ socket' = "closed"
        /\ UNCHANGED <<sealed, sup>>
  /\ UNCHANGED <<options, root, shutdown, servers, helperVars, linkVars, caps>>

\* serve_http_requests: every address is bound before anything is served.
Binds ==
  /\ app = "sealed"
  /\ \/ /\ app' = "serving" /\ servers' = TRUE
        /\ link' = IF options.connect # None THEN "session" ELSE link
     \/ app' = "returned" /\ UNCHANGED <<servers, link>>
  /\ UNCHANGED <<options, root, after, sup, shutdown, helperVars, backoff, attempts, caps, sealed, socket>>

\* SIGINT, SIGTERM or a listener that failed
Stops ==
  /\ app = "serving"
  /\ app' = "stopping" /\ shutdown' = TRUE
  /\ UNCHANGED <<options, root, after, sup, servers, helperVars, linkVars, caps, sealed, socket>>

LinksJoined ==
  /\ app = "stopping" /\ link \in {"none", "returned"}
  /\ app' = "draining"
  /\ UNCHANGED <<options, root, after, sup, shutdown, servers, helperVars, linkVars, caps, sealed, socket>>

\* The streams see AppState::stopped; the last connection ends.
Drains ==
  /\ shutdown /\ servers /\ ~Gone(app)
  /\ servers' = FALSE
  /\ UNCHANGED <<options, root, app, after, sup, shutdown, helperVars, linkVars, caps, sealed, socket>>

ServersJoined ==
  /\ app = "draining" /\ ~servers
  /\ app' = "returned"
  /\ UNCHANGED <<options, root, after, sup, shutdown, servers, helperVars, linkVars, caps, sealed, socket>>

\* HelperSupervisor::drop joins the thread.
Exits ==
  /\ app = "returned" /\ sup \in {"none", "done"}
  /\ app' = "exited"
  /\ UNCHANGED <<options, root, after, sup, shutdown, servers, helperVars, linkVars, caps, sealed, socket>>

\* The supervisor sees the helper exit or the server stop, and drops its guard.
Supervises ==
  /\ ~Gone(app)
  /\ sup = "watch" /\ (NoHelper \/ app = "returned")
  /\ sup' = "waiting" /\ socket' = "closed"
  /\ UNCHANGED <<options, root, app, after, shutdown, servers, helperVars, linkVars, caps, sealed>>

GuardDrops == \/ NoHelper /\ UNCHANGED <<helper, caps>>
              \/ ~NoHelper /\ Killed
SupervisorReaps ==
  /\ ~Gone(app)
  /\ sup = "waiting"
  /\ GuardDrops
  /\ sup' = "done"
  /\ UNCHANGED <<options, root, app, after, shutdown, servers, private, armed, stop, frozen, hello,
                 linkVars, sealed, socket>>

-----------------------------------------------------------------------------
(* Death and signals                                                       *)

\* The server is killed: its threads and its end of the socket go with it.
Crashes ==
  /\ ~Gone(app)
  /\ app' = "crashed" /\ sup' = "none" /\ socket' = "closed" /\ servers' = FALSE
  /\ link' = "none"
  /\ stop' = (stop \/ armed)
  /\ UNCHANGED <<options, root, after, shutdown, helper, private, armed, frozen, hello, backoff, attempts,
                 caps, sealed>>

\* SIGINT or SIGTERM to the helper: fatal until its handlers are installed.
Handles == helper \in {"handling", "armed", "greeted", "serving", "stopping", "joined"}
HelperSignalled ==
  /\ ~NoHelper /\ ~frozen /\ ~stop
  /\ IF Handles THEN stop' = TRUE /\ UNCHANGED <<helper, caps, socket>>
                ELSE Killed /\ socket' = "closed" /\ UNCHANGED stop
  /\ UNCHANGED <<appVars, private, armed, frozen, hello, linkVars, sealed>>

HelperDies ==
  /\ ~NoHelper
  /\ Killed /\ socket' = "closed"
  /\ UNCHANGED <<appVars, private, armed, stop, frozen, hello, linkVars, sealed>>

\* SIGSTOP
HelperStopped ==
  /\ ~NoHelper /\ ~frozen
  /\ frozen' = TRUE
  /\ UNCHANGED <<appVars, helper, private, armed, stop, hello, linkVars, caps, sealed, socket>>

-----------------------------------------------------------------------------
(* The helper: privileged_helper/launch.rs                                 *)

HelperRuns == ~NoHelper /\ ~frozen
ParentAlive == ~Gone(app)
\* Returning with an error: the process ends and its end of the socket closes.
Leaves == Killed /\ socket' = "closed"
Stays == UNCHANGED <<caps, socket>>

\* The peer of the socket, the parent asked for and the parent are one process.
ChecksParent ==
  /\ HelperRuns /\ helper = "exec"
  /\ IF ParentAlive THEN helper' = "checked" /\ Stays ELSE Leaves
  /\ UNCHANGED <<appVars, private, armed, stop, frozen, hello, linkVars, sealed>>

\* Mutant: the capabilities are only taken out of the effective set.
MutantRestricted(c) == c
\* restrict_helper_privileges: permitted and effective are cut to the mask.
Restricted(c) == c \cap Required
Restricts ==
  /\ HelperRuns /\ helper = "checked"
  /\ \/ /\ helper' = "restricted" /\ socket' = socket
        /\ caps' = [caps EXCEPT !.helper = Restricted(@)]
        /\ sealed' = sealed \cup {"helper"}
     \/ Leaves /\ UNCHANGED sealed
  /\ UNCHANGED <<appVars, private, armed, stop, frozen, hello, linkVars>>

InstallsHandlers ==
  /\ HelperRuns /\ helper = "restricted"
  /\ helper' = "handling" /\ Stays
  /\ UNCHANGED <<appVars, private, armed, stop, frozen, hello, linkVars, sealed>>

\* PR_SET_PDEATHSIG says nothing of a parent that is gone: it is looked at again.
Arms ==
  /\ HelperRuns /\ helper = "handling"
  /\ helper' = "armed" /\ armed' = TRUE /\ Stays
  /\ UNCHANGED <<appVars, private, stop, frozen, hello, linkVars, sealed>>
ChecksAgain ==
  /\ HelperRuns /\ helper = "armed"
  /\ IF ParentAlive THEN helper' = "greeted" /\ Stays ELSE Leaves
  /\ UNCHANGED <<appVars, private, armed, stop, frozen, hello, linkVars, sealed>>

\* HelperIdentity is sent, and the IPC thread started.
Greets ==
  /\ HelperRuns /\ helper = "greeted"
  /\ IF socket = "open" THEN helper' = "serving" /\ hello' = TRUE /\ Stays
                        ELSE Leaves /\ UNCHANGED hello
  /\ UNCHANGED <<appVars, private, armed, stop, frozen, linkVars, sealed>>

\* The loop ends on the flag or a hangup, or when the IPC thread has ended; the
\* collectors are told to stop and the socket is shut down.
Stopping ==
  /\ helper' = "stopping" /\ socket' = "closed"
  /\ UNCHANGED <<appVars, private, armed, stop, frozen, hello, linkVars, caps, sealed>>
LoopEnds == HelperRuns /\ helper = "serving" /\ (stop \/ socket = "closed") /\ Stopping
IpcThreadEnds == HelperRuns /\ helper = "serving" /\ ~stop /\ socket = "open" /\ Stopping

\* The collectors end; one that hangs in the kernel may not.
CollectorsEnd ==
  /\ HelperRuns /\ helper = "stopping"
  /\ helper' = "joined" /\ Stays
  /\ UNCHANGED <<appVars, private, armed, stop, frozen, hello, linkVars, sealed>>

\* Mutant: no deadline.
MutantJoins == helper = "joined"
\* recv_timeout: the collectors are joined, or five seconds pass.
Joins == helper \in {"stopping", "joined"}
HelperEndsItself ==
  /\ HelperRuns /\ Joins
  /\ Leaves
  /\ UNCHANGED <<appVars, private, armed, stop, frozen, hello, linkVars, sealed>>

-----------------------------------------------------------------------------
(* The agent's connector: run_hub_connector                                *)

\* Mutant: a stable session does not reset the backoff.
MutantReset(stable) == backoff
Reset(stable) == IF stable THEN MinBackoff ELSE backoff
Doubled(b) == IF 2 * b < MaxBackoff THEN 2 * b ELSE MaxBackoff
SessionEnds(stable) ==
  /\ ~Gone(app) /\ link = "session"
  /\ link' = "sleep"
  /\ backoff' = Reset(stable)
  /\ attempts' = IF stable THEN 0 ELSE attempts
  /\ UNCHANGED <<appVars, helperVars, caps, sealed, socket>>
Wakes ==
  /\ ~Gone(app) /\ link = "sleep"
  /\ link' = "session"
  /\ backoff' = Doubled(backoff)
  /\ attempts' = IF attempts < MaxBackoff THEN attempts + 1 ELSE attempts
  /\ UNCHANGED <<appVars, helperVars, caps, sealed, socket>>
LinkStops ==
  /\ ~Gone(app) /\ shutdown /\ link \in {"session", "sleep"}
  /\ link' = "returned"
  /\ UNCHANGED <<appVars, helperVars, backoff, attempts, caps, sealed, socket>>

-----------------------------------------------------------------------------
Init ==
  /\ options \in Commands \X ConfigFiles
  /\ root \in BOOLEAN
  /\ app = "entry" /\ after = "exited" /\ sup = "none"
  /\ caps = [app |-> IF root THEN All ELSE {}, helper |-> {}]
  /\ sealed = {}
  /\ helper = "none" /\ private = FALSE /\ armed = FALSE /\ stop = FALSE /\ frozen = FALSE /\ hello = FALSE
  /\ socket = "closed" /\ shutdown = FALSE /\ servers = FALSE
  /\ link = "none" /\ backoff = MinBackoff /\ attempts = 0

AppStep == \/ RunApplication \/ DropsCapabilities \/ Spawns \/ Greeted \/ NotGreeted \/ Reaps \/ Seals
           \/ Binds \/ LinksJoined \/ ServersJoined \/ Exits
SupervisorStep == Supervises \/ SupervisorReaps
HelperStep == \/ ChecksParent \/ Restricts \/ InstallsHandlers \/ Arms \/ ChecksAgain \/ Greets
              \/ LoopEnds \/ HelperEndsItself
Environment == \/ Stops \/ Crashes \/ HelperSignalled \/ HelperDies \/ HelperStopped
               \/ IpcThreadEnds \/ CollectorsEnd
               \/ \E stable \in BOOLEAN : SessionEnds(stable)
               \/ Wakes

Next == AppStep \/ SupervisorStep \/ HelperStep \/ Environment \/ Drains \/ LinkStops

\* The threads of both processes are scheduled; deadlines pass; the HTTP
\* connections end once the streams see the stop.
Fairness == /\ WF_vars(AppStep) /\ WF_vars(SupervisorStep) /\ WF_vars(HelperStep)
            /\ WF_vars(Drains) /\ WF_vars(LinkStops)

Spec == Init /\ [][Next]_vars /\ Fairness

-----------------------------------------------------------------------------
(* Properties                                                              *)

\* While anything is served, the server has no capabilities and can gain
\* none, the helper only the ones it needs, the helper knows of privacy mode,
\* and agents reach a public address with permission and a token only
\* (entry.rs, privileges.rs, launch.rs).
Serving == app \in {"serving", "stopping", "draining"}
ServesSafely ==
  /\ Serving => /\ caps.app = {} /\ "app" \in sealed
                /\ (options.agents \subseteq {"loopback"} \/ (options.allow /\ options.token # None))
                /\ ~NoHelper => private = options.privacy
  /\ helper \in {"serving", "stopping", "joined"} => (caps.helper \subseteq Required /\ "helper" \in sealed)

\* A server that has no supervisor thread for it, or that has exited, leaves no
\* helper behind, however starting it failed (HelperGuard, HelperSupervisor).
NoStrayHelper == (Serving /\ sup = "none") \/ app = "exited" => NoHelper

\* The delay before the next session doubles with every session that ended
\* early, within its limits, and starts over after a stable one
\* (run_hub_connector).
Twice[n \in Nat] == IF n = 0 THEN MinBackoff ELSE 2 * Twice[n - 1]
DelayOfAttempts ==
  link = "sleep" => backoff = IF Twice[attempts] < MaxBackoff THEN Twice[attempts] ELSE MaxBackoff

\* Whatever becomes of the server, its helper ends, unless it was stopped by
\* somebody else (PR_SET_PDEATHSIG, the hangup and the join deadline).
HelperEnds == Gone(app) ~> (NoHelper \/ frozen)

\* A server told to stop does, even when its helper hangs (HelperGuard::drop).
ServerStops == shutdown ~> Gone(app)
=============================================================================
