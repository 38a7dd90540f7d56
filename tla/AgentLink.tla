----------------------------- MODULE AgentLink ------------------------------
(***************************************************************************)
(* One link between a hub and an agent, from the handshake to its end: the *)
(* hub's AgentLink with its table of pending requests (hosts/link.rs), the *)
(* relay loop (hosts/listener.rs), and the agent's session loop with one   *)
(* task per request (hosts/connector.rs).  The agent's own client and      *)
(* helper answer a request in one step, and fail before it has an effect;  *)
(* MonitorIpc models what happens between them, late failures included.    *)
(* Requests are numbered from 1.                                           *)
(***************************************************************************)
EXTENDS Naturals, Sequences, FiniteSets, Functions

CONSTANTS
  Callers,       \* the hub's handlers and streams that use the link
  PendingLimit,  \* PENDING_LIMIT, 64 in the code
  OutCapacity,   \* capacity of the outgoing channel, PENDING_LIMIT + 8
  Permits,       \* CONCURRENT_REQUESTS, 64 in the code
  Adverse,       \* what else may happen: "timeout" (the hub's deadline of a
                 \* request passes), "stray" (the hub asks for a session that
                 \* it never started)
  MaxRequests    \* bound on the requests sent in one behaviour

VARIABLES
  mode, waiting, owns, seen,  \* callers, as in MonitorIpc
  next,          \* AgentLink.next
  pending,       \* ids in AgentLink.pending
  hub,           \* the relay loop: "run" or "ended" (pending is None then)
  outq,          \* the outgoing channel
  conn,          \* the TCP connection is usable
  toAgent, toHub,
  agent,         \* run_agent_session: "run" or "ended"
  tasks,         \* spawned answer tasks, each holding a permit
  linkSessions,  \* Sessions of this link
  helper,        \* observation sessions alive in the agent's helper
  nextSession

callerVars == <<mode, waiting, owns, seen>>
hubVars    == <<next, pending, hub, outq>>
netVars    == <<conn, toAgent, toHub>>
agentVars  == <<agent, tasks, linkSessions, helper, nextSession>>
vars == <<callerVars, hubVars, netVars, agentVars>>

\* A session of the agent's own viewers, polled by them all the time.
OwnSession == 1

Modes   == {"idle", "reading", "observing", "open", "polling", "ending"}
Waiting == {"reading", "observing", "polling"}
Ops     == {"read", "observe", "poll", "close"}
Kinds   == {"data", "started", "event", "end", "closed", "error"}
Request  == [id : Nat, op : Ops, session : Nat]
Response == [id : Nat, kind : Kinds, session : Nat]
Task     == [req : Request, phase : {"check", "ask", "refused", "reply"}, kind : Kinds, session : Nat]

\* The shape of the state: the pending table, the outgoing channel and the
\* agent's permits within their limits.
TypeOK ==
  /\ mode \in [Callers -> Modes]
  /\ waiting \in [Callers -> Nat]
  /\ owns \in [Callers -> Nat] /\ seen \in [Callers -> Nat]
  /\ next \in Nat
  /\ pending \subseteq 1..next /\ Cardinality(pending) <= PendingLimit
  /\ hub \in {"run", "ended"}
  /\ outq \in Seq(Request) /\ Len(outq) <= OutCapacity
  /\ conn \in BOOLEAN
  /\ toAgent \in Seq(Request) /\ toHub \in Seq(Response)
  /\ agent \in {"run", "ended"}
  /\ tasks \subseteq Task /\ Cardinality(tasks) <= Permits
  /\ linkSessions \subseteq Nat /\ helper \subseteq Nat
  /\ nextSession \in Nat

Init ==
  /\ mode = [t \in Callers |-> "idle"]
  /\ waiting = [t \in Callers |-> 0]
  /\ owns = [t \in Callers |-> 0]
  /\ seen = [t \in Callers |-> 0]
  /\ next = 0 /\ pending = {} /\ hub = "run" /\ outq = <<>>
  /\ conn = TRUE /\ toAgent = <<>> /\ toHub = <<>>
  /\ agent = "run" /\ tasks = {} /\ linkSessions = {}
  /\ helper = {OwnSession} /\ nextSession = OwnSession

-----------------------------------------------------------------------------
(* AgentLink, the hub's handle                                             *)

FailedMode(m) == IF m = "polling" THEN "ending" ELSE "idle"

\* try_send on the outgoing channel, whose receiver ends with the relay loop.
CanQueue == hub = "run" /\ Len(outq) < OutCapacity

Message(op, s) == [id |-> next + 1, op |-> op, session |-> s]

\* request: registered as pending, then queued; forgotten when not queued.
Exchange(t, op, during) ==
  /\ next < MaxRequests
  /\ next' = next + 1
  /\ IF hub = "run" /\ Cardinality(pending) < PendingLimit /\ CanQueue
       THEN /\ pending' = pending \cup {next + 1}
            /\ outq' = Append(outq, Message(op, owns[t]))
            /\ waiting' = [waiting EXCEPT ![t] = next + 1]
            /\ mode' = [mode EXCEPT ![t] = during]
       ELSE /\ mode' = [mode EXCEPT ![t] = FailedMode(during)]
            /\ UNCHANGED <<pending, outq, waiting>>
  /\ UNCHANGED <<owns, seen, hub, netVars, agentVars>>

Read(t)    == mode[t] = "idle" /\ Exchange(t, "read", "reading")
Observe(t) == mode[t] = "idle" /\ Exchange(t, "observe", "observing")
Poll(t)    == mode[t] = "open" /\ Exchange(t, "poll", "polling")

\* REQUEST_TIMEOUT: the request is forgotten, the link stays.
TimeOut(t) ==
  /\ "timeout" \in Adverse /\ mode[t] \in Waiting
  /\ pending' = pending \ {waiting[t]}
  /\ waiting' = [waiting EXCEPT ![t] = 0]
  /\ mode' = [mode EXCEPT ![t] = FailedMode(mode[t])]
  /\ UNCHANGED <<owns, seen, next, hub, outq, netVars, agentVars>>

\* A caller is dropped: its pending entry stays until the response comes;
\* its session is closed without waiting (close_session).
Drop(t) ==
  /\ mode[t] # "idle"
  /\ mode' = [mode EXCEPT ![t] = "idle"]
  /\ waiting' = [waiting EXCEPT ![t] = 0]
  /\ owns' = [owns EXCEPT ![t] = 0]
  /\ seen' = [seen EXCEPT ![t] = 0]
  /\ IF owns[t] # 0
       THEN /\ next' = next + 1
            /\ outq' = IF CanQueue THEN Append(outq, Message("close", owns[t])) ELSE outq
       ELSE UNCHANGED <<next, outq>>
  /\ UNCHANGED <<pending, hub, netVars, agentVars>>

\* A hub that asks for a session the link never started.
Stray(op) ==
  /\ "stray" \in Adverse /\ next < MaxRequests /\ CanQueue
  /\ next' = next + 1
  /\ outq' = Append(outq, Message(op, OwnSession))
  /\ UNCHANGED <<callerVars, pending, hub, netVars, agentVars>>

\* The writing task of relay_agent_messages.
HubWrite ==
  /\ hub = "run" /\ conn /\ outq # <<>>
  /\ toAgent' = Append(toAgent, Head(outq))
  /\ outq' = Tail(outq)
  /\ UNCHANGED <<callerVars, next, pending, hub, conn, toHub, agentVars>>

Answered(m, kind) ==
  CASE m = "observing" /\ kind = "started" -> "open"
    [] m = "polling" /\ kind = "event"     -> "open"
    [] OTHER                               -> FailedMode(m)

\* The pending request a response belongs to; 0 when it has been forgotten.
Matching(r) == IF r.id \in pending THEN r.id ELSE 0

\* complete
HubReceive ==
  /\ hub = "run" /\ toHub # <<>>
  /\ toHub' = Tail(toHub)
  /\ LET r == Head(toHub)
         mine(t) == waiting[t] # 0 /\ waiting[t] = Matching(r)
     IN /\ pending' = pending \ {Matching(r)}
        /\ mode' = [t \in Callers |->
                     IF mine(t) THEN Answered(mode[t], r.kind) ELSE mode[t]]
        /\ owns' = [t \in Callers |->
                     IF mine(t) /\ mode[t] = "observing" /\ r.kind = "started"
                       THEN r.session ELSE owns[t]]
        /\ seen' = [t \in Callers |->
                     IF mine(t) /\ mode[t] \in {"observing", "polling"}
                         /\ r.kind \in {"started", "event", "end"}
                       THEN r.session ELSE seen[t]]
        /\ waiting' = [t \in Callers |-> IF mine(t) THEN 0 ELSE waiting[t]]
  /\ UNCHANGED <<next, hub, outq, conn, toAgent, agentVars>>

\* The relay loop ends (connection lost, idle, replaced) and serve_agent
\* closes the link: every waiter fails, and nobody reads what has arrived.
HubEnds ==
  /\ hub = "run"
  /\ hub' = "ended"
  /\ conn' = FALSE
  /\ pending' = {}
  /\ outq' = <<>> /\ toHub' = <<>>
  /\ waiting' = [t \in Callers |-> 0]
  /\ mode' = [t \in Callers |-> IF waiting[t] # 0 THEN FailedMode(mode[t]) ELSE mode[t]]
  /\ UNCHANGED <<owns, seen, next, toAgent, agentVars>>

-----------------------------------------------------------------------------
(* run_agent_session                                                       *)

\* The link ends on the agent's side: its sessions are drained and closed;
\* the spawned tasks run on.
EndAgent ==
  /\ agent' = "ended"
  /\ conn' = FALSE
  /\ toAgent' = <<>>
  /\ linkSessions' = {}
  /\ helper' = helper \ linkSessions
  /\ UNCHANGED <<callerVars, hubVars, toHub, tasks, nextSession>>

\* The connection fails, or nothing arrives for IDLE_TIMEOUT.
AgentEnds == agent = "run" /\ EndAgent

\* A request starts a task with a permit; without one the link ends.
Spawn ==
  /\ agent = "run" /\ toAgent # <<>>
  /\ IF Cardinality(tasks) < Permits
       THEN /\ toAgent' = Tail(toAgent)
            /\ tasks' = tasks \cup {[req |-> Head(toAgent), phase |-> "check",
                                    kind |-> "error", session |-> 0]}
            /\ UNCHANGED <<callerVars, hubVars, conn, toHub, agent, linkSessions,
                           helper, nextSession>>
       ELSE EndAgent

MutantCheck(k) ==
  /\ k \in tasks /\ k.phase = "check"
  /\ tasks' = (tasks \ {k}) \cup {[k EXCEPT !.phase = "ask"]}
  /\ UNCHANGED <<callerVars, hubVars, netVars, agent, linkSessions, helper, nextSession>>

\* answer_monitor_request refuses sessions the link did not start.
Check(k) ==
  /\ k \in tasks /\ k.phase = "check"
  /\ LET foreign == k.req.op \in {"poll", "close"} /\ k.req.session \notin linkSessions
     IN tasks' = (tasks \ {k}) \cup {[k EXCEPT !.phase = IF foreign THEN "refused" ELSE "ask"]}
  /\ UNCHANGED <<callerVars, hubVars, netVars, agent, linkSessions, helper, nextSession>>

\* client.request: the helper's effect and its answer.
Answer(k, kind, s) == tasks' = (tasks \ {k}) \cup
                        {[k EXCEPT !.phase = "reply", !.kind = kind, !.session = s]}

Ask(k) ==
  /\ k \in tasks /\ k.phase = "ask"
  /\ \/ k.req.op = "read" /\ Answer(k, "data", 0) /\ UNCHANGED <<helper, nextSession>>
     \/ /\ k.req.op = "observe"
        /\ helper' = helper \cup {nextSession + 1}
        /\ nextSession' = nextSession + 1
        /\ Answer(k, "started", nextSession + 1)
     \/ /\ k.req.op = "poll" /\ k.req.session \in helper
        /\ Answer(k, "event", k.req.session)
        /\ UNCHANGED <<helper, nextSession>>
     \/ /\ k.req.op = "poll" /\ k.req.session \in helper
        /\ Answer(k, "end", k.req.session)
        /\ helper' = helper \ {k.req.session}
        /\ UNCHANGED nextSession
     \/ /\ k.req.op = "close"
        /\ Answer(k, "closed", 0)
        /\ helper' = helper \ {k.req.session}
        /\ UNCHANGED nextSession
     \/ Answer(k, "error", 0) /\ UNCHANGED <<helper, nextSession>>
  /\ UNCHANGED <<callerVars, hubVars, netVars, agent, linkSessions>>

MutantUpdated(k) == linkSessions

\* Sessions::update
Updated(k) ==
  (linkSessions \cup (IF k.kind = "started" THEN {k.session} ELSE {}))
    \ (IF k.req.op = "close" \/ (k.req.op = "poll" /\ k.kind \in {"end", "error"})
         THEN {k.req.session} ELSE {})

\* The task updates the link's sessions unless it refused the request, sends
\* the response and drops its permit.
Reply(k) ==
  /\ k \in tasks /\ k.phase \in {"refused", "reply"}
  /\ tasks' = tasks \ {k}
  /\ linkSessions' = IF k.phase = "reply" THEN Updated(k) ELSE linkSessions
  /\ toHub' = IF agent = "run" /\ conn
                THEN Append(toHub, [id |-> k.req.id, kind |-> k.kind, session |-> k.session])
                ELSE toHub
  /\ UNCHANGED <<callerVars, hubVars, conn, toAgent, agent, helper, nextSession>>

\* The helper's lease of a session that is not polled.
Expire(s) ==
  /\ s \in helper \ {OwnSession}
  /\ helper' = helper \ {s}
  /\ UNCHANGED <<callerVars, hubVars, netVars, agent, tasks, linkSessions, nextSession>>

\* The network fails.
ConnectionLost ==
  /\ conn
  /\ conn' = FALSE
  /\ UNCHANGED <<callerVars, hubVars, toAgent, toHub, agentVars>>

-----------------------------------------------------------------------------
TaskStep(k) == Check(k) \/ Ask(k) \/ Reply(k)

Next ==
  \/ \E t \in Callers : Read(t) \/ Observe(t) \/ Poll(t) \/ TimeOut(t) \/ Drop(t)
  \/ \E op \in {"poll", "close"} : Stray(op)
  \/ HubWrite \/ HubReceive \/ HubEnds
  \/ Spawn \/ AgentEnds
  \/ \E k \in tasks : TaskStep(k)
  \/ \E s \in helper : Expire(s)
  \/ ConnectionLost

Spec == Init /\ [][Next]_vars

-----------------------------------------------------------------------------
(* Properties                                                              *)

\* "Responses may arrive out of order": a caller forwards events of its own
\* session only and no two callers own one session, although responses
\* overtake each other and late ones meet forgotten requests.
CallersSeparated ==
  /\ \A t \in Callers : seen[t] \in {0, owns[t]}
  /\ \A t, u \in Callers : t # u /\ owns[t] = owns[u] => owns[t] = 0

\* "Never those of its own viewers": whatever a hub asks, a session of the
\* agent's own viewers is never closed by the link.
OwnViewersSafe == OwnSession \in helper

\* A session the hub has been given and goes on polling is one the link
\* recorded, so that its polls and its close are let through.
OpenSessionsRecorded ==
  \A t \in Callers :
    mode[t] = "open" /\ agent = "run" => owns[t] \in linkSessions

\* No request is lost inside a link that is up: each pending entry has its
\* message, its task or its response still on the way to complete, so that an
\* entry whose caller was dropped does not occupy the table for ever.
PendingTracked ==
  hub = "run" /\ conn =>
    pending \subseteq {m.id : m \in Range(outq) \cup Range(toAgent) \cup Range(toHub)}
                      \cup {k.req.id : k \in tasks}

\* The link of an agent: a caller sees replies and events of its own requests and
\* sessions only, and the agent's own viewers are never closed by the hub.
LinkKeepsApart == CallersSeparated /\ OwnViewersSafe

\* Each request the hub has pending is still on its way or has its response on the
\* way back, and the agent has on record every session it opened for a link that
\* stands, so that it can close it (hosts/link.rs, hosts/connector.rs).
LinkRecords == PendingTracked /\ OpenSessionsRecorded

\* "At most 64 requests per agent are in flight" (DEVELOPMENT.md): when a
\* request reaches the agent one of its permits is free.
PermitFree ==
  agent = "run" /\ toAgent # <<>> => Cardinality(tasks) < Permits

=============================================================================
