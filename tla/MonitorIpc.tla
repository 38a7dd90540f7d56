----------------------------- MODULE MonitorIpc -----------------------------
(***************************************************************************)
(* The private IPC between the HTTP server and its privileged helper:      *)
(* the callers of MonitorClient (one per HTTP request or SSE stream), the  *)
(* bounded queue and its single I/O worker (http_server/client.rs), the    *)
(* socket pair (ipc/transport.rs) and the helper's serial serve loop with  *)
(* its leased sessions (privileged_helper/helper_service.rs).              *)
(*                                                                         *)
(* Frames carry no request number: a reply is matched with its request     *)
(* only by the order of the exchanges.  The field "of" of a reply is the   *)
(* number of the request it answers; no action reads it, the properties    *)
(* compare it.  Time is abstract: a lease or a deadline may elapse in any  *)
(* state in which the code measures it.                                    *)
(***************************************************************************)
EXTENDS Naturals, Sequences, FiniteSets

CONSTANTS
  Streams,      \* concurrent callers: HTTP handlers and SSE streams
  QueueLimit,   \* mpsc::channel capacity, 64 in the code
  MaxRequests   \* bound on the requests issued in one behaviour

ASSUME IpcAssumption ==
  /\ QueueLimit \in Nat \ {0}
  /\ MaxRequests \in Nat

VARIABLES
  mode,      \* what each caller is doing
  waiting,   \* number of the request whose oneshot receiver it holds, or 0
  owns,      \* session of its ObservationSession, or 0
  seen,      \* session whose event it has forwarded last, or 0
  issued,    \* requests issued so far
  queue,     \* PendingRequests in the mpsc channel
  worker,    \* the "monitor-ipc" thread
  current,   \* the PendingRequest the worker has sent
  open,      \* FALSE once either side has shut the socket pair down
  toHelper,  \* frames in the socket, one per direction
  toMain,
  helper,    \* the helper's serve loop
  handling,  \* request the helper is dispatching
  sessions,  \* HelperIpcService.sessions
  aged,      \* the sessions not polled for SESSION_LEASE
  nextSession,
  stopped    \* collectors.monitoring.is_stopped()

callerVars == <<mode, waiting, owns, seen, issued>>
clientVars == <<queue, worker, current>>
wireVars   == <<open, toHelper, toMain>>
helperVars == <<helper, handling, sessions, aged, nextSession, stopped>>
vars == <<callerVars, clientVars, wireVars, helperVars>>

Modes   == {"idle", "reading", "observing", "open", "polling", "ending"}
Waiting == {"reading", "observing", "polling"}
Ops     == {"read", "observe", "poll", "close"}
Kinds   == {"data", "started", "event", "end", "closed", "error"}

Pending == [id : Nat, op : Ops, session : Nat]
Reply   == [of : Nat, kind : Kinds, session : Nat]
NoPending == [id |-> 0, op |-> "close", session |-> 0]

\* The shape of the state: the client's queue within its channel's capacity, and
\* only live sessions of the helper among the unpolled ones.
TypeOK ==
  /\ mode \in [Streams -> Modes]
  /\ waiting \in [Streams -> Nat]
  /\ owns \in [Streams -> Nat]
  /\ seen \in [Streams -> Nat]
  /\ issued \in Nat
  /\ queue \in Seq(Pending) /\ Len(queue) <= QueueLimit
  /\ worker \in {"recv", "reading", "broken"}
  /\ current \in Pending
  /\ open \in BOOLEAN
  /\ toHelper \in Seq(Pending)
  /\ toMain \in Seq(Reply)
  /\ helper \in {"polling", "dispatching", "gone"}
  /\ handling \in Pending
  /\ sessions \subseteq Nat
  /\ aged \subseteq sessions
  /\ nextSession \in Nat
  /\ stopped \in BOOLEAN

Init ==
  /\ mode = [t \in Streams |-> "idle"]
  /\ waiting = [t \in Streams |-> 0]
  /\ owns = [t \in Streams |-> 0]
  /\ seen = [t \in Streams |-> 0]
  /\ issued = 0
  /\ queue = <<>>
  /\ worker = "recv"
  /\ current = NoPending
  /\ open = TRUE
  /\ toHelper = <<>>
  /\ toMain = <<>>
  /\ helper = "polling"
  /\ handling = NoPending
  /\ sessions = {}
  /\ aged = {}
  /\ nextSession = 0
  /\ stopped = FALSE

-----------------------------------------------------------------------------
(* Callers: MonitorClient::exchange, observe, close and ObservationSession. *)

\* try_send succeeds: the worker still receives and a slot is free.
CanSend == worker # "broken" /\ Len(queue) < QueueLimit

\* What the caller does with an answer it did not get: a handler returns the
\* error, an SSE stream leaves its loop and still has to drop its session.
FailedMode(m) == IF m = "polling" THEN "ending" ELSE "idle"

\* exchange: enqueue a request, or fail at once when the queue is full.
Exchange(t, op, next) ==
  /\ issued < MaxRequests
  /\ issued' = issued + 1
  /\ IF CanSend
       THEN /\ queue' = Append(queue, [id |-> issued + 1, op |-> op, session |-> owns[t]])
            /\ waiting' = [waiting EXCEPT ![t] = issued + 1]
            /\ mode' = [mode EXCEPT ![t] = next]
       ELSE /\ mode' = [mode EXCEPT ![t] = FailedMode(next)]
            /\ UNCHANGED <<queue, waiting>>
  /\ UNCHANGED <<owns, seen, worker, current, wireVars, helperVars>>

\* A handler asks for data that needs no session.
Read(t) == mode[t] = "idle" /\ Exchange(t, "read", "reading")

\* A handler opens an observation for an SSE stream.
Observe(t) == mode[t] = "idle" /\ Exchange(t, "observe", "observing")

\* The SSE loop polls its session.
Poll(t) == mode[t] = "open" /\ Exchange(t, "poll", "polling")

\* The 30 s deadline of exchange: the caller shuts the socket down.
TimeOut(t) ==
  /\ mode[t] \in Waiting
  /\ open' = FALSE
  /\ waiting' = [waiting EXCEPT ![t] = 0]
  /\ mode' = [mode EXCEPT ![t] = FailedMode(mode[t])]
  /\ UNCHANGED <<owns, seen, issued, clientVars, toHelper, toMain, helperVars>>

\* The caller's future is dropped (client gone, stream over).  Dropping an
\* ObservationSession queues a Close, which is lost when the queue is full.
Drop(t) ==
  /\ mode[t] # "idle"
  /\ mode' = [mode EXCEPT ![t] = "idle"]
  /\ waiting' = [waiting EXCEPT ![t] = 0]
  /\ owns' = [owns EXCEPT ![t] = 0]
  /\ seen' = [seen EXCEPT ![t] = 0]
  /\ queue' = IF owns[t] # 0 /\ CanSend
                THEN Append(queue, [id |-> 0, op |-> "close", session |-> owns[t]])
                ELSE queue
  /\ UNCHANGED <<issued, worker, current, wireVars, helperVars>>

-----------------------------------------------------------------------------
(* The I/O worker.                                                         *)

\* pending.reply.is_closed(): nobody holds the receiver any more.
IsClosed(p) == ~\E t \in Streams : waiting[t] # 0 /\ waiting[t] = p.id

\* The worker leaves its loop: the current caller gets the error, dropping
\* the channel disconnects the queued ones, and the socket is shut down.
Break ==
  /\ worker' = "broken"
  /\ open' = FALSE
  /\ queue' = <<>>
  /\ waiting' = [t \in Streams |-> 0]
  /\ mode' = [t \in Streams |->
               IF waiting[t] # 0 THEN FailedMode(mode[t]) ELSE mode[t]]
  /\ UNCHANGED <<owns, seen, issued, toHelper, toMain, helperVars>>

\* A request cancelled while queued is skipped, unless it is a Close.
SkipCancelled ==
  /\ worker = "recv" /\ queue # <<>>
  /\ IsClosed(Head(queue)) /\ Head(queue).op # "close"
  /\ queue' = Tail(queue)
  /\ UNCHANGED <<callerVars, worker, current, wireVars, helperVars>>

\* transport::send: written in full, or failed (shut down, deadline, limit).
Send ==
  /\ worker = "recv" /\ queue # <<>>
  /\ Head(queue).op = "close" \/ ~IsClosed(Head(queue))
  /\ current' = Head(queue)
  /\ \/ /\ open
        /\ queue' = Tail(queue)
        /\ toHelper' = Append(toHelper, Head(queue))
        /\ worker' = "reading"
        /\ UNCHANGED <<callerVars, open, toMain, helperVars>>
     \/ Break

\* What a caller does with the reply the worker passes on.
Answered(m, kind) ==
  CASE m = "observing" /\ kind = "started" -> "open"
    [] m = "polling" /\ kind = "event"     -> "open"
    [] OTHER                               -> FailedMode(m)

\* A complete frame is read; the caller may have gone in the meantime.
Receive ==
  /\ worker = "reading" /\ toMain # <<>>
  /\ toMain' = Tail(toMain)
  /\ worker' = "recv"
  /\ LET r == Head(toMain)
         mine(t) == waiting[t] # 0 /\ waiting[t] = current.id
     IN /\ mode' = [t \in Streams |->
                     IF mine(t) THEN Answered(mode[t], r.kind) ELSE mode[t]]
        /\ owns' = [t \in Streams |->
                     IF mine(t) /\ mode[t] = "observing" /\ r.kind = "started"
                       THEN r.session ELSE owns[t]]
        /\ seen' = [t \in Streams |->
                     IF mine(t) /\ mode[t] \in {"observing", "polling"}
                         /\ r.kind \in {"started", "event", "end"}
                       THEN r.session ELSE seen[t]]
        /\ waiting' = [t \in Streams |-> IF mine(t) THEN 0 ELSE waiting[t]]
  /\ UNCHANGED <<issued, queue, current, open, toHelper, helperVars>>

MutantReadFails ==
  /\ worker = "reading"
  /\ worker' = "recv"
  /\ waiting' = [t \in Streams |-> IF waiting[t] = current.id THEN 0 ELSE waiting[t]]
  /\ mode' = [t \in Streams |->
               IF waiting[t] # 0 /\ waiting[t] = current.id
                 THEN FailedMode(mode[t]) ELSE mode[t]]
  /\ UNCHANGED <<owns, seen, issued, queue, current, wireVars, helperVars>>

\* The socket deadline passes or the connection ends while a reply is due.
ReadFails == worker = "reading" /\ UNCHANGED current /\ Break

-----------------------------------------------------------------------------
(* The helper.                                                             *)

MutantUnexpired == sessions

\* HelperIpcService::expire
Unexpired == sessions \ aged

\* The lease of a session that has not been polled runs out.
LeaseElapses(s) ==
  /\ s \in sessions \ aged
  /\ aged' = aged \cup {s}
  /\ UNCHANGED <<callerVars, clientVars, wireVars, helper, handling, sessions,
                 nextSession, stopped>>

\* One turn of the serve loop without input.
Expire ==
  /\ helper = "polling" /\ aged # {}
  /\ sessions' = Unexpired
  /\ aged' = {}
  /\ UNCHANGED <<callerVars, clientVars, wireVars, helper, handling,
                 nextSession, stopped>>

\* One turn of the serve loop that reads a request.
Take ==
  /\ helper = "polling" /\ toHelper # <<>>
  /\ sessions' = Unexpired
  /\ aged' = {}
  /\ handling' = Head(toHelper)
  /\ toHelper' = Tail(toHelper)
  /\ helper' = "dispatching"
  /\ UNCHANGED <<callerVars, clientVars, open, toMain, nextSession, stopped>>

\* Returning from serve drops the service and with it every session.
Leave ==
  /\ helper' = "gone"
  /\ open' = FALSE
  /\ sessions' = {}
  /\ aged' = {}
  /\ UNCHANGED <<callerVars, clientVars, toHelper, toMain, handling,
                 nextSession, stopped>>

\* transport::send of the reply.  An oversized one becomes an error, after
\* the request has had its effect.
Answer(kind, session) ==
  /\ open
  /\ \E k \in {kind, "error"} :
       toMain' = Append(toMain, [of |-> handling.id, kind |-> k, session |-> session])
  /\ helper' = "polling"
  /\ UNCHANGED <<callerVars, clientVars, open, toHelper, handling, stopped>>

DispatchClose ==
  /\ helper = "dispatching" /\ handling.op = "close"
  /\ sessions' = Unexpired \ {handling.session}
  /\ aged' = {}
  /\ UNCHANGED nextSession
  /\ Answer("closed", 0)

DispatchRead ==
  /\ helper = "dispatching" /\ handling.op = "read" /\ ~stopped
  /\ sessions' = Unexpired
  /\ aged' = {}
  /\ UNCHANGED nextSession
  /\ Answer("data", 0)

\* The helper is stopping, the target is not the process it was, there are
\* too many viewers, or the session is unknown or expired.
Refuse ==
  /\ helper = "dispatching" /\ handling.op # "close"
  /\ stopped \/ handling.op = "observe" \/
       (handling.op = "poll" /\ handling.session \notin Unexpired)
  /\ sessions' = Unexpired
  /\ aged' = {}
  /\ UNCHANGED nextSession
  /\ Answer("error", 0)

MutantDispatchObserve ==
  /\ helper = "dispatching" /\ handling.op = "observe" /\ ~stopped
  /\ sessions' = Unexpired \cup {Cardinality(Unexpired) + 1}
  /\ nextSession' = nextSession + 1
  /\ aged' = {}
  /\ Answer("started", Cardinality(Unexpired) + 1)

DispatchObserve ==
  /\ helper = "dispatching" /\ handling.op = "observe" /\ ~stopped
  /\ nextSession' = nextSession + 1
  /\ sessions' = Unexpired \cup {nextSession + 1}
  /\ aged' = {}
  /\ Answer("started", nextSession + 1)

DispatchPoll ==
  /\ helper = "dispatching" /\ handling.op = "poll" /\ ~stopped
  /\ handling.session \in Unexpired
  /\ aged' = {}
  /\ UNCHANGED nextSession
  /\ \/ sessions' = Unexpired /\ Answer("event", handling.session)
     \/ sessions' = Unexpired \ {handling.session} /\ Answer("end", handling.session)

\* The reply cannot be sent any more.
ReplyFails == helper = "dispatching" /\ ~open /\ Leave

\* End of input on the socket, or the helper dies at any moment.
HelperEnds == helper # "gone" /\ Leave

\* A signal or the loss of the parent stops the collectors.
StopCollectors ==
  /\ ~stopped /\ helper # "gone"
  /\ stopped' = TRUE
  /\ UNCHANGED <<callerVars, clientVars, wireVars, helper, handling, sessions,
                 aged, nextSession>>

-----------------------------------------------------------------------------
Worker   == SkipCancelled \/ Send \/ Receive
Dispatch == DispatchClose \/ DispatchRead \/ Refuse \/ DispatchObserve \/ DispatchPoll

Next ==
  \/ \E t \in Streams : Read(t) \/ Observe(t) \/ Poll(t) \/ TimeOut(t) \/ Drop(t)
  \/ Worker \/ ReadFails
  \/ \E s \in sessions : LeaseElapses(s)
  \/ Expire \/ Take \/ Dispatch
  \/ ReplyFails \/ HelperEnds \/ StopCollectors

Spec == Init /\ [][Next]_vars

Owned(s) == \E t \in Streams : owns[t] = s

(***************************************************************************)
(* Fairness.  The worker thread and the serve loop run whenever they can,  *)
(* a dispatch ends, the end of the connection is noticed and a stream that *)
(* has left its loop is dropped.  Nothing is assumed of callers, of        *)
(* deadlines or of signals.                                                *)
(***************************************************************************)
Progress ==
  /\ WF_vars(Worker)
  /\ WF_vars(~open /\ toMain = <<>> /\ helper = "gone" /\ ReadFails)
  /\ WF_vars(Expire \/ Take)
  /\ WF_vars(Dispatch)
  /\ WF_vars(ReplyFails)
  /\ WF_vars(~open /\ toHelper = <<>> /\ HelperEnds)
  /\ \A t \in Streams : WF_vars(mode[t] = "ending" /\ Drop(t))

FairSpec == Spec /\ Progress

\* The clock of a session nobody polls runs on.
LeaseClock == \A s \in 1..MaxRequests : WF_vars(~Owned(s) /\ LeaseElapses(s))

-----------------------------------------------------------------------------
(* Properties.                                                             *)

\* "Replies can never match a later request" (client.rs): whatever frame the
\* worker finds, it answers the request the worker has sent last, across
\* cancelled callers, timeouts and failures.
ReplyMatches ==
  worker = "reading" /\ toMain # <<>> => Head(toMain).of = current.id

\* One exchange at a time: while the worker is not waiting for a reply nothing
\* is in the socket or in the helper, and what is under way otherwise is the
\* exchange of the request the worker has sent last.  This is the inductive
\* strengthening of ReplyMatches.
OneExchange ==
  /\ Len(toHelper) <= 1 /\ Len(toMain) <= 1
  /\ worker = "recv" => toHelper = <<>> /\ toMain = <<>> /\ helper # "dispatching"
  /\ toHelper # <<>> => toMain = <<>> /\ helper # "dispatching"
  /\ helper = "dispatching" => toMain = <<>>
  /\ worker = "reading" =>
       /\ toHelper # <<>> => Head(toHelper) = current
       /\ helper = "dispatching" => handling = current
       /\ toMain # <<>> => Head(toMain).of = current.id

\* A stream forwards events of its own session only, and no two streams ever
\* own the same session.
StreamsSeparated ==
  /\ \A t \in Streams : seen[t] \in {0, owns[t]}
  /\ \A t, u \in Streams : t # u /\ owns[t] = owns[u] => owns[t] = 0

\* Requests on their way: queued, in the socket or being dispatched.
Underway ==
  {queue[i] : i \in DOMAIN queue} \cup {toHelper[i] : i \in DOMAIN toHelper}
    \cup (IF helper = "dispatching" THEN {handling} ELSE {})

\* A Close on its way never names a session that a stream still polls, in
\* whatever order the drops of the streams and the worker interleave.
NoForeignClose ==
  \A p \in Underway : p.op = "close" => ~Owned(p.session)

\* Streams keep to their own sessions (ObservationStream in client.rs): none forwards
\* another's events, and no Close under way names a session somebody polls.
SessionsKeptApart == StreamsSeparated /\ NoForeignClose

\* Every request is answered or fails, also when the connection breaks while
\* it is queued; no deadline of the caller is needed for that.
RequestSettles ==
  \A t \in Streams : mode[t] \in Waiting ~> mode[t] \notin Waiting

\* "Lease expiry is the fallback if the bounded queue is full or setup was
\* cancelled in flight": as leases run, a session without an owner never stays,
\* although its Close was lost or never sent.
AbandonedReleased ==
  LeaseClock =>
    \A s \in 1..MaxRequests :
      (s \in sessions /\ ~Owned(s)) ~> (s \notin sessions \/ Owned(s))

=============================================================================
