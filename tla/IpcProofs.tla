------------------------------ MODULE IpcProofs ------------------------------
(***************************************************************************)
(* Proofs about MonitorIpc for any number of callers, any queue capacity   *)
(* and any number of requests; then about SystemMonitor, alone and in      *)
(* MCIpc, for any number of subscribers, any limit of viewers, any channel *)
(* capacity and any number of snapshots and events.                        *)
(***************************************************************************)
EXTENDS MCIpc, SequenceTheorems, FiniteSetTheorems, TLAPS

(* What Append, Head and Tail do to the sequences of this module.          *)

\* Taking the only frame out of a direction of the socket empties it.
LEMMA TailOfOne ==
  ASSUME NEW S, NEW s \in Seq(S), s # <<>>, Len(s) <= 1
  PROVE  Tail(s) = <<>>
  <1>1. Len(s) \in Nat \ {0}
    BY EmptySeq, Zenon
  <1>2. Len(s) = 1
    BY <1>1
  <1>3. Tail(s) \in Seq(S) /\ Len(Tail(s)) = 0
    BY <1>2, HeadTailProperties
  <1>4. Tail(s) # <<>> => Len(Tail(s)) \in Nat \ {0}
    BY <1>3, EmptySeq, Zenon
  <1> QED
    BY <1>3, <1>4

\* A frame written to an empty direction is the next one to be read.
LEMMA AppendToEmpty ==
  ASSUME NEW S, NEW e \in S
  PROVE  /\ Append(<<>>, e) \in Seq(S)
         /\ Append(<<>>, e) # <<>>
         /\ Len(Append(<<>>, e)) = 1
         /\ Head(Append(<<>>, e)) = e
  OBVIOUS

\* Queueing and taking keep the type of a sequence, and its length within
\* one of what it was.
LEMMA QueueFacts ==
  ASSUME NEW S, NEW s \in Seq(S)
  PROVE  /\ Len(s) \in Nat
         /\ \A e \in S : Append(s, e) \in Seq(S) /\ Len(Append(s, e)) = Len(s) + 1
         /\ s # <<>> => Head(s) \in S /\ Tail(s) \in Seq(S) /\ Len(Tail(s)) <= Len(s)
  <1>1. s # <<>> => Head(s) \in S /\ Tail(s) \in Seq(S) /\ Len(Tail(s)) = Len(s) - 1
    BY HeadTailProperties
  <1>2. Len(s) \in Nat
    OBVIOUS
  <1>3. \A e \in S : Append(s, e) \in Seq(S) /\ Len(Append(s, e)) = Len(s) + 1
    OBVIOUS
  <1> QED
    BY <1>1, <1>2, <1>3

-----------------------------------------------------------------------------
(* Type correctness.                                                       *)

\* The worker leaving its loop keeps the types.
LEMMA BreakType ==
  ASSUME TypeOK, Break, current' \in Pending
  PROVE  TypeOK'
  <1>1. queue' \in Seq(Pending) /\ Len(queue') <= QueueLimit
    BY IpcAssumption DEF Break
  <1>2. mode' \in [Streams -> Modes]
    BY DEF Break, TypeOK, FailedMode, Modes
  <1> QED
    BY <1>1, <1>2 DEF Break, TypeOK, helperVars

\* So does the helper leaving serve,
LEMMA LeaveType ==
  ASSUME TypeOK, Leave
  PROVE  TypeOK'
  BY DEF Leave, TypeOK, callerVars, clientVars

\* the helper sending a reply,
LEMMA AnswerType ==
  ASSUME TypeOK, NEW kind \in Kinds, NEW s \in Nat, Answer(kind, s),
         sessions' \subseteq Nat, aged' \subseteq sessions', nextSession' \in Nat
  PROVE  TypeOK'
  <1>1. toMain' \in Seq(Reply)
    <2>1. PICK k \in {kind, "error"} :
            toMain' = Append(toMain, [of |-> handling.id, kind |-> k, session |-> s])
      BY DEF Answer
    <2>2. [of |-> handling.id, kind |-> k, session |-> s] \in Reply
      BY DEF Reply, Kinds, TypeOK, Pending
    <2> QED
      BY <2>1, <2>2, QueueFacts DEF TypeOK
  <1> QED
    BY <1>1 DEF Answer, TypeOK, callerVars, clientVars

\* and a caller queueing a request.
LEMMA ExchangeType ==
  ASSUME TypeOK, NEW t \in Streams, NEW op \in Ops, NEW next \in Modes,
         Exchange(t, op, next)
  PROVE  TypeOK'
  <1>1. [id |-> issued + 1, op |-> op, session |-> owns[t]] \in Pending
    BY DEF TypeOK, Pending
  <1> DEFINE p == [id |-> issued + 1, op |-> op, session |-> owns[t]]
  <1>2. queue' \in Seq(Pending) /\ Len(queue') <= QueueLimit
    <2>1. (queue' = Append(queue, p) /\ Len(queue) < QueueLimit) \/ queue' = queue
      BY DEF Exchange, CanSend
    <2>2. /\ queue \in Seq(Pending) /\ Len(queue) \in Nat
          /\ Append(queue, p) \in Seq(Pending)
          /\ Len(Append(queue, p)) = Len(queue) + 1
      BY <1>1, QueueFacts DEF TypeOK
    <2>3. Len(queue) <= QueueLimit /\ QueueLimit \in Nat
      BY IpcAssumption DEF TypeOK
    <2> HIDE DEF p
    <2> QED
      BY <2>1, <2>2, <2>3
  <1>3. mode' \in [Streams -> Modes]
    BY DEF Exchange, TypeOK, FailedMode, Modes
  <1>4. waiting' \in [Streams -> Nat] /\ issued' \in Nat
    <2>1. issued' = issued + 1 /\ issued + 1 \in Nat
      BY DEF Exchange, TypeOK
    <2>2. waiting' = [waiting EXCEPT ![t] = issued + 1] \/ waiting' = waiting
      BY DEF Exchange
    <2> QED
      BY <2>1, <2>2 DEF TypeOK
  <1> QED
    BY <1>2, <1>3, <1>4 DEF Exchange, TypeOK, wireVars, helperVars

\* Every variable of the client, the socket and the helper keeps its type,
\* the queue never exceeds its capacity, and only live sessions age.
THEOREM TypeCorrect == Spec => []TypeOK
  <1>1. Init => TypeOK
    <2> SUFFICES ASSUME Init PROVE TypeOK
      OBVIOUS
    <2>1. queue \in Seq(Pending) /\ toHelper \in Seq(Pending) /\ toMain \in Seq(Reply)
      BY DEF Init
    <2>2. Len(queue) <= QueueLimit
      BY IpcAssumption DEF Init
    <2>3. NoPending \in Pending
      BY DEF NoPending, Pending, Ops
    <2> QED
      BY <2>1, <2>2, <2>3 DEF Init, TypeOK, Modes
  <1>2. TypeOK /\ [Next]_vars => TypeOK'
    <2> SUFFICES ASSUME TypeOK, [Next]_vars
                 PROVE  TypeOK'
      OBVIOUS
    <2>1. ASSUME NEW t \in Streams, Read(t) PROVE TypeOK'
      BY <2>1, ExchangeType DEF Read, Ops, Modes
    <2>2. ASSUME NEW t \in Streams, Observe(t) PROVE TypeOK'
      BY <2>2, ExchangeType DEF Observe, Ops, Modes
    <2>3. ASSUME NEW t \in Streams, Poll(t) PROVE TypeOK'
      BY <2>3, ExchangeType DEF Poll, Ops, Modes
    <2>4. ASSUME NEW t \in Streams, TimeOut(t) PROVE TypeOK'
      BY <2>4 DEF TimeOut, TypeOK, FailedMode, Modes, clientVars, helperVars
    <2>5. ASSUME NEW t \in Streams, Drop(t) PROVE TypeOK'
      <3>1. [id |-> 0, op |-> "close", session |-> owns[t]] \in Pending
        BY DEF TypeOK, Pending, Ops
      <3>2. queue' \in Seq(Pending) /\ Len(queue') <= QueueLimit
        BY <2>5, <3>1, QueueFacts, IpcAssumption DEF Drop, CanSend, TypeOK
      <3> QED
        BY <2>5, <3>2 DEF Drop, TypeOK, Modes, wireVars, helperVars
    <2>6. CASE SkipCancelled
      BY <2>6, QueueFacts, IpcAssumption
      DEF SkipCancelled, TypeOK, callerVars, wireVars, helperVars
    <2>7. CASE Send
      <3>1. Head(queue) \in Pending /\ Tail(queue) \in Seq(Pending)
              /\ Len(Tail(queue)) <= Len(queue) /\ Len(queue) \in Nat
              /\ Append(toHelper, Head(queue)) \in Seq(Pending)
        BY <2>7, QueueFacts DEF Send, TypeOK
      <3>2. CASE Break
        BY <2>7, <3>1, <3>2, BreakType DEF Send
      <3>3. CASE ~Break
        <4>1. Len(queue') <= QueueLimit
          BY <2>7, <3>1, <3>3, IpcAssumption DEF Send, TypeOK
        <4> QED
          BY <2>7, <3>1, <3>3, <4>1 DEF Send, TypeOK, callerVars, helperVars
      <3> QED
        BY <3>2, <3>3
    <2>8. CASE Receive
      <3>1. Head(toMain) \in Reply /\ Tail(toMain) \in Seq(Reply)
        BY <2>8, QueueFacts DEF Receive, TypeOK
      <3>2. mode' \in [Streams -> Modes]
        BY <2>8 DEF Receive, TypeOK, Answered, FailedMode, Modes
      <3>3. owns' \in [Streams -> Nat] /\ seen' \in [Streams -> Nat]
              /\ waiting' \in [Streams -> Nat]
        BY <2>8, <3>1 DEF Receive, TypeOK, Reply
      <3> QED
        BY <2>8, <3>1, <3>2, <3>3 DEF Receive, TypeOK, helperVars
    <2>9. CASE ReadFails
      BY <2>9, BreakType DEF ReadFails, TypeOK
    <2>10. ASSUME NEW s \in sessions, LeaseElapses(s) PROVE TypeOK'
      BY <2>10 DEF LeaseElapses, TypeOK, callerVars, clientVars, wireVars
    <2>11. CASE Expire
      BY <2>11 DEF Expire, Unexpired, TypeOK, callerVars, clientVars, wireVars
    <2>12. CASE Take
      BY <2>12, QueueFacts DEF Take, Unexpired, TypeOK, callerVars, clientVars
    <2>13. CASE DispatchClose
      BY <2>13, AnswerType DEF DispatchClose, Unexpired, TypeOK, Kinds
    <2>14. CASE DispatchRead
      BY <2>14, AnswerType DEF DispatchRead, Unexpired, TypeOK, Kinds
    <2>15. CASE Refuse
      BY <2>15, AnswerType DEF Refuse, Unexpired, TypeOK, Kinds
    <2>16. CASE DispatchObserve
      <3>1. nextSession + 1 \in Nat /\ sessions' \subseteq Nat /\ aged' \subseteq sessions'
              /\ nextSession' \in Nat
        BY <2>16 DEF DispatchObserve, Unexpired, TypeOK
      <3>2. Answer("started", nextSession + 1) /\ "started" \in Kinds
        BY <2>16 DEF DispatchObserve, Kinds
      <3> QED
        BY <3>1, <3>2, AnswerType
    <2>17. CASE DispatchPoll
      BY <2>17, AnswerType DEF DispatchPoll, Unexpired, TypeOK, Kinds, Pending
    <2>18. CASE ReplyFails \/ HelperEnds
      BY <2>18, LeaveType DEF ReplyFails, HelperEnds
    <2>19. CASE StopCollectors
      BY <2>19 DEF StopCollectors, TypeOK, callerVars, clientVars, wireVars
    <2>20. CASE UNCHANGED vars
      BY <2>20 DEF vars, callerVars, clientVars, wireVars, helperVars, TypeOK
    <2> QED
      BY <2>1, <2>2, <2>3, <2>4, <2>5, <2>6, <2>7, <2>8, <2>9, <2>10, <2>11, <2>12,
         <2>13, <2>14, <2>15, <2>16, <2>17, <2>18, <2>19, <2>20
      DEF Next, Worker, Dispatch
  <1> QED
    BY <1>1, <1>2, PTL DEF Spec

-----------------------------------------------------------------------------
(* One exchange at a time.                                                 *)

\* The exchange under way, for one action of each kind: a request is sent
\* only when nothing is under way, and every later step moves the one frame
\* along.
THEOREM OneExchangeInvariant == Spec => []OneExchange
  <1>1. Init => OneExchange
    BY DEF Init, OneExchange
  <1>2. TypeOK /\ OneExchange /\ [Next]_vars => OneExchange'
    <2> SUFFICES ASSUME TypeOK, OneExchange, [Next]_vars
                 PROVE  OneExchange'
      OBVIOUS
    <2> DEFINE wire == <<worker, current, toHelper, toMain, helper, handling>>
    <2>0. ASSUME UNCHANGED wire PROVE OneExchange'
      BY <2>0 DEF OneExchange
    <2>1. ASSUME NEW t \in Streams,
                 Read(t) \/ Observe(t) \/ Poll(t) \/ TimeOut(t) \/ Drop(t)
          PROVE  OneExchange'
      BY <2>0, <2>1 DEF Read, Observe, Poll, Exchange, TimeOut, Drop, clientVars,
         wireVars, helperVars
    <2>2. CASE SkipCancelled
      BY <2>0, <2>2 DEF SkipCancelled, wireVars, helperVars
    <2>3. ASSUME Break, worker = "recv" \/ UNCHANGED current PROVE OneExchange'
      BY <2>3 DEF Break, OneExchange, helperVars
    <2>4. CASE Send
      <3>1. Head(queue) \in Pending
        BY <2>4, QueueFacts DEF Send, TypeOK
      <3>2. CASE Break
        BY <2>3, <2>4, <3>2 DEF Send
      <3>3. CASE ~Break
        <4>1. toHelper = <<>> /\ toMain = <<>> /\ helper # "dispatching"
          BY <2>4 DEF Send, OneExchange
        <4>2. /\ toHelper' = Append(<<>>, Head(queue)) /\ current' = Head(queue)
              /\ worker' = "reading" /\ toMain' = <<>> /\ helper' # "dispatching"
          BY <2>4, <3>3, <4>1 DEF Send, helperVars
        <4>3. toHelper' # <<>> /\ Len(toHelper') = 1 /\ Head(toHelper') = Head(queue)
          BY <3>1, <4>2, AppendToEmpty
        <4>4. Len(toMain') = 0
          BY <4>2
        <4> QED
          BY <4>2, <4>3, <4>4 DEF OneExchange
      <3> QED
        BY <3>2, <3>3
    <2>5. CASE Receive
      <3>1. Tail(toMain) = <<>> /\ toHelper = <<>> /\ helper # "dispatching"
        BY <2>5, TailOfOne DEF Receive, OneExchange, TypeOK
      <3> QED
        BY <2>5, <3>1 DEF Receive, OneExchange, helperVars
    <2>6. CASE ReadFails
      BY <2>3, <2>6 DEF ReadFails
    <2>7. ASSUME NEW s \in sessions, LeaseElapses(s) PROVE OneExchange'
      BY <2>0, <2>7 DEF LeaseElapses, clientVars, wireVars
    <2>8. CASE Expire
      BY <2>0, <2>8 DEF Expire, clientVars, wireVars
    <2>9. CASE Take
      <3>1. Tail(toHelper) = <<>> /\ toMain = <<>>
        BY <2>9, TailOfOne DEF Take, OneExchange, TypeOK
      <3> QED
        BY <2>9, <3>1 DEF Take, OneExchange, clientVars
    <2>10. ASSUME NEW kind, NEW s, kind \in Kinds, s \in Nat, helper = "dispatching",
                  Answer(kind, s)
           PROVE  OneExchange'
      <3>1. PICK k \in {kind, "error"} :
              toMain' = Append(toMain, [of |-> handling.id, kind |-> k, session |-> s])
        BY <2>10 DEF Answer
      <3> DEFINE r == [of |-> handling.id, kind |-> k, session |-> s]
      <3>2. r \in Reply
        BY <2>10 DEF Reply, Kinds, TypeOK, Pending
      <3>3. toMain = <<>> /\ toHelper = <<>> /\ worker # "recv"
        BY <2>10 DEF OneExchange
      <3>4. toMain' # <<>> /\ Len(toMain') = 1 /\ Head(toMain') = r
        BY <3>1, <3>2, <3>3, AppendToEmpty
      <3>5. r.of = handling.id
        OBVIOUS
      <3>6. /\ toHelper' = <<>> /\ Len(toHelper') = 0 /\ helper' = "polling"
            /\ worker' = worker /\ current' = current
        BY <2>10, <3>3 DEF Answer, clientVars
      <3>7. worker = "reading" => handling = current
        BY <2>10 DEF OneExchange
      <3> QED
        BY <3>3, <3>4, <3>5, <3>6, <3>7 DEF OneExchange
    <2>11. CASE Dispatch
      <3>1. handling.session \in Nat /\ nextSession + 1 \in Nat /\ 0 \in Nat
        BY DEF TypeOK, Pending
      <3> QED
        BY <2>10, <2>11, <3>1
        DEF Dispatch, DispatchClose, DispatchRead, Refuse, DispatchObserve,
            DispatchPoll, Kinds
    <2>12. CASE ReplyFails \/ HelperEnds
      BY <2>12 DEF ReplyFails, HelperEnds, Leave, OneExchange, clientVars
    <2>13. CASE StopCollectors
      BY <2>0, <2>13 DEF StopCollectors, clientVars, wireVars
    <2>14. CASE UNCHANGED vars
      BY <2>0, <2>14 DEF vars, clientVars, wireVars, helperVars
    <2> QED
      BY <2>1, <2>2, <2>4, <2>5, <2>6, <2>7, <2>8, <2>9, <2>11, <2>12, <2>13, <2>14
      DEF Next, Worker
  <1> QED
    BY <1>1, <1>2, TypeCorrect, PTL DEF Spec

\* Whatever frame the worker reads answers the request it has sent last: a
\* reply never reaches another request, for any number of callers.
THEOREM RepliesMatch == Spec => []ReplyMatches
  <1>1. OneExchange => ReplyMatches
    BY DEF OneExchange, ReplyMatches
  <1> QED
    BY <1>1, OneExchangeInvariant, PTL

-----------------------------------------------------------------------------
(* Streams keep to their own sessions.                                     *)

\* A request that is still to be answered: on its way to the helper, or the
\* one whose reply the worker reads.
Requests == Underway \cup (IF worker = "reading" THEN {current} ELSE {})

\* The request p is the one a caller in mode m with session o waits for.
Fits(m, o, p) ==
  /\ m = "reading" => p.op = "read"
  /\ m = "observing" => p.op = "observe"
  /\ m = "polling" => p.op = "poll" /\ p.session = o

\* The reply r is of the kind, and about the session, that p asks for.
ReplyFits(p, r) ==
  \/ r.kind = "error"
  \/ p.op = "read" /\ r.kind = "data"
  \/ p.op = "observe" /\ r.kind = "started"
  \/ p.op = "poll" /\ r.kind \in {"event", "end"} /\ r.session = p.session
  \/ p.op = "close" /\ r.kind = "closed"

\* No two callers wait for the same request, and none for one not yet issued.
WaitersApart ==
  /\ \A t \in Streams : waiting[t] <= issued
  /\ \A t, u \in Streams : t # u /\ waiting[t] = waiting[u] => waiting[t] = 0
  /\ \A p \in Requests : p.id <= issued

\* Callers own sessions the helper has handed out, no two the same.
OwnersApart ==
  /\ \A t \in Streams : owns[t] <= nextSession /\ seen[t] \in {0, owns[t]}
  /\ \A t, u \in Streams : t # u /\ owns[t] = owns[u] => owns[t] = 0

\* What a caller waits for is what it asked.
RequestsFit ==
  \A p \in Requests, t \in Streams :
    waiting[t] # 0 /\ waiting[t] = p.id => Fits(mode[t], owns[t], p)

\* A Close names a session that was handed out and that its owner has let go.
ClosesUnowned ==
  \A p \in Requests :
    p.op = "close" => p.session \in 1..nextSession /\ ~Owned(p.session)

\* The reply under way answers what was asked, and the session it may hand over
\* belongs to nobody and is not being closed.
ReplyExpected ==
  worker = "reading" /\ toMain # <<>> =>
    /\ ReplyFits(current, Head(toMain))
    /\ Head(toMain).kind = "started" =>
         /\ Head(toMain).session \in 1..nextSession /\ ~Owned(Head(toMain).session)
         /\ \A p \in Requests : p.op = "close" => p.session # Head(toMain).session

\* The inductive strengthening of SessionsKeptApart.
SessionInv ==
  WaitersApart /\ OwnersApart /\ RequestsFit /\ ClosesUnowned /\ ReplyExpected

\* What a sequence holds after Append and after Tail.
LEMMA ElementFacts ==
  ASSUME NEW S, NEW s \in Seq(S)
  PROVE  /\ \A e \in S : \A i \in DOMAIN Append(s, e) :
              Append(s, e)[i] = e \/ \E j \in DOMAIN s : Append(s, e)[i] = s[j]
         /\ s # <<>> =>
              /\ \E j \in DOMAIN s : Head(s) = s[j]
              /\ \A i \in DOMAIN Tail(s) : \E j \in DOMAIN s : Tail(s)[i] = s[j]
  <1>1. ASSUME NEW e \in S, NEW i \in DOMAIN Append(s, e)
        PROVE  Append(s, e)[i] = e \/ \E j \in DOMAIN s : Append(s, e)[i] = s[j]
    <2>1. i \in 1..(Len(s) + 1) /\ DOMAIN s = 1..Len(s) /\ Len(s) \in Nat
      BY <1>1
    <2>2. CASE i = Len(s) + 1
      BY <2>2
    <2>3. CASE i # Len(s) + 1
      <3>1. i \in 1..Len(s) /\ Append(s, e)[i] = s[i]
        BY <2>1, <2>3
      <3> QED
        BY <2>1, <3>1
    <2> QED
      BY <2>2, <2>3
  <1>2. ASSUME s # <<>>
        PROVE  /\ \E j \in DOMAIN s : Head(s) = s[j]
               /\ \A i \in DOMAIN Tail(s) : \E j \in DOMAIN s : Tail(s)[i] = s[j]
    <2>0. Len(s) \in Nat \ {0}
      BY <1>2, EmptySeq, Zenon
    <2>1. Len(s) \in Nat \ {0} /\ DOMAIN s = 1..Len(s)
      BY <2>0
    <2>2. Head(s) = s[1] /\ 1 \in DOMAIN s
      BY <2>1
    <2>3. ASSUME NEW i \in DOMAIN Tail(s)
          PROVE  \E j \in DOMAIN s : Tail(s)[i] = s[j]
      <3>1. i \in 1..(Len(s) - 1) /\ Tail(s)[i] = s[i + 1]
        BY <1>2, <2>1, <2>3, HeadTailProperties
      <3>2. i + 1 \in DOMAIN s
        BY <2>1, <3>1
      <3> QED
        BY <3>1, <3>2
    <2> QED
      BY <2>2, <2>3
  <1> QED
    BY <1>1, <1>2

\* Whatever is still to be answered is a request.
LEMMA RequestsTyped ==
  ASSUME TypeOK
  PROVE  Requests \subseteq Pending
  <1>1. \A i \in DOMAIN queue : queue[i] \in Pending
    BY DEF TypeOK
  <1>2. \A i \in DOMAIN toHelper : toHelper[i] \in Pending
    BY DEF TypeOK
  <1> QED
    BY <1>1, <1>2 DEF Requests, Underway, TypeOK

\* A step that makes no request and no reply, and at most lets callers stop
\* waiting, keeps the sessions apart.
LEMMA LetGoKeepsApart ==
  ASSUME TypeOK, TypeOK', SessionInv, Requests' \subseteq Requests,
         UNCHANGED <<owns, seen, issued, nextSession>>,
         \A t \in Streams : waiting'[t] = 0
           \/ (waiting'[t] = waiting[t] /\ mode'[t] = mode[t]),
         \/ worker' # "reading" \/ toMain' = <<>>
         \/ worker = "reading" /\ UNCHANGED <<current, toMain>>
  PROVE  SessionInv'
  <1>1. WaitersApart'
    <2>1. \A t \in Streams : waiting'[t] <= issued'
      <3>1. issued \in Nat /\ issued' = issued
        BY DEF TypeOK
      <3>2. \A t \in Streams : waiting[t] <= issued
        BY DEF SessionInv, WaitersApart
      <3> QED
        BY <3>1, <3>2
    <2>2. \A t, u \in Streams : t # u /\ waiting'[t] = waiting'[u] => waiting'[t] = 0
      BY DEF SessionInv, WaitersApart
    <2>3. \A p \in Requests' : p.id <= issued'
      BY DEF SessionInv, WaitersApart
    <2> QED
      BY <2>1, <2>2, <2>3 DEF WaitersApart
  <1>2. OwnersApart'
    BY DEF SessionInv, OwnersApart
  <1>3. RequestsFit'
    BY DEF SessionInv, RequestsFit, Fits
  <1>4. ClosesUnowned'
    BY DEF SessionInv, ClosesUnowned, Owned
  <1>5. ReplyExpected'
    BY DEF SessionInv, ReplyExpected, ReplyFits, Owned
  <1> QED
    BY <1>1, <1>2, <1>3, <1>4, <1>5 DEF SessionInv

\* A caller that queues a request of its own waits for that one alone.
LEMMA ExchangeKeepsApart ==
  ASSUME TypeOK, TypeOK', SessionInv, NEW t \in Streams,
         NEW op \in {"read", "observe", "poll"}, NEW next,
         Exchange(t, op, next),
         Fits(next, owns[t], [id |-> issued + 1, op |-> op, session |-> owns[t]]),
         next \in {"reading", "observing", "polling"}
  PROVE  SessionInv'
  <1> DEFINE p == [id |-> issued + 1, op |-> op, session |-> owns[t]]
  <1>0. p \in Pending /\ p.id = issued + 1 /\ p.op # "close"
    BY DEF TypeOK, Pending, Ops
  <1>1. /\ issued' = issued + 1 /\ issued \in Nat
        /\ UNCHANGED <<owns, seen, nextSession, worker, current, toMain, toHelper,
                       helper, handling>>
    BY DEF Exchange, TypeOK, wireVars, helperVars
  <1>2. CASE CanSend
    <2>1. /\ queue' = Append(queue, p)
          /\ waiting' = [waiting EXCEPT ![t] = issued + 1]
          /\ mode' = [mode EXCEPT ![t] = next]
      BY <1>2 DEF Exchange
    <2>2. Requests' \subseteq Requests \cup {p}
      <3>1. \A i \in DOMAIN queue' : queue'[i] = p \/ \E j \in DOMAIN queue : queue'[i] = queue[j]
        <4>1. queue \in Seq(Pending)
          BY DEF TypeOK
        <4> HIDE DEF p
        <4> QED
          BY <1>0, <2>1, <4>1, ElementFacts
      <3> HIDE DEF p
      <3> QED
        BY <1>1, <3>1 DEF Requests, Underway
    <2>3. waiting'[t] = issued + 1 /\ mode'[t] = next
          /\ \A u \in Streams \ {t} : waiting'[u] = waiting[u] /\ mode'[u] = mode[u]
      BY <2>1 DEF TypeOK
    <2>4. \A u \in Streams : waiting[u] \in Nat /\ waiting[u] <= issued
      BY DEF TypeOK, SessionInv, WaitersApart
    <2>5. \A q \in Requests : q.id <= issued /\ q.id \in Nat
      BY RequestsTyped DEF SessionInv, WaitersApart, Pending
    <2>6. Fits(next, owns[t], p)
      OBVIOUS
    <2> HIDE DEF p
    <2>7. WaitersApart'
      <3>1. \A u \in Streams : waiting'[u] <= issued'
        BY <1>1, <2>3, <2>4
      <3>2. \A u, v \in Streams : u # v /\ waiting'[u] = waiting'[v] => waiting'[u] = 0
        BY <1>1, <2>3, <2>4 DEF SessionInv, WaitersApart
      <3>3. \A q \in Requests' : q.id <= issued'
        BY <1>0, <1>1, <2>2, <2>5
      <3> QED
        BY <3>1, <3>2, <3>3 DEF WaitersApart
    <2>8. RequestsFit'
      <3> SUFFICES ASSUME NEW q \in Requests', NEW u \in Streams,
                          waiting'[u] # 0, waiting'[u] = q.id
                   PROVE  Fits(mode'[u], owns'[u], q)
        BY DEF RequestsFit
      <3>1. CASE u = t
        <4>1. q = p
          BY <1>0, <1>1, <2>2, <2>3, <2>5, <3>1
        <4> QED
          BY <1>1, <2>3, <2>6, <3>1, <4>1
      <3>2. CASE u # t
        <4>1. q \in Requests
          BY <1>0, <1>1, <2>2, <2>3, <2>4, <3>2
        <4> QED
          BY <1>1, <2>3, <3>2, <4>1 DEF SessionInv, RequestsFit
      <3> QED
        BY <3>1, <3>2
    <2>9. OwnersApart' /\ ClosesUnowned'
      BY <1>0, <1>1, <2>2 DEF SessionInv, OwnersApart, ClosesUnowned, Owned
    <2>10. ReplyExpected'
      BY <1>0, <1>1, <2>2 DEF SessionInv, ReplyExpected, ReplyFits, Owned
    <2> QED
      BY <2>7, <2>8, <2>9, <2>10 DEF SessionInv
  <1>3. CASE ~CanSend
    <2>1. /\ queue' = queue /\ waiting' = waiting
          /\ mode' = [mode EXCEPT ![t] = FailedMode(next)]
      BY <1>3 DEF Exchange
    <2>2. Requests' = Requests
      BY <1>1, <2>1 DEF Requests, Underway
    <2>3. mode'[t] \notin Waiting /\ \A u \in Streams \ {t} : mode'[u] = mode[u]
      BY <2>1 DEF TypeOK, FailedMode, Waiting
    <2>4. WaitersApart'
      <3>1. \A u \in Streams : waiting[u] \in Nat /\ waiting[u] <= issued
        BY DEF TypeOK, SessionInv, WaitersApart
      <3>2. \A q \in Requests : q.id <= issued /\ q.id \in Nat
        BY RequestsTyped DEF SessionInv, WaitersApart, Pending
      <3>3. \A u \in Streams : waiting'[u] <= issued'
        BY <1>1, <2>1, <3>1
      <3>4. \A q \in Requests' : q.id <= issued'
        BY <1>1, <2>2, <3>2
      <3> QED
        BY <2>1, <3>3, <3>4 DEF SessionInv, WaitersApart
    <2>5. RequestsFit'
      BY <1>1, <2>1, <2>2, <2>3 DEF SessionInv, RequestsFit, Fits, Waiting
    <2>6. OwnersApart' /\ ClosesUnowned' /\ ReplyExpected'
      BY <1>1, <2>2 DEF SessionInv, OwnersApart, ClosesUnowned, ReplyExpected, ReplyFits, Owned
    <2> QED
      BY <2>4, <2>5, <2>6 DEF SessionInv
  <1> QED
    BY <1>2, <1>3

\* A stream that goes away closes its own session, which nobody else owns.
LEMMA DropKeepsApart ==
  ASSUME TypeOK, TypeOK', SessionInv, NEW t \in Streams, Drop(t)
  PROVE  SessionInv'
  <1> DEFINE p == [id |-> 0, op |-> "close", session |-> owns[t]]
  <1>0. p \in Pending /\ p.id = 0 /\ p.op = "close" /\ p.session = owns[t]
    BY DEF TypeOK, Pending, Ops
  <1>1. UNCHANGED <<issued, nextSession, worker, current, toMain, toHelper, helper, handling>>
    BY DEF Drop, wireVars, helperVars
  <1>2. /\ waiting'[t] = 0 /\ owns'[t] = 0 /\ seen'[t] = 0
        /\ \A u \in Streams \ {t} : /\ waiting'[u] = waiting[u] /\ owns'[u] = owns[u]
                                    /\ seen'[u] = seen[u] /\ mode'[u] = mode[u]
    BY DEF Drop, TypeOK
  <1>3. Requests' \subseteq Requests \cup (IF owns[t] # 0 THEN {p} ELSE {})
    <2>1. queue' = queue \/ (owns[t] # 0 /\ queue' = Append(queue, p))
      BY DEF Drop
    <2>2. queue \in Seq(Pending)
      BY DEF TypeOK
    <2> HIDE DEF p
    <2>3. \A i \in DOMAIN queue' : (owns[t] # 0 /\ queue'[i] = p)
            \/ \E j \in DOMAIN queue : queue'[i] = queue[j]
      BY <1>0, <2>1, <2>2, ElementFacts
    <2> QED
      BY <1>1, <2>3 DEF Requests, Underway
  <1>4. owns[t] \in Nat /\ nextSession \in Nat /\ issued \in Nat /\ owns[t] <= nextSession
    BY DEF TypeOK, SessionInv, OwnersApart
  <1> HIDE DEF p
  <1>5. WaitersApart'
    <2>1. \A u \in Streams : waiting'[u] <= issued'
      BY <1>1, <1>2, <1>4 DEF SessionInv, WaitersApart
    <2>2. \A u, v \in Streams : u # v /\ waiting'[u] = waiting'[v] => waiting'[u] = 0
      BY <1>2 DEF SessionInv, WaitersApart
    <2>3. \A q \in Requests' : q.id <= issued'
      BY <1>0, <1>1, <1>3, <1>4 DEF SessionInv, WaitersApart
    <2> QED
      BY <2>1, <2>2, <2>3 DEF WaitersApart
  <1>6. OwnersApart'
    <2>1. \A u \in Streams : owns'[u] <= nextSession' /\ seen'[u] \in {0, owns'[u]}
      BY <1>1, <1>2, <1>4 DEF SessionInv, OwnersApart
    <2>2. \A u, v \in Streams : u # v /\ owns'[u] = owns'[v] => owns'[u] = 0
      BY <1>2 DEF SessionInv, OwnersApart
    <2> QED
      BY <2>1, <2>2 DEF OwnersApart
  <1>7. RequestsFit'
    <2> SUFFICES ASSUME NEW q \in Requests', NEW u \in Streams,
                        waiting'[u] # 0, waiting'[u] = q.id
                 PROVE  Fits(mode'[u], owns'[u], q)
      BY DEF RequestsFit
    <2>1. u # t /\ q \in Requests
      BY <1>0, <1>2, <1>3
    <2> QED
      BY <1>2, <2>1 DEF SessionInv, RequestsFit
  <1>8. ClosesUnowned'
    <2> SUFFICES ASSUME NEW q \in Requests', q.op = "close"
                 PROVE  q.session \in 1..nextSession' /\ ~Owned(q.session)'
      BY DEF ClosesUnowned
    <2>1. CASE q \in Requests
      <3>1. q.session \in 1..nextSession /\ ~Owned(q.session)
        BY <2>1 DEF SessionInv, ClosesUnowned
      <3>2. q.session # 0
        BY <1>4, <3>1
      <3> QED
        BY <1>1, <1>2, <3>1, <3>2 DEF Owned
    <2>2. CASE q = p /\ owns[t] # 0
      <3>1. q.session \in 1..nextSession'
        BY <1>0, <1>1, <1>4, <2>2
      <3>2. \A u \in Streams : owns'[u] # owns[t]
        BY <1>2, <2>2 DEF SessionInv, OwnersApart
      <3> QED
        BY <1>0, <2>2, <3>1, <3>2 DEF Owned
    <2> QED
      BY <1>3, <2>1, <2>2
  <1>9. ReplyExpected'
    <2> SUFFICES ASSUME worker = "reading", toMain # <<>>
                 PROVE  /\ ReplyFits(current, Head(toMain))
                        /\ Head(toMain).kind = "started" =>
                             /\ Head(toMain).session \in 1..nextSession
                             /\ ~Owned(Head(toMain).session)'
                             /\ \A q \in Requests' :
                                  q.op = "close" => q.session # Head(toMain).session
      BY <1>1 DEF ReplyExpected, ReplyFits
    <2>1. ReplyFits(current, Head(toMain))
      BY DEF SessionInv, ReplyExpected
    <2>2. ASSUME Head(toMain).kind = "started"
          PROVE  /\ Head(toMain).session \in 1..nextSession
                 /\ ~Owned(Head(toMain).session)'
                 /\ \A q \in Requests' :
                      q.op = "close" => q.session # Head(toMain).session
      <3>1. /\ Head(toMain).session \in 1..nextSession /\ ~Owned(Head(toMain).session)
            /\ \A q \in Requests : q.op = "close" => q.session # Head(toMain).session
        BY <2>2 DEF SessionInv, ReplyExpected
      <3>2. Head(toMain).session # 0
        BY <1>4, <3>1
      <3>3. \A u \in Streams : owns[u] # Head(toMain).session
        BY <3>1 DEF Owned
      <3>4. \A u \in Streams : owns'[u] # Head(toMain).session
        BY <1>2, <3>2, <3>3
      <3>5. \A q \in Requests' : q.op = "close" => q.session # Head(toMain).session
        BY <1>0, <1>3, <3>1, <3>3
      <3> QED
        BY <1>1, <3>1, <3>4, <3>5 DEF Owned
    <2> QED
      BY <2>1, <2>2
  <1> QED
    BY <1>5, <1>6, <1>7, <1>8, <1>9 DEF SessionInv

\* The helper's reply is to what it was asked, and a session it opens is new.
LEMMA AnswerKeepsApart ==
  ASSUME TypeOK, TypeOK', OneExchange, OneExchange', SessionInv,
         helper = "dispatching", NEW kind, NEW s, Answer(kind, s),
         nextSession' \in {nextSession, nextSession + 1},
         \A r \in Reply : r.kind = kind /\ r.session = s => ReplyFits(handling, r),
         kind \in Kinds, s \in Nat,
         kind = "started" => s = nextSession + 1 /\ nextSession' = nextSession + 1
  PROVE  SessionInv'
  <1>1. /\ UNCHANGED <<mode, waiting, owns, seen, issued, queue, worker, current,
                       toHelper, handling>>
        /\ helper' = "polling"
    BY DEF Answer, callerVars, clientVars
  <1>2. PICK k \in {kind, "error"} :
          toMain' = Append(toMain, [of |-> handling.id, kind |-> k, session |-> s])
    BY DEF Answer
  <1> DEFINE r == [of |-> handling.id, kind |-> k, session |-> s]
  <1>3. r \in Reply /\ r.kind = k /\ r.session = s
    BY DEF Reply, Kinds, TypeOK, Pending
  <1>4. toMain = <<>>
    BY DEF OneExchange
  <1> HIDE DEF r
  <1>5. Head(toMain') = r
    BY <1>2, <1>3, <1>4, AppendToEmpty DEF r
  <1>6. Requests' \subseteq Requests
    BY <1>1 DEF Requests, Underway
  <1>7. nextSession \in Nat /\ nextSession' \in Nat /\ nextSession <= nextSession'
    BY DEF TypeOK
  <1>8. WaitersApart' /\ RequestsFit'
    BY <1>1, <1>6 DEF SessionInv, WaitersApart, RequestsFit, Fits
  <1>9. OwnersApart'
    <2>1. \A t \in Streams : owns[t] <= nextSession /\ owns[t] \in Nat
      BY DEF SessionInv, OwnersApart, TypeOK
    <2>2. \A t \in Streams : owns'[t] <= nextSession'
      BY <1>1, <1>7, <2>1
    <2> QED
      BY <1>1, <2>2 DEF SessionInv, OwnersApart
  <1>10. \A p \in Requests : p.op = "close" => p.session \in 1..nextSession /\ ~Owned(p.session)
    BY DEF SessionInv, ClosesUnowned
  <1>11. ClosesUnowned'
    BY <1>1, <1>6, <1>7, <1>10 DEF ClosesUnowned, Owned
  <1>12. ASSUME worker' = "reading"
         PROVE  ReplyFits(current', Head(toMain'))
    <2>1. handling = current
      BY <1>1, <1>12 DEF OneExchange
    <2> QED
      BY <1>1, <1>3, <1>5, <2>1 DEF ReplyFits
  <1>13. ASSUME r.kind = "started"
         PROVE  /\ r.session \in 1..nextSession'
                /\ \A t \in Streams : owns'[t] # r.session
                /\ \A p \in Requests' : p.op = "close" => p.session # r.session
    <2>1. r.session = nextSession + 1 /\ nextSession' = nextSession + 1
      BY <1>3, <1>13
    <2>2. \A t \in Streams : owns'[t] # nextSession + 1
      BY <1>1, <1>7 DEF SessionInv, OwnersApart
    <2>3. \A p \in Requests : p.op = "close" => p.session # nextSession + 1
      BY <1>7, <1>10
    <2>4. r.session \in 1..nextSession'
      BY <1>7, <2>1
    <2>5. \A t \in Streams : owns'[t] # r.session
      BY <2>1, <2>2
    <2>6. \A p \in Requests' : p.op = "close" => p.session # r.session
      BY <1>6, <2>1, <2>3
    <2> QED
      BY <2>4, <2>5, <2>6
  <1>14. ReplyExpected'
    <2>1. Head(toMain)' = r
      BY <1>5
    <2> QED
      BY <1>12, <1>13, <2>1 DEF ReplyExpected, Owned
  <1> QED
    BY <1>8, <1>9, <1>11, <1>14 DEF SessionInv

\* The reply reaches the one caller that waits for it, and only an observing
\* one gets a session, which is nobody's.
LEMMA ReceiveKeepsApart ==
  ASSUME TypeOK, TypeOK', OneExchange, SessionInv, Receive
  PROVE  SessionInv'
  <1> DEFINE r == Head(toMain)
             mine(t) == waiting[t] # 0 /\ waiting[t] = current.id
             given(t) == mine(t) /\ mode[t] = "observing" /\ r.kind = "started"
  <1>1. worker = "reading" /\ toMain # <<>> /\ r \in Reply
    BY QueueFacts DEF Receive, TypeOK
  <1>2. /\ UNCHANGED <<issued, queue, current, toHelper, helper, handling, nextSession>>
        /\ worker' = "recv"
    BY DEF Receive, helperVars
  <1>3. Requests' \subseteq Requests /\ current \in Requests
    BY <1>1, <1>2 DEF Requests, Underway
  <1>4. \A t \in Streams : /\ ~mine(t) => /\ waiting'[t] = waiting[t] /\ mode'[t] = mode[t]
                                          /\ owns'[t] = owns[t] /\ seen'[t] = seen[t]
                           /\ mine(t) => waiting'[t] = 0
    BY DEF Receive, TypeOK
  <1>5. \A t \in Streams : owns'[t] = IF given(t) THEN r.session ELSE owns[t]
    BY DEF Receive
  <1>6. \A t \in Streams : mine(t) => Fits(mode[t], owns[t], current)
    BY <1>3 DEF SessionInv, RequestsFit
  <1>7. ReplyFits(current, r)
    BY <1>1 DEF SessionInv, ReplyExpected
  <1>8. r.kind = "started" =>
          /\ r.session \in 1..nextSession /\ \A t \in Streams : owns[t] # r.session
          /\ \A p \in Requests : p.op = "close" => p.session # r.session
    BY <1>1 DEF SessionInv, ReplyExpected, Owned
  <1>9. \A t, u \in Streams : mine(t) /\ mine(u) => t = u
    BY DEF SessionInv, WaitersApart
  <1>10. nextSession \in Nat /\ issued \in Nat
    BY DEF TypeOK
  <1>11. WaitersApart'
    <2>1. \A t \in Streams : waiting'[t] <= issued'
      BY <1>2, <1>4, <1>10 DEF SessionInv, WaitersApart
    <2>2. \A t, u \in Streams : t # u /\ waiting'[t] = waiting'[u] => waiting'[t] = 0
      BY <1>4 DEF SessionInv, WaitersApart
    <2> QED
      BY <1>2, <1>3, <2>1, <2>2 DEF SessionInv, WaitersApart
  <1>12. OwnersApart'
    <2>1. \A t \in Streams : owns'[t] <= nextSession'
      BY <1>2, <1>5, <1>8, <1>10 DEF SessionInv, OwnersApart
    <2>2. ASSUME NEW t \in Streams PROVE seen'[t] \in {0, owns'[t]}
      <3>1. seen'[t] = IF mine(t) /\ mode[t] \in {"observing", "polling"}
                          /\ r.kind \in {"started", "event", "end"}
                       THEN r.session ELSE seen[t]
        BY DEF Receive
      <3>2. seen[t] \in {0, owns[t]}
        BY DEF SessionInv, OwnersApart
      <3>3. CASE mine(t) /\ mode[t] = "observing"
        <4>1. current.op = "observe"
          BY <1>6, <3>3 DEF Fits
        <4>2. r.kind \in {"started", "error"}
          BY <1>7, <4>1 DEF ReplyFits
        <4> QED
          BY <1>5, <3>1, <3>2, <3>3, <4>2
      <3>4. CASE mine(t) /\ mode[t] = "polling"
        <4>1. current.op = "poll" /\ current.session = owns[t]
          BY <1>6, <3>4 DEF Fits
        <4>2. r.kind = "error" \/ r.session = owns[t]
          BY <1>7, <4>1 DEF ReplyFits
        <4> QED
          BY <1>5, <3>1, <3>2, <3>4, <4>2
      <3>5. CASE ~(mine(t) /\ mode[t] \in {"observing", "polling"})
        BY <1>5, <3>1, <3>2, <3>5
      <3> QED
        BY <3>3, <3>4, <3>5
    <2>3. ASSUME NEW t \in Streams, NEW u \in Streams, t # u, owns'[t] = owns'[u]
          PROVE  owns'[t] = 0
      <3>1. CASE ~given(t) /\ ~given(u)
        BY <1>5, <2>3, <3>1 DEF SessionInv, OwnersApart
      <3>2. CASE given(t)
        BY <1>5, <1>8, <1>9, <2>3, <3>2
      <3>3. CASE given(u)
        BY <1>5, <1>8, <1>9, <2>3, <3>3
      <3> QED
        BY <3>1, <3>2, <3>3
    <2> QED
      BY <2>1, <2>2, <2>3 DEF OwnersApart
  <1>13. RequestsFit'
    <2> SUFFICES ASSUME NEW p \in Requests', NEW t \in Streams,
                        waiting'[t] # 0, waiting'[t] = p.id
                 PROVE  Fits(mode'[t], owns'[t], p)
      BY DEF RequestsFit
    <2>1. ~mine(t)
      BY <1>4
    <2> QED
      BY <1>3, <1>4, <2>1 DEF SessionInv, RequestsFit
  <1>14. ClosesUnowned'
    <2> SUFFICES ASSUME NEW p \in Requests', p.op = "close"
                 PROVE  p.session \in 1..nextSession' /\ ~Owned(p.session)'
      BY DEF ClosesUnowned
    <2>1. p.session \in 1..nextSession /\ \A t \in Streams : owns[t] # p.session
      BY <1>3 DEF SessionInv, ClosesUnowned, Owned
    <2>2. \A t \in Streams : owns'[t] # p.session
      BY <1>3, <1>5, <1>8, <2>1
    <2> QED
      BY <1>2, <2>1, <2>2 DEF Owned
  <1>15. ReplyExpected'
    BY <1>2 DEF ReplyExpected
  <1> QED
    BY <1>11, <1>12, <1>13, <1>14, <1>15 DEF SessionInv

\* Streams forward events of their own sessions only, no two own the same one,
\* and no Close on its way names a session somebody still polls: for any number
\* of callers, any queue capacity and any number of requests.
THEOREM SessionsApart == Spec => []SessionsKeptApart
  <1>1. Init => SessionInv
    <2> SUFFICES ASSUME Init PROVE SessionInv
      OBVIOUS
    <2>1. Requests = {}
      BY DEF Init, Requests, Underway
    <2> QED
      BY <2>1 DEF Init, SessionInv, WaitersApart, OwnersApart, RequestsFit,
         ClosesUnowned, ReplyExpected
  <1>2. TypeOK /\ TypeOK' /\ OneExchange /\ OneExchange' /\ SessionInv /\ [Next]_vars
          => SessionInv'
    <2> SUFFICES ASSUME TypeOK, TypeOK', OneExchange, OneExchange', SessionInv, [Next]_vars
                 PROVE  SessionInv'
      OBVIOUS
    <2>1. ASSUME NEW t \in Streams, Read(t) PROVE SessionInv'
      BY <2>1, ExchangeKeepsApart DEF Read, Fits
    <2>2. ASSUME NEW t \in Streams, Observe(t) PROVE SessionInv'
      BY <2>2, ExchangeKeepsApart DEF Observe, Fits
    <2>3. ASSUME NEW t \in Streams, Poll(t) PROVE SessionInv'
      BY <2>3, ExchangeKeepsApart DEF Poll, Fits
    <2>4. ASSUME NEW t \in Streams, TimeOut(t) PROVE SessionInv'
      <3>1. Requests' = Requests
        BY <2>4 DEF TimeOut, Requests, Underway, clientVars, helperVars
      <3>2. \A u \in Streams : waiting'[u] = 0
              \/ (waiting'[u] = waiting[u] /\ mode'[u] = mode[u])
        <4>1. /\ waiting' = [waiting EXCEPT ![t] = 0]
              /\ mode' = [mode EXCEPT ![t] = FailedMode(mode[t])]
              /\ waiting \in [Streams -> Nat] /\ mode \in [Streams -> Modes]
          BY <2>4 DEF TimeOut, TypeOK
        <4> QED
          BY <4>1
      <3> QED
        BY <2>4, <3>1, <3>2, LetGoKeepsApart DEF TimeOut, clientVars, helperVars
    <2>5. ASSUME NEW t \in Streams, Drop(t) PROVE SessionInv'
      BY <2>5, DropKeepsApart
    <2>6. CASE SkipCancelled
      <3>1. Requests' \subseteq Requests
        BY <2>6, ElementFacts
        DEF SkipCancelled, Requests, Underway, TypeOK, wireVars, helperVars
      <3> QED
        BY <2>6, <3>1, LetGoKeepsApart DEF SkipCancelled, callerVars, wireVars, helperVars
    <2>7. ASSUME Break PROVE SessionInv'
      <3>1. Requests' \subseteq Requests
        BY <2>7 DEF Break, Requests, Underway, helperVars
      <3>2. \A t \in Streams : waiting'[t] = 0
        BY <2>7 DEF Break
      <3>3. UNCHANGED <<owns, seen, issued, nextSession>> /\ worker' # "reading"
        BY <2>7 DEF Break, helperVars
      <3> QED
        BY <3>1, <3>2, <3>3, LetGoKeepsApart
    <2>8. CASE Send /\ ~Break
      <3>1. /\ queue # <<>> /\ queue' = Tail(queue) /\ current' = Head(queue)
            /\ toHelper' = Append(toHelper, Head(queue)) /\ toMain' = toMain
            /\ toMain = <<>>
            /\ UNCHANGED <<mode, waiting, owns, seen, issued, helper, handling, nextSession>>
        BY <2>8 DEF Send, callerVars, helperVars, OneExchange
      <3>2. queue \in Seq(Pending) /\ toHelper \in Seq(Pending) /\ Head(queue) \in Pending
        BY <3>1, QueueFacts DEF TypeOK
      <3>3. /\ \A i \in DOMAIN queue' : \E j \in DOMAIN queue : queue'[i] = queue[j]
            /\ \E j \in DOMAIN queue : Head(queue) = queue[j]
            /\ \A i \in DOMAIN toHelper' : toHelper'[i] = Head(queue)
                 \/ \E j \in DOMAIN toHelper : toHelper'[i] = toHelper[j]
        BY <3>1, <3>2, ElementFacts
      <3>4. Requests' \subseteq Requests
        BY <3>1, <3>3 DEF Requests, Underway
      <3> QED
        BY <3>1, <3>4, LetGoKeepsApart
    <2>9. CASE Receive
      BY <2>9, ReceiveKeepsApart
    <2>10. ASSUME UNCHANGED <<callerVars, clientVars, toHelper, toMain, handling, nextSession>>,
                  helper' = helper \/ helper' = "gone"
           PROVE  SessionInv'
      <3>1. Requests' \subseteq Requests
        BY <2>10 DEF Requests, Underway, clientVars
      <3> QED
        BY <2>10, <3>1, LetGoKeepsApart DEF callerVars, clientVars
    <2>11. ASSUME NEW s \in sessions, LeaseElapses(s) PROVE SessionInv'
      BY <2>10, <2>11 DEF LeaseElapses, wireVars
    <2>12. CASE Expire \/ StopCollectors
      BY <2>10, <2>12 DEF Expire, StopCollectors, wireVars
    <2>13. CASE ReplyFails \/ HelperEnds
      BY <2>10, <2>13 DEF ReplyFails, HelperEnds, Leave
    <2>14. CASE UNCHANGED vars
      BY <2>10, <2>14 DEF vars, wireVars, helperVars
    <2>15. CASE Take
      <3>1. Requests' \subseteq Requests
        <4>1. /\ \E j \in DOMAIN toHelper : handling' = toHelper[j]
              /\ \A i \in DOMAIN toHelper' : \E j \in DOMAIN toHelper : toHelper'[i] = toHelper[j]
          BY <2>15, ElementFacts DEF Take, TypeOK
        <4> QED
          BY <2>15, <4>1 DEF Take, Requests, Underway, clientVars
      <3> QED
        BY <2>15, <3>1, LetGoKeepsApart DEF Take, callerVars, clientVars
    <2>16. CASE DispatchClose \/ DispatchRead \/ Refuse
      BY <2>16, AnswerKeepsApart DEF DispatchClose, DispatchRead, Refuse, ReplyFits, Kinds
    <2>17. CASE DispatchObserve
      <3>1. nextSession + 1 \in Nat
        BY DEF TypeOK
      <3> QED
        BY <2>17, <3>1, AnswerKeepsApart DEF DispatchObserve, ReplyFits, Kinds
    <2>18. CASE DispatchPoll
      <3>1. handling.session \in Nat
        BY DEF TypeOK, Pending
      <3> QED
        BY <2>18, <3>1, AnswerKeepsApart DEF DispatchPoll, ReplyFits, Kinds
    <2> QED
      BY <2>1, <2>2, <2>3, <2>4, <2>5, <2>6, <2>7, <2>8, <2>9, <2>11, <2>12, <2>13,
         <2>14, <2>15, <2>16, <2>17, <2>18
      DEF Next, Worker, Dispatch, Send, ReadFails
  <1>3. SessionInv => SessionsKeptApart
    BY DEF SessionInv, OwnersApart, ClosesUnowned, SessionsKeptApart, StreamsSeparated,
       NoForeignClose, Requests
  <1> QED
    BY <1>1, <1>2, <1>3, TypeCorrect, OneExchangeInvariant, PTL DEF Spec

-----------------------------------------------------------------------------
(* SystemMonitor                                                           *)

\* viewers counts the live subscriptions, and the one being made is not among
\* them yet.
Counted ==
  /\ IsFiniteSet(held) /\ viewers = Cardinality(held)
  /\ call.op = "subscribe" => call.who \notin held

\* A receiver has passed no more than was sent.
CursorsInside == \A s \in Subscribers : cursor[s] <= Len(sent)

\* The snapshot worker holds the snapshot the monitor has, or the next one.
InHand ==
  collected = IF snapper \in {"collected", "sent"} THEN latest + 1 ELSE latest

\* The number of the newest snapshot that was sent, as far as this one is.
NewestSent == IF snapper = "sent" THEN collected ELSE latest

\* No snapshot was sent after the first n events.
NoneAfter(n) == \A j \in DOMAIN sent : j > n => sent[j].kind # "snapshot"

\* The last snapshot in the channel is the newest one.
LastIsNewest ==
  \A i \in DOMAIN sent :
    sent[i].kind = "snapshot" /\ NoneAfter(i) => sent[i].stamp >= NewestSent

\* subscribe has counted s and has not yet read its initial snapshot.
Reading(s) == call = [op |-> "initial", who |-> s]

\* A subscriber with no snapshot ahead of it misses at most one.
CaughtUp(s) == NoneAfter(cursor[s]) => view[s] + 1 >= NewestSent

AllCaughtUp == \A s \in held : ~Reading(s) => CaughtUp(s)

\* Nobody starts a worker once the monitor is stopped, and join_workers has
\* taken every handle there is.
Stopping ==
  /\ halted => main # "serving" /\ call.op # "initial"
  /\ main \in {"joining", "joined"} =>
       /\ halted
       /\ snapper # System!None => "snapshot" \in joining
       /\ activity # System!None => "activity" \in joining
  /\ System!JoinedQuiet

\* What the channel and the two ends of it agree on.
Channel == CursorsInside /\ InHand /\ LastIsNewest /\ AllCaughtUp

\* The inductive strengthening of SystemViewers.
SystemInv == System!TypeOK /\ Counted /\ Channel /\ Stopping

-----------------------------------------------------------------------------
(* Types and the count of the viewers.                                     *)

\* The two kinds of step of the dispatch thread that change the count: one
\* subscription is added to those there are,
LEMMA RegisterCounts ==
  ASSUME ViewerLimit \in Nat, System!TypeOK, Counted, NEW s \in Subscribers, System!Register(s)
  PROVE  System!TypeOK' /\ Counted'
  <1>1. call = [op |-> "subscribe", who |-> s] /\ s \notin held
    BY DEF System!Register, Counted
  <1>2. CASE System!MayRegister
    <2>1. /\ viewers' = viewers + 1 /\ held' = held \cup {s}
          /\ cursor' = [cursor EXCEPT ![s] = Len(sent)]
          /\ call' = [op |-> "initial", who |-> s]
      BY <1>2 DEF System!Register
    <2>2. IsFiniteSet(held') /\ Cardinality(held') = Cardinality(held) + 1
      BY <1>1, <2>1, FS_AddElement DEF Counted
    <2>3. viewers' \in 0..ViewerLimit
      BY <1>2, <2>1 DEF System!MayRegister, System!TypeOK
    <2>4. call' \in System!Calls /\ call'.op # "subscribe"
      BY <2>1 DEF System!Calls
    <2>5. cursor' \in [Subscribers -> Nat]
      <3>1. Len(sent) \in Nat
        BY DEF System!TypeOK
      <3> QED
        BY <2>1, <3>1 DEF System!TypeOK
    <2>6. System!TypeOK'
      BY <2>1, <2>3, <2>4, <2>5 DEF System!Register, System!TypeOK, System!workerVars,
                                    System!mainVars
    <2>7. Counted'
      BY <2>1, <2>2, <2>4 DEF Counted
    <2> QED
      BY <2>6, <2>7
  <1>3. CASE ~System!MayRegister
    <2>1. call' = [op |-> System!None] /\ UNCHANGED <<viewers, held, cursor>>
      BY <1>3 DEF System!Register
    <2>2. call' \in System!Calls /\ call'.op # "subscribe"
      BY <2>1 DEF System!Calls, System!None
    <2> QED
      BY <2>1, <2>2 DEF System!Register, System!TypeOK, Counted, System!workerVars, System!mainVars
  <1> QED
    BY <1>2, <1>3

\* and one that is there is taken away.
LEMMA DropCounts ==
  ASSUME ViewerLimit \in Nat, System!TypeOK, Counted, NEW s \in Subscribers, System!Drop(s)
  PROVE  System!TypeOK' /\ Counted'
  <1>1. s \in held /\ held' = held \ {s} /\ viewers' = viewers - 1 /\ call' = call
    BY DEF System!Drop
  <1>2. IsFiniteSet(held') /\ Cardinality(held') = Cardinality(held) - 1
    BY <1>1, FS_RemoveElement DEF Counted
  <1>3. viewers # 0
    BY <1>1, FS_EmptySet DEF Counted
  <1>4. viewers' \in 0..ViewerLimit
    BY <1>1, <1>3 DEF System!TypeOK
  <1>5. cursor' \in [Subscribers -> Nat] /\ view' \in [Subscribers -> Nat]
    BY DEF System!Drop, System!Forget, System!TypeOK
  <1> QED
    BY <1>1, <1>2, <1>4, <1>5 DEF System!Drop, System!TypeOK, Counted, System!workerVars,
                                  System!mainVars

\* A poll moves a receiver within the naturals.
LEMMA PollType ==
  ASSUME Capacity \in Nat, System!TypeOK, NEW s \in Subscribers, System!Poll(s)
  PROVE  System!TypeOK'
  <1>0. Len(sent) \in Nat /\ cursor[s] \in Nat /\ view[s] \in Nat
    BY DEF System!TypeOK
  <1>1. cursor' \in [Subscribers -> Nat] /\ view' \in [Subscribers -> Nat]
    <2>1. CASE cursor[s] < System!Forgotten
      <3>2. System!Forgotten \in Nat
        BY <1>0 DEF System!Forgotten
      <3>3. ~(cursor[s] >= System!Forgotten)
        BY <1>0, <2>1, <3>2
      <3>1. System!Lagged(s)
        BY <2>1, <3>3 DEF System!Poll
      <3> QED
        BY <3>1, <3>2 DEF System!Lagged, System!TypeOK
    <2>2. CASE cursor[s] >= System!Forgotten /\ cursor[s] < Len(sent)
      <3>1. System!NextEvent(s)
        <4>1. ~(cursor[s] < System!Forgotten)
          BY <1>0, <2>2 DEF System!Forgotten
        <4> QED
          BY <2>2, <4>1 DEF System!Poll
      <3>2. sent[cursor[s] + 1] \in System!Events
        BY <1>0, <2>2 DEF System!TypeOK
      <3>3. cursor[s] + 1 \in Nat /\ sent[cursor[s] + 1].stamp \in Nat
        BY <1>0, <3>2 DEF System!Events
      <3> QED
        BY <1>0, <3>1, <3>3 DEF System!NextEvent, System!TypeOK
    <2>3. CASE ~(cursor[s] < System!Forgotten) /\ ~(cursor[s] >= System!Forgotten /\ cursor[s] < Len(sent))
      BY <2>3 DEF System!Poll, System!TypeOK
    <2> QED
      BY <2>1, <2>2, <2>3
  <1>2. call' \in System!Calls
    BY DEF System!Poll, System!Calls
  <1> QED
    BY <1>1, <1>2 DEF System!Poll, System!TypeOK, System!workerVars, System!mainVars

\* Every step keeps the types and the count.
LEMMA CountStep ==
  ASSUME ViewerLimit \in Nat, Capacity \in Nat, System!TypeOK, Counted, [System!Next]_System!vars
  PROVE  System!TypeOK' /\ Counted'
  <1>0. ASSUME UNCHANGED <<viewers, held, call>> PROVE Counted'
    BY <1>0 DEF Counted
  <1>1. ASSUME NEW s \in Subscribers, NEW op \in {"subscribe", "poll"}, System!Accept(op, s)
        PROVE  System!TypeOK' /\ Counted'
    <2>1. call' \in System!Calls /\ call'.op = op /\ call'.who = s
      BY <1>1 DEF System!Accept, System!Calls
    <2>2. op = "subscribe" => s \notin held
      BY <1>1 DEF System!Accept
    <2> QED
      BY <1>1, <2>1, <2>2 DEF System!Accept, System!TypeOK, Counted, System!workerVars,
                              System!mainVars
  <1>2. ASSUME NEW s \in Subscribers, System!Register(s) PROVE System!TypeOK' /\ Counted'
    BY <1>2, RegisterCounts
  <1>3. ASSUME NEW s \in Subscribers, System!ReadInitial(s) PROVE System!TypeOK' /\ Counted'
    <2>1. call' \in System!Calls /\ call'.op # "subscribe"
      BY <1>3 DEF System!ReadInitial, System!Calls, System!None
    <2>2. view' \in [Subscribers -> Nat]
      BY <1>3 DEF System!ReadInitial, System!TypeOK
    <2> QED
      BY <1>3, <2>1, <2>2 DEF System!ReadInitial, System!TypeOK, Counted, System!mainVars
  <1>4. ASSUME NEW s \in Subscribers, System!Poll(s) PROVE System!TypeOK' /\ Counted'
    <2>1. call'.op # "subscribe"
      BY <1>4 DEF System!Poll, System!None
    <2> QED
      BY <1>4, <2>1, PollType DEF System!Poll, Counted
  <1>5. ASSUME NEW s \in Subscribers, System!Drop(s) PROVE System!TypeOK' /\ Counted'
    BY <1>5, DropCounts
  <1>6. CASE System!Collect
    <2>1. collected + 1 \in Nat
      BY DEF System!TypeOK
    <2> QED
      BY <1>0, <1>6, <2>1 DEF System!Collect, System!TypeOK, System!mainVars
  <1>7. CASE System!SendSnapshot
    <2>1. [kind |-> "snapshot", stamp |-> collected] \in System!Events
      BY DEF System!Events, System!TypeOK
    <2> QED
      BY <1>0, <1>7, <2>1 DEF System!SendSnapshot, System!TypeOK, System!mainVars
  <1>8. CASE System!WriteSnapshot \/ System!SnapperEnds
    BY <1>0, <1>8 DEF System!WriteSnapshot, System!SnapperEnds, System!TypeOK, System!mainVars
  <1>9. CASE System!CheckActivity
    BY <1>0, <1>9 DEF System!CheckActivity, System!Active, System!TypeOK, System!mainVars
  <1>10. CASE System!SendActivity
    <2>1. [kind |-> "activity", stamp |-> latest] \in System!Events
      BY DEF System!Events, System!TypeOK
    <2> QED
      BY <1>0, <1>10, <2>1 DEF System!SendActivity, System!TypeOK, System!mainVars
  <1>11. CASE System!SkipActivity \/ System!ActivityEnds
    BY <1>0, <1>11 DEF System!SkipActivity, System!ActivityEnds, System!TypeOK, System!mainVars
  <1>12. CASE System!Shutdown
    BY <1>0, <1>12 DEF System!Shutdown, System!StopDispatch, System!Stop, System!TakeWorkers,
                       System!Joined, System!TypeOK, System!workerVars
  <1>13. CASE UNCHANGED System!vars
    BY <1>0, <1>13 DEF System!vars, System!TypeOK, System!workerVars, System!mainVars
  <1> QED
    BY <1>1, <1>2, <1>3, <1>4, <1>5, <1>6, <1>7, <1>8, <1>9, <1>10, <1>11, <1>12, <1>13
    DEF System!Next, System!Dispatch, System!Snapshots, System!Activities

\* Initially nobody watches.
LEMMA CountInit ==
  ASSUME ViewerLimit \in Nat, System!Init
  PROVE  System!TypeOK /\ Counted
  <1>1. sent \in Seq(System!Events) /\ call \in System!Calls /\ call.op # "subscribe"
    BY DEF System!Init, System!Calls, System!None
  <1>2. IsFiniteSet({}) /\ Cardinality({}) = 0
    BY FS_EmptySet
  <1>3. System!TypeOK
    <2>1. viewers \in 0..ViewerLimit /\ latest \in Nat /\ collected \in Nat
      BY DEF System!Init
    <2>2. cursor \in [Subscribers -> Nat] /\ view \in [Subscribers -> Nat]
      BY DEF System!Init
    <2>3. /\ halted \in BOOLEAN /\ sensors \in BOOLEAN /\ held \subseteq Subscribers
          /\ snapper \in {System!None, "check", "collected", "sent", "done"}
          /\ activity \in {System!None, "check", "polled", "done"}
          /\ main \in {"serving", "stopping", "joining", "joined"}
          /\ joining \subseteq {"snapshot", "activity"}
      BY DEF System!Init, System!None
    <2> QED
      BY <1>1, <2>1, <2>2, <2>3 DEF System!TypeOK
  <1>4. Counted
    BY <1>1, <1>2 DEF System!Init, Counted
  <1> QED
    BY <1>3, <1>4

\* The monitor's variables keep their types; in particular the viewers that
\* subscribe counts never exceed the limit and never fall below zero.
THEOREM SystemTypeCorrect ==
  ASSUME ViewerLimit \in Nat, Capacity \in Nat
  PROVE  System!Spec => []System!TypeOK
  <1>1. System!Init => System!TypeOK /\ Counted
    BY CountInit
  <1>2. System!TypeOK /\ Counted /\ [System!Next]_System!vars => System!TypeOK' /\ Counted'
    BY CountStep
  <1> QED
    BY <1>1, <1>2, PTL DEF System!Spec

-----------------------------------------------------------------------------
(* No subscriber is left behind.                                           *)

\* Initial snapshots are read by the call that made the subscription.
LEMMA ReadingCall ==
  ASSUME NEW s, Reading(s)
  PROVE  call.op = "initial" /\ call.who = s
  BY DEF Reading

\* A step that sends nothing: a subscriber it changes must be caught up again.
LEMMA QuietKeepsChannel ==
  ASSUME System!TypeOK, System!TypeOK', Channel, UNCHANGED sent, InHand', CursorsInside',
         NewestSent' = NewestSent,
         \A s \in held' : ~Reading(s)' =>
           \/ CaughtUp(s)'
           \/ (s \in held /\ ~Reading(s) /\ cursor'[s] = cursor[s] /\ view'[s] = view[s])
  PROVE  Channel'
  <1>1. LastIsNewest'
    BY DEF Channel, LastIsNewest, NoneAfter
  <1>2. ASSUME NEW s \in held, ~Reading(s), cursor'[s] = cursor[s], view'[s] = view[s]
        PROVE  CaughtUp(s)'
    BY <1>2 DEF Channel, AllCaughtUp, CaughtUp, NoneAfter
  <1>3. AllCaughtUp'
    BY <1>2 DEF AllCaughtUp
  <1> QED
    BY <1>1, <1>3 DEF Channel

\* A step that sends one event: an activity batch changes nobody's snapshot,
\* and a snapshot is ahead of everybody.
LEMMA SendKeepsChannel ==
  ASSUME System!TypeOK, System!TypeOK', Channel, NEW e \in System!Events, sent' = Append(sent, e),
         UNCHANGED <<held, cursor, view, call>>, InHand',
         \/ e.kind = "activity" /\ NewestSent' = NewestSent
         \/ e.kind = "snapshot" /\ e.stamp = NewestSent'
  PROVE  Channel'
  <1>1. /\ Len(sent) \in Nat /\ Len(sent') = Len(sent) + 1
        /\ DOMAIN sent = 1..Len(sent) /\ DOMAIN sent' = 1..(Len(sent) + 1)
        /\ \A j \in 1..Len(sent) : sent'[j] = sent[j]
        /\ sent'[Len(sent) + 1] = e
    BY DEF System!TypeOK
  <1>2. CursorsInside'
    <2>1. \A s \in Subscribers : cursor[s] \in Nat /\ cursor[s] <= Len(sent)
      BY DEF System!TypeOK, Channel, CursorsInside
    <2> QED
      BY <1>1, <2>1 DEF CursorsInside
  <1>3. NewestSent' \in Nat
    BY DEF NewestSent, System!TypeOK
  <1>4. ASSUME NEW n \in Nat, n <= Len(sent), NoneAfter(n)'
        PROVE  NoneAfter(n) /\ e.kind = "activity"
    <2>1. \A j \in 1..(Len(sent) + 1) : j > n => sent'[j].kind # "snapshot"
      BY <1>1, <1>4 DEF NoneAfter
    <2>2. sent'[Len(sent) + 1].kind # "snapshot"
      BY <1>1, <1>4, <2>1
    <2>3. \A j \in 1..Len(sent) : j > n => sent[j].kind # "snapshot"
      BY <1>1, <2>1
    <2> QED
      BY <1>1, <2>2, <2>3 DEF NoneAfter
  <1>5. LastIsNewest'
    <2> SUFFICES ASSUME NEW i \in DOMAIN sent', sent'[i].kind = "snapshot", NoneAfter(i)'
                 PROVE  sent'[i].stamp >= NewestSent'
      BY DEF LastIsNewest
    <2>1. CASE i = Len(sent) + 1
      BY <1>1, <1>3, <2>1
    <2>2. CASE i # Len(sent) + 1
      <3>1. i \in 1..Len(sent) /\ sent'[i] = sent[i]
        BY <1>1, <2>2
      <3>2. NoneAfter(i) /\ e.kind = "activity"
        BY <1>1, <1>4, <3>1
      <3> QED
        BY <1>1, <3>1, <3>2 DEF Channel, LastIsNewest
    <2> QED
      BY <2>1, <2>2
  <1>6. AllCaughtUp'
    <2> SUFFICES ASSUME NEW s \in held, ~Reading(s)', NoneAfter(cursor[s])'
                 PROVE  view[s] + 1 >= NewestSent'
      BY DEF AllCaughtUp, CaughtUp
    <2>0. s \in Subscribers
      BY DEF System!TypeOK
    <2>1. cursor[s] \in Nat /\ cursor[s] <= Len(sent) /\ cursor'[s] = cursor[s]
      BY <2>0 DEF System!TypeOK, Channel, CursorsInside
    <2>2. \A j \in DOMAIN sent' : j > cursor[s] => sent'[j].kind # "snapshot"
      BY DEF NoneAfter
    <2>3. NoneAfter(cursor[s]) /\ e.kind = "activity"
      BY <1>4, <2>1
    <2>4. ~Reading(s)
      BY DEF Reading
    <2> QED
      BY <2>3, <2>4 DEF Channel, AllCaughtUp, CaughtUp
  <1> QED
    BY <1>2, <1>5, <1>6 DEF Channel

\* A poll leaves its subscriber caught up: with the monitor's snapshot after a
\* gap, with the newest one when it receives the last snapshot in the channel.
LEMMA PollKeepsChannel ==
  ASSUME Capacity \in Nat, System!TypeOK, System!TypeOK', Channel, NEW s \in Subscribers,
  System!Poll(s)
  PROVE  Channel'
  <1>0. Len(sent) \in Nat /\ DOMAIN sent = 1..Len(sent)
        /\ cursor[s] \in Nat /\ view[s] \in Nat /\ System!Forgotten \in Nat /\ System!Forgotten <= Len(sent)
    BY DEF System!TypeOK, System!Forgotten
  <1>1. /\ call = [op |-> "poll", who |-> s] /\ UNCHANGED <<latest, sent, held, snapper, collected>>
        /\ CASE cursor[s] < System!Forgotten -> System!Lagged(s)
             [] cursor[s] >= System!Forgotten /\ cursor[s] < Len(sent) -> System!NextEvent(s)
             [] OTHER -> UNCHANGED <<cursor, view>>
    BY DEF System!Poll, System!workerVars
  <1>2. \A u : ~Reading(u)
    BY <1>1, ReadingCall
  <1>3. NewestSent' = NewestSent /\ InHand' /\ NewestSent \in Nat
    BY <1>1 DEF NewestSent, InHand, Channel, System!TypeOK
  <1>4. \A u \in Subscribers : cursor[u] <= Len(sent)
    BY DEF Channel, CursorsInside
  <1>5. CASE cursor[s] < System!Forgotten
    <2>1. System!Lagged(s)
      BY <1>0, <1>1, <1>5
    <2>2. /\ cursor'[s] = System!Forgotten /\ view'[s] = latest
          /\ \A u \in Subscribers \ {s} : cursor'[u] = cursor[u] /\ view'[u] = view[u]
      BY <2>1 DEF System!Lagged, System!TypeOK
    <2>3. CursorsInside'
      BY <1>0, <1>1, <1>4, <2>2 DEF CursorsInside
    <2>4. CaughtUp(s)'
      <3>1. latest + 1 >= NewestSent
        BY DEF Channel, InHand, NewestSent, System!TypeOK
      <3> QED
        BY <1>3, <2>2, <3>1 DEF CaughtUp
    <2> QED
      BY <1>1, <1>2, <1>3, <2>2, <2>3, <2>4, QuietKeepsChannel DEF System!TypeOK
  <1>6. CASE cursor[s] >= System!Forgotten /\ cursor[s] < Len(sent)
    <2>0. ~(cursor[s] < System!Forgotten)
      BY <1>0, <1>6
    <2>1. System!NextEvent(s)
      BY <1>1, <1>6, <2>0
    <2> DEFINE e == sent[cursor[s] + 1]
    <2>2. cursor[s] + 1 \in DOMAIN sent /\ e \in System!Events
      BY <1>0, <1>6 DEF System!TypeOK
    <2>3. /\ cursor'[s] = cursor[s] + 1
          /\ view'[s] = IF e.kind = "snapshot" THEN e.stamp ELSE view[s]
          /\ \A u \in Subscribers \ {s} : cursor'[u] = cursor[u] /\ view'[u] = view[u]
      BY <2>1 DEF System!NextEvent, System!TypeOK
    <2> HIDE DEF e
    <2>4. CursorsInside'
      <3>1. cursor'[s] <= Len(sent')
        BY <1>0, <1>1, <1>6, <2>3
      <3> QED
        BY <1>1, <1>4, <2>3, <3>1 DEF CursorsInside
    <2>5. ASSUME s \in held PROVE CaughtUp(s)'
      <3> SUFFICES ASSUME NoneAfter(cursor[s])'
                   PROVE  view'[s] + 1 >= NewestSent
        BY <1>3 DEF CaughtUp
      <3>1. \A j \in DOMAIN sent : j > cursor[s] + 1 => sent[j].kind # "snapshot"
        BY <1>1, <2>3 DEF NoneAfter
      <3>2. CASE e.kind = "snapshot"
        <4>1. e.stamp >= NewestSent
          BY <2>2, <3>1, <3>2 DEF Channel, LastIsNewest, NoneAfter, e
        <4>2. e.stamp \in Nat
          BY <2>2 DEF System!Events
        <4> QED
          BY <1>3, <2>3, <3>2, <4>1, <4>2
      <3>3. CASE e.kind # "snapshot"
        <4>1. \A j \in DOMAIN sent : j > cursor[s] => sent[j].kind # "snapshot"
          <5> SUFFICES ASSUME NEW j \in DOMAIN sent, j > cursor[s]
                       PROVE  sent[j].kind # "snapshot"
            OBVIOUS
          <5>1. j = cursor[s] + 1 \/ j > cursor[s] + 1
            BY <1>0
          <5> QED
            BY <3>1, <3>3, <5>1 DEF e
        <4>2. view[s] + 1 >= NewestSent
          BY <1>2, <2>5, <4>1 DEF Channel, AllCaughtUp, CaughtUp, NoneAfter
        <4> QED
          BY <2>3, <3>3, <4>2
      <3> QED
        BY <3>2, <3>3
    <2> QED
      BY <1>1, <1>2, <1>3, <2>3, <2>4, <2>5, QuietKeepsChannel DEF System!TypeOK
  <1>7. CASE ~(cursor[s] < System!Forgotten) /\ ~(cursor[s] >= System!Forgotten /\ cursor[s] < Len(sent))
    <2>1. UNCHANGED <<cursor, view>>
      BY <1>1, <1>7
    <2>2. CursorsInside'
      BY <1>1, <1>4, <2>1 DEF CursorsInside
    <2> QED
      BY <1>1, <1>2, <1>3, <2>1, <2>2, QuietKeepsChannel
  <1> QED
    BY <1>5, <1>6, <1>7

\* Every step keeps the two ends of the channel in agreement.
LEMMA ChannelStep ==
  ASSUME Capacity \in Nat, System!TypeOK, System!TypeOK', Counted, Channel,
  [System!Next]_System!vars
  PROVE  Channel'
  <1>0. ASSUME UNCHANGED <<sent, held, cursor, view, call>>, InHand', NewestSent' = NewestSent
        PROVE  Channel'
    <2>1. CursorsInside'
      BY <1>0 DEF Channel, CursorsInside
    <2>2. \A s : Reading(s)' <=> Reading(s)
      BY <1>0 DEF Reading
    <2> QED
      BY <1>0, <2>1, <2>2, QuietKeepsChannel
  <1>1. ASSUME UNCHANGED <<latest, snapper, collected>>
        PROVE  InHand' /\ NewestSent' = NewestSent
    BY <1>1 DEF Channel, InHand, NewestSent
  <1>2. ASSUME NEW s \in Subscribers, NEW op \in {"subscribe", "poll"}, System!Accept(op, s)
        PROVE  Channel'
    <2>1. UNCHANGED <<latest, sent, held, cursor, view, snapper, collected>>
      BY <1>2 DEF System!Accept, System!workerVars
    <2>2. \A u : ~Reading(u)
      BY <1>2, ReadingCall DEF System!Accept, System!None
    <2>3. CursorsInside'
      BY <2>1 DEF Channel, CursorsInside
    <2> QED
      BY <1>1, <2>1, <2>2, <2>3, QuietKeepsChannel
  <1>3. ASSUME NEW s \in Subscribers, System!Register(s) PROVE Channel'
    <2>1. /\ UNCHANGED <<latest, sent, view, snapper, collected>>
          /\ call = [op |-> "subscribe", who |-> s]
      BY <1>3 DEF System!Register, System!workerVars
    <2>2. \A u : ~Reading(u)
      BY <2>1, ReadingCall
    <2>3. CASE System!MayRegister
      <3>1. /\ held' = held \cup {s} /\ cursor' = [cursor EXCEPT ![s] = Len(sent)]
            /\ Reading(s)'
        BY <1>3, <2>3 DEF System!Register, Reading
      <3>2. cursor'[s] = Len(sent) /\ \A u \in Subscribers \ {s} : cursor'[u] = cursor[u]
        BY <3>1 DEF System!TypeOK
      <3>3. Len(sent) \in Nat
        BY DEF System!TypeOK
      <3>4. CursorsInside'
        BY <2>1, <3>2, <3>3 DEF Channel, CursorsInside
      <3>5. \A u \in held' : ~Reading(u)' =>
              u \in held /\ ~Reading(u) /\ cursor'[u] = cursor[u] /\ view'[u] = view[u]
        BY <2>1, <2>2, <3>1, <3>2 DEF System!TypeOK
      <3> QED
        BY <1>1, <2>1, <3>4, <3>5, QuietKeepsChannel
    <2>4. CASE ~System!MayRegister
      <3>1. UNCHANGED <<held, cursor>>
        BY <1>3, <2>4 DEF System!Register
      <3>2. CursorsInside'
        BY <2>1, <3>1 DEF Channel, CursorsInside
      <3> QED
        BY <1>1, <2>1, <2>2, <3>1, <3>2, QuietKeepsChannel
    <2> QED
      BY <2>3, <2>4
  <1>4. ASSUME NEW s \in Subscribers, System!ReadInitial(s) PROVE Channel'
    <2>1. /\ UNCHANGED <<latest, sent, held, cursor, collected>>
          /\ snapper' = IF snapper = System!None THEN "check" ELSE snapper
          /\ call = [op |-> "initial", who |-> s]
          /\ view'[s] = latest /\ \A u \in Subscribers \ {s} : view'[u] = view[u]
      BY <1>4 DEF System!ReadInitial, System!TypeOK
    <2>2. InHand' /\ NewestSent' = NewestSent
      BY <2>1 DEF Channel, InHand, NewestSent, System!None
    <2>3. CursorsInside'
      BY <2>1 DEF Channel, CursorsInside
    <2>4. \A u : Reading(u) => u = s
      BY <2>1, ReadingCall
    <2>5. CaughtUp(s)'
      <3>1. latest + 1 >= NewestSent
        BY DEF Channel, InHand, NewestSent, System!TypeOK
      <3> QED
        BY <2>1, <2>2, <3>1 DEF CaughtUp
    <2> QED
      BY <2>1, <2>2, <2>3, <2>4, <2>5, QuietKeepsChannel DEF System!TypeOK
  <1>5. ASSUME NEW s \in Subscribers, System!Poll(s) PROVE Channel'
    BY <1>5, PollKeepsChannel
  <1>6. ASSUME NEW s \in Subscribers, System!Drop(s) PROVE Channel'
    <2>1. /\ UNCHANGED <<latest, sent, snapper, collected, call>> /\ held' = held \ {s}
          /\ cursor'[s] = 0
          /\ \A u \in Subscribers \ {s} : cursor'[u] = cursor[u] /\ view'[u] = view[u]
      BY <1>6 DEF System!Drop, System!Forget, System!workerVars, System!TypeOK
    <2>2. CursorsInside'
      <3>1. Len(sent) \in Nat
        BY DEF System!TypeOK
      <3> QED
        BY <2>1, <3>1 DEF Channel, CursorsInside
    <2>3. \A u : Reading(u)' <=> Reading(u)
      BY <2>1 DEF Reading
    <2> QED
      BY <1>1, <2>1, <2>2, <2>3, QuietKeepsChannel DEF System!TypeOK
  <1>7. CASE System!Collect
    <2>1. InHand' /\ NewestSent' = NewestSent
      BY <1>7 DEF System!Collect, Channel, InHand, NewestSent
    <2> QED
      BY <1>0, <1>7, <2>1 DEF System!Collect
  <1>8. CASE System!SendSnapshot
    <2> DEFINE e == [kind |-> "snapshot", stamp |-> collected]
    <2>1. e \in System!Events /\ e.kind = "snapshot" /\ e.stamp = collected
      BY DEF System!Events, System!TypeOK
    <2>2. InHand' /\ NewestSent' = collected
      BY <1>8 DEF System!SendSnapshot, Channel, InHand, NewestSent
    <2>3. sent' = Append(sent, e) /\ UNCHANGED <<held, cursor, view, call>>
      BY <1>8 DEF System!SendSnapshot
    <2> HIDE DEF e
    <2> QED
      BY <2>1, <2>2, <2>3, SendKeepsChannel
  <1>9. CASE System!WriteSnapshot
    <2>1. InHand' /\ NewestSent' = NewestSent
      BY <1>9 DEF System!WriteSnapshot, Channel, InHand, NewestSent
    <2> QED
      BY <1>0, <1>9, <2>1 DEF System!WriteSnapshot
  <1>10. CASE System!SnapperEnds
    <2>1. InHand' /\ NewestSent' = NewestSent
      BY <1>10 DEF System!SnapperEnds, Channel, InHand, NewestSent
    <2> QED
      BY <1>0, <1>10, <2>1 DEF System!SnapperEnds
  <1>11. CASE System!SendActivity
    <2> DEFINE e == [kind |-> "activity", stamp |-> latest]
    <2>1. e \in System!Events /\ e.kind = "activity"
      BY DEF System!Events, System!TypeOK
    <2>2. sent' = Append(sent, e) /\ UNCHANGED <<held, cursor, view, call, latest, snapper, collected>>
      BY <1>11 DEF System!SendActivity
    <2> HIDE DEF e
    <2> QED
      BY <1>1, <2>1, <2>2, SendKeepsChannel
  <1>12. CASE System!CheckActivity \/ System!SkipActivity \/ System!ActivityEnds
    BY <1>0, <1>1, <1>12 DEF System!CheckActivity, System!SkipActivity, System!ActivityEnds
  <1>13. CASE System!Shutdown
    BY <1>0, <1>1, <1>13
    DEF System!Shutdown, System!StopDispatch, System!Stop, System!TakeWorkers, System!Joined,
        System!workerVars
  <1>14. CASE UNCHANGED System!vars
    BY <1>0, <1>1, <1>14 DEF System!vars, System!workerVars
  <1> QED
    BY <1>2, <1>3, <1>4, <1>5, <1>6, <1>7, <1>8, <1>9, <1>10, <1>11, <1>12, <1>13, <1>14
    DEF System!Next, System!Dispatch, System!Snapshots, System!Activities

-----------------------------------------------------------------------------
(* The shutdown.                                                           *)

\* Every step keeps what the shutdown relies on: only a call that holds the
\* viewers mutex starts workers, and the stop waited for that mutex.
LEMMA StoppingStep ==
  ASSUME System!TypeOK, Stopping, [System!Next]_System!vars
  PROVE  Stopping'
  <1>0. ASSUME UNCHANGED <<halted, main, joining, snapper, activity>>,
               call'.op = "initial" => ~halted \/ call.op = "initial"
        PROVE  Stopping'
    BY <1>0 DEF Stopping, System!JoinedQuiet
  <1>1. ASSUME NEW s \in Subscribers, NEW op \in {"subscribe", "poll"}, System!Accept(op, s)
        PROVE  Stopping'
    BY <1>0, <1>1 DEF System!Accept, System!mainVars, System!workerVars
  <1>2. ASSUME NEW s \in Subscribers, System!Register(s) PROVE Stopping'
    <2>1. System!MayRegister => ~halted
      BY DEF System!MayRegister
    <2>2. ~System!MayRegister => call'.op # "initial"
      BY <1>2 DEF System!Register, System!None
    <2> QED
      BY <1>0, <1>2, <2>1, <2>2 DEF System!Register, System!mainVars, System!workerVars
  <1>3. ASSUME NEW s \in Subscribers, System!ReadInitial(s) PROVE Stopping'
    <2>1. call.op = "initial" /\ call'.op # "initial"
      BY <1>3 DEF System!ReadInitial, System!None
    <2>2. ~halted /\ main \notin {"joining", "joined"}
      BY <2>1 DEF Stopping
    <2> QED
      BY <1>3, <2>1, <2>2 DEF System!ReadInitial, System!mainVars, Stopping, System!JoinedQuiet
  <1>4. ASSUME NEW s \in Subscribers, System!Poll(s) PROVE Stopping'
    <2>1. call'.op # "initial"
      BY <1>4 DEF System!Poll, System!None
    <2> QED
      BY <1>0, <1>4, <2>1 DEF System!Poll, System!mainVars, System!workerVars
  <1>5. ASSUME NEW s \in Subscribers, System!Drop(s) PROVE Stopping'
    BY <1>0, <1>5 DEF System!Drop, System!mainVars, System!workerVars
  <1>6. CASE System!Snapshots
    BY <1>6
    DEF System!Snapshots, System!Collect, System!SendSnapshot, System!WriteSnapshot,
        System!SnapperEnds, System!mainVars, Stopping,
        System!JoinedQuiet, System!None
  <1>7. CASE System!Activities
    BY <1>7
    DEF System!Activities, System!CheckActivity, System!SendActivity, System!SkipActivity,
        System!ActivityEnds, System!mainVars,
        Stopping, System!JoinedQuiet, System!None
  <1>8. CASE System!Shutdown
    <2>1. CASE System!StopDispatch
      BY <2>1 DEF System!StopDispatch, System!workerVars, Stopping, System!JoinedQuiet
    <2>2. CASE System!Stop
      BY <2>2 DEF System!Stop, System!Unlocked, System!workerVars, Stopping, System!JoinedQuiet
    <2>3. CASE System!TakeWorkers
      BY <2>3 DEF System!TakeWorkers, System!workerVars, Stopping, System!JoinedQuiet
    <2>4. CASE System!Joined
      BY <2>4 DEF System!Joined, System!workerVars, Stopping, System!JoinedQuiet
    <2> QED
      BY <1>8, <2>1, <2>2, <2>3, <2>4 DEF System!Shutdown
  <1>9. CASE UNCHANGED System!vars
    BY <1>0, <1>9 DEF System!vars, System!mainVars, System!workerVars
  <1> QED
    BY <1>1, <1>2, <1>3, <1>4, <1>5, <1>6, <1>7, <1>8, <1>9 DEF System!Next, System!Dispatch

\* The viewers counted are the live subscriptions, a subscriber that has read
\* all it was sent is at most one snapshot behind the monitor, through lag and
\* the workers' order of send and write, and no worker runs after join_workers:
\* for every number of subscribers and snapshots, every limit and capacity
\* (SystemMonitor::subscribe, Subscription::next_event, join_workers).
THEOREM SystemViewersServed ==
  ASSUME ViewerLimit \in Nat, Capacity \in Nat
  PROVE  /\ System!Spec => []System!SystemViewers
         /\ MCSpec => []SystemViewers
  <1>1. System!Init => SystemInv
    <2> SUFFICES ASSUME System!Init PROVE SystemInv
      OBVIOUS
    <2>1. System!TypeOK /\ Counted
      BY CountInit
    <2>2. Channel
      BY DEF System!Init, Channel, CursorsInside, InHand, LastIsNewest, AllCaughtUp, System!None
    <2>3. Stopping
      BY DEF System!Init, Stopping, System!JoinedQuiet
    <2> QED
      BY <2>1, <2>2, <2>3 DEF SystemInv
  <1>2. SystemInv /\ [System!Next]_System!vars => SystemInv'
    BY CountStep, ChannelStep, StoppingStep DEF SystemInv
  <1>3. SystemInv => System!SystemViewers
    <2> SUFFICES ASSUME SystemInv PROVE System!SystemViewers
      OBVIOUS
    <2>1. System!ViewersCounted /\ System!JoinedQuiet
      BY DEF SystemInv, Counted, Stopping, System!ViewersCounted, System!Cardinality,
             Cardinality
    <2>2. System!AtMostOneBehind
      <3> SUFFICES ASSUME NEW s \in held, cursor[s] = Len(sent),
                          call # [op |-> "initial", who |-> s]
                   PROVE  view[s] + 1 >= latest
        BY DEF System!AtMostOneBehind
      <3>1. NoneAfter(cursor[s])
        BY DEF NoneAfter, SystemInv, System!TypeOK
      <3>2. view[s] + 1 >= NewestSent
        BY <3>1 DEF SystemInv, Channel, AllCaughtUp, CaughtUp, Reading
      <3>3. NewestSent >= latest /\ NewestSent \in Nat /\ latest \in Nat /\ view[s] \in Nat
        BY DEF NewestSent, SystemInv, Channel, InHand, System!TypeOK
      <3> QED
        BY <3>2, <3>3
    <2> QED
      BY <2>1, <2>2 DEF System!SystemViewers
  <1>4. MCInit => System!Init
    BY DEF MCInit
  <1>5. [MCNext]_<<which, vars, systemVars>> => [System!Next]_System!vars
    BY DEF MCNext, systemVars, System!vars, System!workerVars, System!mainVars
  <1> QED
    BY <1>1, <1>2, <1>3, <1>4, <1>5, PTL DEF System!Spec, MCSpec, SystemViewers
=============================================================================
