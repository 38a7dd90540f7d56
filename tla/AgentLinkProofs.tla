-------------------------- MODULE AgentLinkProofs --------------------------
(***************************************************************************)
(* Proofs about AgentLink for any number of callers and requests and any   *)
(* limits of the pending table, the outgoing channel and the permits.      *)
(***************************************************************************)
EXTENDS AgentLink, FiniteSetTheorems, SequenceTheorems, TLAPS

\* Where a request is before its response: in the hub's outgoing channel, in
\* the connection, or with a task of the agent.
Queued == Range(outq)
Sent   == Range(toAgent)
Asked  == {k.req : k \in tasks}
Requests == Queued \cup Sent \cup Asked

\* The responses on their way to the hub.
Responses == Range(toHub)

\* The tasks of the agent whose new session is still to be recorded.
Starting == {k \in tasks : k.phase = "reply" /\ k.kind = "started"}

\* Requests that name a session.
Names(m, s) == m.op \in {"poll", "close"} /\ m.session = s

\* The sets that the limits of TypeOK count are finite.
Finite == IsFiniteSet(tasks) /\ IsFiniteSet(pending)

\* A request and its response exist once: no number is used twice, no message is
\* in two places, and a request is gone when its response is sent.
OneCopy ==
  /\ IsInjective(outq) /\ IsInjective(toAgent) /\ IsInjective(toHub)
  /\ Queued \cap Sent = {} /\ Queued \cap Asked = {} /\ Sent \cap Asked = {}
  /\ \A m, n \in Requests : m.id = n.id => m = n
  /\ \A r, q \in Responses : r.id = q.id => r = q
  /\ \A m \in Requests, r \in Responses : m.id # r.id
  /\ \A k, l \in tasks : k.req = l.req => k = l
  /\ \A m \in Requests \cup Responses : m.id \in 1..next

\* The request m is the one a caller in mode o with session s waits for,
Fits(o, s, m) ==
  /\ o = "reading" => m.op = "read"
  /\ o = "observing" => m.op = "observe"
  /\ o = "polling" => m.op = "poll" /\ m.session = s

\* the response r is one it can do with,
Suits(o, s, r) ==
  /\ o = "reading" => r.kind \in {"data", "error"}
  /\ o = "observing" => r.kind \in {"started", "error"}
  /\ o = "polling" => r.kind = "error" \/ (r.kind \in {"event", "end"} /\ r.session = s)

\* and what the task k has for an answer is what its request asks for.
Answers(k) ==
  \/ k.kind = "error"
  \/ k.req.op = "read" /\ k.kind = "data"
  \/ k.req.op = "observe" /\ k.kind = "started"
  \/ k.req.op = "poll" /\ k.kind \in {"event", "end"} /\ k.session = k.req.session
  \/ k.req.op = "close" /\ k.kind = "closed"

\* Callers wait for different requests.
WaitersApart ==
  /\ \A t \in Callers : waiting[t] <= next /\ (waiting[t] # 0 <=> mode[t] \in Waiting)
  /\ \A t, u \in Callers : t # u /\ waiting[t] = waiting[u] => waiting[t] = 0

\* What a caller waits for is what it asked, on both ways.
Fitting ==
  \A t \in Callers : waiting[t] # 0 =>
    /\ \A m \in Requests : waiting[t] = m.id => Fits(mode[t], owns[t], m)
    /\ \A r \in Responses : waiting[t] = r.id => Suits(mode[t], owns[t], r)

\* A task answers what it was asked, and only one that was let through touches
\* the helper's sessions, never that of the agent's own viewers.
TasksFit ==
  /\ \A k \in tasks :
       /\ IF k.phase = "reply" THEN Answers(k) ELSE k.kind = "error"
       /\ k.phase \in {"ask", "reply"} => ~Names(k.req, OwnSession)
  /\ OwnSession \in helper /\ OwnSession \notin linkSessions

\* A session nobody has been given yet and no request names.
Unused(s) ==
  /\ s \in 2..nextSession
  /\ \A t \in Callers : owns[t] # s
  /\ \A m \in Requests : ~Names(m, s)

\* The sessions on their way to a caller are unused and different.
StartsApart ==
  /\ \A k \in Starting : Unused(k.session)
  /\ \A r \in Responses : r.kind = "started" => Unused(r.session)
  /\ \A k, l \in Starting : k.session = l.session => k = l
  /\ \A r, q \in Responses :
       r.kind = "started" /\ q.kind = "started" /\ r.session = q.session => r = q
  /\ \A k \in Starting, r \in Responses : r.kind = "started" => k.session # r.session

\* Callers own different sessions, which the helper has handed out, and the only
\* request that names the session of a caller in its loop is the one it waits for.
OwnersApart ==
  /\ \A t \in Callers :
       /\ owns[t] \in {0} \cup 2..nextSession /\ seen[t] \in {0, owns[t]}
       /\ mode[t] \in {"open", "polling"} =>
            owns[t] # 0 /\ \A m \in Requests : Names(m, owns[t]) => m.id = waiting[t]
  /\ \A t, u \in Callers : t # u /\ owns[t] = owns[u] => owns[t] = 0
  /\ \A m \in Requests : m.op \in {"poll", "close"} => m.session <= nextSession
  /\ OwnSession <= nextSession

\* While the agent runs it has on record what callers own, unless the response
\* that ends the session is on its way.
Recorded ==
  agent = "run" =>
    /\ OpenSessionsRecorded
    /\ \A t \in Callers : mode[t] = "polling" /\ owns[t] \notin linkSessions =>
         /\ \A m \in Requests : m.id # waiting[t]
         /\ \A r \in Responses : r.id = waiting[t] => r.kind \in {"end", "error"}
    /\ \A r \in Responses : r.kind = "started" => r.session \in linkSessions

\* What the callers rely on.
CallerInv ==
  WaitersApart /\ Fitting /\ TasksFit /\ StartsApart /\ OwnersApart /\ Recorded

\* An agent that left its session loop has closed the connection.
Down == agent = "ended" => ~conn

\* The inductive strengthening of LinkKeepsApart and LinkRecords.
Inv == TypeOK /\ Finite /\ OneCopy /\ CallerInv /\ Down /\ PendingTracked

-----------------------------------------------------------------------------
(* Sequences without repetition.                                           *)

\* Append adds its element to what a sequence holds,
LEMMA AppendRange ==
  ASSUME NEW S, NEW s \in Seq(S), NEW e \in S
  PROVE  /\ Append(s, e) \in Seq(S) /\ Len(Append(s, e)) = Len(s) + 1
         /\ Range(Append(s, e)) = Range(s) \cup {e}
         /\ IsInjective(s) /\ e \notin Range(s) => IsInjective(Append(s, e))
  <1> DEFINE a == Append(s, e)
  <1>1. /\ a \in Seq(S) /\ Len(a) = Len(s) + 1 /\ Len(s) \in Nat
        /\ DOMAIN s = 1..Len(s) /\ DOMAIN a = 1..(Len(s) + 1)
        /\ a[Len(s) + 1] = e
    OBVIOUS
  <1>2. \A i \in 1..Len(s) : a[i] = s[i]
    OBVIOUS
  <1> HIDE DEF a
  <1>3. \A i \in DOMAIN a : i = Len(s) + 1 \/ i \in 1..Len(s)
    BY <1>1
  <1>4. 1..Len(s) \subseteq DOMAIN a /\ Len(s) + 1 \in DOMAIN a
    BY <1>1
  <1>5. Range(a) = Range(s) \cup {e}
    BY <1>1, <1>2, <1>3, <1>4 DEF Range
  <1>6. ASSUME IsInjective(s), e \notin Range(s) PROVE IsInjective(a)
    <2> SUFFICES ASSUME NEW i \in DOMAIN a, NEW j \in DOMAIN a, a[i] = a[j] PROVE i = j
      BY DEF IsInjective
    <2>1. \A n \in 1..Len(s) : s[n] # e
      BY <1>1, <1>6 DEF Range
    <2>2. \A n, m \in 1..Len(s) : s[n] = s[m] => n = m
      BY <1>1, <1>6 DEF IsInjective
    <2> QED
      BY <1>1, <1>2, <1>3, <2>1, <2>2
  <1> QED
    BY <1>1, <1>5, <1>6 DEF a

\* and taking the head takes away what it was.
LEMMA TailRange ==
  ASSUME NEW S, NEW s \in Seq(S), s # <<>>, IsInjective(s)
  PROVE  /\ Head(s) \in S /\ Head(s) \in Range(s)
         /\ Tail(s) \in Seq(S) /\ Len(Tail(s)) <= Len(s)
         /\ Range(Tail(s)) = Range(s) \ {Head(s)} /\ IsInjective(Tail(s))
  <1>1. Len(s) \in Nat \ {0}
    BY EmptySeq, Zenon
  <1>2. /\ Head(s) = s[1] /\ Head(s) \in S /\ DOMAIN s = 1..Len(s)
        /\ Tail(s) \in Seq(S) /\ Len(Tail(s)) = Len(s) - 1
        /\ \A i \in 1..Len(Tail(s)) : Tail(s)[i] = s[i + 1]
    BY <1>1, HeadTailProperties
  <1> DEFINE a == Tail(s)
  <1>3. DOMAIN a = 1..(Len(s) - 1) /\ \A i \in 1..(Len(s) - 1) : a[i] = s[i + 1]
    BY <1>2
  <1> HIDE DEF a
  <1>4. \A i, j \in 1..Len(s) : s[i] = s[j] => i = j
    BY <1>2 DEF IsInjective
  <1>5. Range(a) = Range(s) \ {s[1]}
    <2>1. ASSUME NEW x \in Range(a) PROVE x \in Range(s) \ {s[1]}
      <3>1. PICK i \in 1..(Len(s) - 1) : x = s[i + 1]
        BY <1>3, <2>1 DEF Range
      <3>2. i + 1 \in 1..Len(s) /\ 1 \in 1..Len(s) /\ i + 1 # 1
        BY <1>1
      <3>3. s[i + 1] # s[1]
        BY <1>4, <3>2
      <3> QED
        BY <1>2, <3>1, <3>2, <3>3 DEF Range
    <2>2. ASSUME NEW x \in Range(s), x # s[1] PROVE x \in Range(a)
      <3>1. PICK i \in 1..Len(s) : x = s[i]
        BY <1>2, <2>2 DEF Range
      <3>2. i # 1
        BY <2>2, <3>1
      <3>3. i - 1 \in 1..(Len(s) - 1) /\ (i - 1) + 1 = i
        BY <1>1, <3>1, <3>2
      <3>4. a[i - 1] = s[i]
        BY <1>3, <3>3
      <3> QED
        BY <1>3, <3>1, <3>3, <3>4 DEF Range
    <2> QED
      BY <2>1, <2>2
  <1>6. IsInjective(a)
    <2> SUFFICES ASSUME NEW i \in DOMAIN a, NEW j \in DOMAIN a, a[i] = a[j] PROVE i = j
      BY DEF IsInjective
    <2>1. i \in 1..(Len(s) - 1) /\ j \in 1..(Len(s) - 1)
      BY <1>3
    <2>2. i + 1 \in 1..Len(s) /\ j + 1 \in 1..Len(s) /\ s[i + 1] = s[j + 1]
      BY <1>1, <1>3, <2>1
    <2>3. i + 1 = j + 1
      BY <1>4, <2>2
    <2> QED
      BY <2>1, <2>3
  <1>7. s[1] \in Range(s)
    BY <1>1, <1>2 DEF Range
  <1> QED
    BY <1>1, <1>2, <1>5, <1>6, <1>7 DEF a

\* An empty sequence holds nothing.
LEMMA EmptyRange == Range(<<>>) = {} /\ IsInjective(<<>>)
  BY DEF Range, IsInjective

-----------------------------------------------------------------------------
(* Types and limits.                                                       *)

\* What one step does to a counted set: one more, one less, or one replaced.
LEMMA CountFacts ==
  ASSUME NEW S, IsFiniteSet(S), NEW x
  PROVE  /\ Cardinality(S) \in Nat
         /\ IsFiniteSet(S \cup {x}) /\ Cardinality(S \cup {x}) <= Cardinality(S) + 1
         /\ IsFiniteSet(S \ {x}) /\ Cardinality(S \ {x}) <= Cardinality(S)
         /\ x \in S => \A y : /\ IsFiniteSet((S \ {x}) \cup {y})
                              /\ Cardinality((S \ {x}) \cup {y}) <= Cardinality(S)
  <1>1. Cardinality(S) \in Nat
    BY FS_CardinalityType
  <1>2. IsFiniteSet(S \cup {x}) /\ Cardinality(S \cup {x}) <= Cardinality(S) + 1
    BY <1>1, FS_AddElement
  <1>3. IsFiniteSet(S \ {x}) /\ Cardinality(S \ {x}) <= Cardinality(S)
          /\ (x \in S => Cardinality(S \ {x}) = Cardinality(S) - 1)
    BY <1>1, FS_RemoveElement
  <1>4. ASSUME x \in S, NEW y
        PROVE  /\ IsFiniteSet((S \ {x}) \cup {y})
               /\ Cardinality((S \ {x}) \cup {y}) <= Cardinality(S)
    <2> DEFINE R == S \ {x}
    <2>1. IsFiniteSet(R) /\ Cardinality(R) = Cardinality(S) - 1
      BY <1>3, <1>4
    <2> HIDE DEF R
    <2>2. /\ IsFiniteSet(R \cup {y})
          /\ Cardinality(R \cup {y}) = Cardinality(R) \/ Cardinality(R \cup {y}) = Cardinality(R) + 1
      BY <2>1, FS_AddElement
    <2> QED
      BY <1>1, <2>1, <2>2 DEF R
  <1> QED
    BY <1>1, <1>2, <1>3, <1>4

\* The steps of the agent's tasks replace one task by another.
LEMMA TaskTypes ==
  ASSUME TypeOK, Finite, NEW k \in tasks, Check(k) \/ Ask(k)
  PROVE  tasks' \subseteq Task /\ IsFiniteSet(tasks') /\ Cardinality(tasks') <= Cardinality(tasks)
  <1>0. k \in Task /\ k.req \in Request /\ k.req.session \in Nat /\ nextSession + 1 \in Nat
    BY DEF TypeOK, Task, Request
  <1>1. PICK j : tasks' = (tasks \ {k}) \cup {j} /\ j \in Task
    <2>1. CASE Check(k)
      <3>1. \A p \in {"ask", "refused"} : [k EXCEPT !.phase = p] \in Task
        BY <1>0 DEF Task
      <3> QED
        BY <2>1, <3>1 DEF Check
    <2>2. CASE Ask(k)
      <3>1. \A kind \in Kinds, s \in Nat :
              [k EXCEPT !.phase = "reply", !.kind = kind, !.session = s] \in Task
        BY <1>0 DEF Task
      <3> QED
        BY <1>0, <2>2, <3>1 DEF Ask, Answer, Kinds
    <2> QED
      BY <2>1, <2>2
  <1> QED
    BY <1>1, CountFacts DEF TypeOK, Finite

\* A caller's request is registered and queued within the limits.
LEMMA ExchangeTypes ==
  ASSUME PendingLimit \in Nat, OutCapacity \in Nat, TypeOK, Finite, NEW t \in Callers,
         NEW op \in Ops, NEW during \in Modes, Exchange(t, op, during)
  PROVE  TypeOK' /\ Finite'
  <1>1. next \in Nat /\ next' = next + 1 /\ next' \in Nat
    BY DEF Exchange, TypeOK
  <1> DEFINE m == Message(op, owns[t])
  <1>2. m \in Request
    BY <1>1 DEF Message, Request, TypeOK
  <1>3. mode' \in [Callers -> Modes]
    BY DEF Exchange, TypeOK, FailedMode, Modes
  <1> HIDE DEF m
  <1>4. /\ (pending' = pending \cup {next + 1} /\ Cardinality(pending) < PendingLimit)
             \/ pending' = pending
        /\ (outq' = Append(outq, m) /\ Len(outq) < OutCapacity) \/ outq' = outq
        /\ waiting' = [waiting EXCEPT ![t] = next + 1] \/ waiting' = waiting
    BY DEF Exchange, CanQueue, m
  <1>5. /\ pending' \subseteq 1..next' /\ IsFiniteSet(pending')
        /\ Cardinality(pending') <= PendingLimit
    <2>1. /\ Cardinality(pending) \in Nat /\ IsFiniteSet(pending \cup {next + 1})
          /\ Cardinality(pending \cup {next + 1}) <= Cardinality(pending) + 1
          /\ Cardinality(pending \cup {next + 1}) \in Nat
      BY CountFacts, FS_CardinalityType DEF Finite
    <2>2. Cardinality(pending') <= PendingLimit /\ IsFiniteSet(pending')
      <3>1. Cardinality(pending) <= PendingLimit /\ IsFiniteSet(pending)
        BY DEF TypeOK, Finite
      <3>2. CASE pending' = pending
        BY <3>1, <3>2
      <3>3. CASE pending' = pending \cup {next + 1} /\ Cardinality(pending) < PendingLimit
        <4>1. Cardinality(pending \cup {next + 1}) <= PendingLimit
          BY <2>1, <3>3
        <4> QED
          BY <2>1, <3>3, <4>1
      <3> QED
        BY <1>4, <3>2, <3>3
    <2>3. 1..next \subseteq 1..(next + 1) /\ next + 1 \in 1..(next + 1)
      BY <1>1
    <2> QED
      BY <1>1, <1>4, <2>2, <2>3 DEF TypeOK
  <1>6. outq' \in Seq(Request) /\ Len(outq') <= OutCapacity
    <2>1. Len(outq) \in Nat /\ Len(outq) <= OutCapacity /\ outq \in Seq(Request)
      BY DEF TypeOK
    <2>2. Append(outq, m) \in Seq(Request) /\ Len(Append(outq, m)) = Len(outq) + 1
      BY <1>2, <2>1, AppendRange
    <2> QED
      BY <1>4, <2>1, <2>2
  <1>7. waiting' \in [Callers -> Nat]
    BY <1>1, <1>4 DEF TypeOK
  <1> QED
    BY <1>1, <1>3, <1>5, <1>6, <1>7 DEF Exchange, TypeOK, Finite, netVars, agentVars

\* Every step keeps the types and the limits.
LEMMA TypeStep ==
  ASSUME PendingLimit \in Nat, OutCapacity \in Nat, Permits \in Nat,
         TypeOK, Finite, OneCopy, [Next]_vars
  PROVE  TypeOK' /\ Finite'
  <1>1. ASSUME NEW t \in Callers, Read(t) \/ Observe(t) \/ Poll(t) PROVE TypeOK' /\ Finite'
    BY <1>1, ExchangeTypes DEF Read, Observe, Poll, Ops, Modes
  <1>2. ASSUME NEW t \in Callers, TimeOut(t) PROVE TypeOK' /\ Finite'
    <2>1. /\ pending' \subseteq 1..next /\ IsFiniteSet(pending')
          /\ Cardinality(pending') <= PendingLimit
      <3>1. /\ Cardinality(pending) \in Nat /\ IsFiniteSet(pending \ {waiting[t]})
            /\ Cardinality(pending \ {waiting[t]}) <= Cardinality(pending)
            /\ Cardinality(pending \ {waiting[t]}) \in Nat
        BY CountFacts, FS_CardinalityType DEF Finite
      <3>2. pending' = pending \ {waiting[t]}
        BY <1>2 DEF TimeOut
      <3>3. Cardinality(pending) <= PendingLimit /\ pending \subseteq 1..next
        BY DEF TypeOK
      <3>4. Cardinality(pending') <= PendingLimit
        BY <3>1, <3>2, <3>3
      <3> QED
        BY <3>1, <3>2, <3>3, <3>4
    <2>2. mode' \in [Callers -> Modes] /\ waiting' \in [Callers -> Nat]
      BY <1>2 DEF TimeOut, TypeOK, FailedMode, Modes
    <2> QED
      BY <1>2, <2>1, <2>2 DEF TimeOut, TypeOK, Finite, netVars, agentVars
  <1>3. ASSUME NEW op \in Ops, NEW s \in Nat, next' = next + 1,
               outq' = outq \/ (CanQueue /\ outq' = Append(outq, Message(op, s)))
        PROVE  /\ next' \in Nat /\ 1..next \subseteq 1..next'
               /\ outq' \in Seq(Request) /\ Len(outq') <= OutCapacity
    <2>1. next' \in Nat /\ 1..next \subseteq 1..next'
      BY <1>3 DEF TypeOK
    <2>2. Message(op, s) \in Request
      BY <2>1, <1>3 DEF Message, Request
    <2>3. Len(outq) \in Nat /\ Len(outq) <= OutCapacity /\ outq \in Seq(Request)
      BY DEF TypeOK
    <2>4. Append(outq, Message(op, s)) \in Seq(Request)
            /\ Len(Append(outq, Message(op, s))) = Len(outq) + 1
      BY <2>2, <2>3, AppendRange
    <2> QED
      BY <1>3, <2>1, <2>3, <2>4 DEF CanQueue
  <1>4. ASSUME NEW t \in Callers, Drop(t) PROVE TypeOK' /\ Finite'
    <2>1. owns[t] \in Nat
      BY DEF TypeOK
    <2>2. /\ mode' \in [Callers -> Modes] /\ waiting' \in [Callers -> Nat]
          /\ owns' \in [Callers -> Nat] /\ seen' \in [Callers -> Nat]
      BY <1>4 DEF Drop, TypeOK, Modes
    <2>3. CASE owns[t] # 0
      <3>1. /\ next' \in Nat /\ 1..next \subseteq 1..next'
            /\ outq' \in Seq(Request) /\ Len(outq') <= OutCapacity
        BY <1>3, <1>4, <2>1, <2>3 DEF Drop, Ops
      <3> QED
        BY <1>4, <2>2, <3>1 DEF Drop, TypeOK, Finite, netVars, agentVars
    <2>4. CASE owns[t] = 0
      BY <1>4, <2>2, <2>4 DEF Drop, TypeOK, Finite, netVars, agentVars
    <2> QED
      BY <2>3, <2>4
  <1>5. ASSUME NEW op \in {"poll", "close"}, Stray(op) PROVE TypeOK' /\ Finite'
    <2>1. /\ next' \in Nat /\ 1..next \subseteq 1..next'
          /\ outq' \in Seq(Request) /\ Len(outq') <= OutCapacity
      BY <1>3, <1>5 DEF Stray, Ops, OwnSession
    <2> QED
      BY <1>5, <2>1 DEF Stray, TypeOK, Finite, callerVars, netVars, agentVars
  <1>6. CASE HubWrite
    <2>1. /\ Head(outq) \in Request /\ Tail(outq) \in Seq(Request)
          /\ Len(Tail(outq)) <= Len(outq) /\ Len(Tail(outq)) \in Nat /\ Len(outq) \in Nat
      BY <1>6, TailRange DEF HubWrite, TypeOK, OneCopy
    <2>2. Append(toAgent, Head(outq)) \in Seq(Request)
      BY <2>1 DEF TypeOK
    <2>3. Len(outq') <= OutCapacity
      BY <1>6, <2>1 DEF HubWrite, TypeOK
    <2> QED
      BY <1>6, <2>1, <2>2, <2>3 DEF HubWrite, TypeOK, Finite, callerVars, agentVars
  <1>7. CASE HubReceive
    <2>1. Head(toHub) \in Response /\ Tail(toHub) \in Seq(Response)
      BY <1>7, TailRange DEF HubReceive, TypeOK, OneCopy
    <2>2. /\ pending' \subseteq 1..next /\ IsFiniteSet(pending')
          /\ Cardinality(pending') <= PendingLimit
      <3>1. pending' = pending \ {Matching(Head(toHub))}
        BY <1>7 DEF HubReceive
      <3>2. /\ Cardinality(pending) \in Nat /\ IsFiniteSet(pending')
            /\ Cardinality(pending') <= Cardinality(pending)
            /\ Cardinality(pending') \in Nat
        BY <3>1, CountFacts, FS_CardinalityType DEF Finite
      <3>3. Cardinality(pending) <= PendingLimit /\ pending \subseteq 1..next
        BY DEF TypeOK
      <3>4. Cardinality(pending') <= PendingLimit
        BY <3>2, <3>3
      <3> QED
        BY <3>1, <3>2, <3>3, <3>4
    <2>3. mode' \in [Callers -> Modes]
      BY <1>7 DEF HubReceive, TypeOK, Answered, FailedMode, Modes
    <2>4. owns' \in [Callers -> Nat] /\ seen' \in [Callers -> Nat] /\ waiting' \in [Callers -> Nat]
      BY <1>7, <2>1 DEF HubReceive, TypeOK, Response
    <2> QED
      BY <1>7, <2>1, <2>2, <2>3, <2>4 DEF HubReceive, TypeOK, Finite, agentVars
  <1>8. CASE HubEnds
    <2>1. IsFiniteSet({}) /\ Cardinality({}) = 0
      BY FS_EmptySet
    <2>2. Len(<<>>) <= OutCapacity /\ <<>> \in Seq(Request) /\ <<>> \in Seq(Response)
      OBVIOUS
    <2>3. mode' \in [Callers -> Modes] /\ waiting' \in [Callers -> Nat]
      BY <1>8 DEF HubEnds, TypeOK, FailedMode, Modes
    <2>4. pending' = {} /\ Cardinality(pending') <= PendingLimit /\ pending' \subseteq 1..next'
      BY <1>8, <2>1 DEF HubEnds
    <2> QED
      BY <1>8, <2>1, <2>2, <2>3, <2>4 DEF HubEnds, TypeOK, Finite, agentVars
  <1>9. ASSUME EndAgent PROVE TypeOK' /\ Finite'
    <2>1. toAgent' \in Seq(Request)
      BY <1>9 DEF EndAgent
    <2>2. helper' \subseteq Nat /\ linkSessions' \subseteq Nat
      BY <1>9 DEF EndAgent, TypeOK
    <2> QED
      BY <1>9, <2>1, <2>2 DEF EndAgent, TypeOK, Finite, callerVars, hubVars
  <1>10. CASE Spawn
    <2>1. CASE Cardinality(tasks) < Permits
      <3> DEFINE j == [req |-> Head(toAgent), phase |-> "check", kind |-> "error", session |-> 0]
      <3>1. Head(toAgent) \in Request /\ Tail(toAgent) \in Seq(Request)
        BY <1>10, TailRange DEF Spawn, TypeOK, OneCopy
      <3>2. j \in Task
        BY <3>1 DEF Task, Kinds
      <3> HIDE DEF j
      <3>3. tasks' = tasks \cup {j}
        BY <1>10, <2>1 DEF Spawn, j
      <3>4. /\ IsFiniteSet(tasks') /\ Cardinality(tasks') <= Cardinality(tasks) + 1
            /\ Cardinality(tasks) \in Nat /\ Cardinality(tasks') \in Nat
        BY <3>3, CountFacts, FS_CardinalityType DEF Finite
      <3>5. Cardinality(tasks') <= Permits
        BY <2>1, <3>4
      <3> QED
        BY <1>10, <2>1, <3>1, <3>2, <3>3, <3>4, <3>5
        DEF Spawn, TypeOK, Finite, callerVars, hubVars
    <2>2. CASE ~(Cardinality(tasks) < Permits)
      BY <1>9, <1>10, <2>2 DEF Spawn
    <2> QED
      BY <2>1, <2>2
  <1>11. CASE AgentEnds
    BY <1>9, <1>11 DEF AgentEnds
  <1>12. ASSUME NEW k \in tasks, Check(k) \/ Ask(k) PROVE TypeOK' /\ Finite'
    <2>1. /\ tasks' \subseteq Task /\ IsFiniteSet(tasks')
          /\ Cardinality(tasks') <= Cardinality(tasks)
          /\ Cardinality(tasks) \in Nat /\ Cardinality(tasks') \in Nat
      BY <1>12, TaskTypes, FS_CardinalityType DEF Finite
    <2>2. Cardinality(tasks') <= Permits
      BY <2>1 DEF TypeOK
    <2>3. nextSession' \in Nat /\ helper' \subseteq Nat
      <3>1. nextSession + 1 \in Nat
        BY DEF TypeOK
      <3>2. nextSession' = nextSession \/ nextSession' = nextSession + 1
        BY <1>12 DEF Check, Ask
      <3>3. helper' \subseteq helper \cup {nextSession + 1}
        BY <1>12 DEF Check, Ask
      <3> QED
        BY <3>1, <3>2, <3>3 DEF TypeOK
    <2>4. UNCHANGED <<mode, waiting, owns, seen, next, pending, hub, outq, conn, toAgent,
                      toHub, agent, linkSessions>>
      BY <1>12 DEF Check, Ask, callerVars, hubVars, netVars
    <2> QED
      BY <2>1, <2>2, <2>3, <2>4 DEF TypeOK, Finite
  <1>13. ASSUME NEW k \in tasks, Reply(k) PROVE TypeOK' /\ Finite'
    <2>1. /\ tasks' \subseteq tasks /\ IsFiniteSet(tasks')
          /\ Cardinality(tasks') <= Cardinality(tasks)
          /\ Cardinality(tasks) \in Nat /\ Cardinality(tasks') \in Nat
      BY <1>13, CountFacts, FS_CardinalityType DEF Reply, Finite
    <2>2. Cardinality(tasks') <= Permits
      BY <2>1 DEF TypeOK
    <2>3. k \in Task /\ k.req.id \in Nat /\ k.session \in Nat /\ k.kind \in Kinds
      BY DEF TypeOK, Task, Request
    <2>4. linkSessions' \subseteq Nat
      BY <1>13, <2>3 DEF Reply, Updated, TypeOK
    <2>5. toHub' \in Seq(Response)
      <3>1. [id |-> k.req.id, kind |-> k.kind, session |-> k.session] \in Response
        BY <2>3 DEF Response
      <3> QED
        BY <1>13, <3>1, AppendRange DEF Reply, TypeOK
    <2> QED
      BY <1>13, <2>1, <2>2, <2>4, <2>5 DEF Reply, TypeOK, Finite, callerVars, hubVars
  <1>14. ASSUME NEW s \in helper, Expire(s) PROVE TypeOK' /\ Finite'
    BY <1>14 DEF Expire, TypeOK, Finite, callerVars, hubVars, netVars
  <1>15. CASE ConnectionLost
    BY <1>15 DEF ConnectionLost, TypeOK, Finite, callerVars, hubVars, agentVars
  <1>16. CASE UNCHANGED vars
    BY <1>16 DEF vars, TypeOK, Finite, callerVars, hubVars, netVars, agentVars
  <1> QED
    BY <1>1, <1>2, <1>4, <1>5, <1>6, <1>7, <1>8, <1>10, <1>11, <1>12, <1>13, <1>14, <1>15, <1>16
    DEF Next, TaskStep

-----------------------------------------------------------------------------
(* How requests and responses move: one lemma for each kind of step.       *)

\* A request is queued under a new number.
LEMMA QueueMoves ==
  ASSUME TypeOK, OneCopy, NEW m \in Request, m.id = next + 1, next' = next + 1,
         outq' = Append(outq, m), UNCHANGED <<toAgent, toHub, tasks>>
  PROVE  OneCopy' /\ Requests' = Requests \cup {m} /\ Responses' = Responses
  <1>1. next \in Nat /\ \A n \in Requests \cup Responses : n.id \in 1..next
    BY DEF TypeOK, OneCopy
  <1>2. m \notin Requests /\ \A n \in Requests \cup Responses : n.id # m.id
    BY <1>1
  <1>3. Queued' = Queued \cup {m} /\ IsInjective(outq')
    <2>1. m \notin Range(outq)
      BY <1>2 DEF Requests, Queued
    <2> QED
      BY <2>1, AppendRange DEF TypeOK, OneCopy, Queued
  <1>4. UNCHANGED <<Sent, Asked, Responses>>
    BY DEF Sent, Asked, Responses
  <1>5. Requests' = Requests \cup {m}
    BY <1>3, <1>4 DEF Requests
  <1>6. m.id \in 1..next' /\ \A n \in Requests \cup Responses : n.id \in 1..next'
    BY <1>1
  <1>7. IsInjective(toAgent') /\ IsInjective(toHub')
    BY DEF OneCopy
  <1>8. Queued' \cap Sent' = {} /\ Queued' \cap Asked' = {} /\ Sent' \cap Asked' = {}
    BY <1>2, <1>3, <1>4 DEF OneCopy, Requests
  <1>9. /\ \A a, b \in Requests' : a.id = b.id => a = b
        /\ \A r, q \in Responses' : r.id = q.id => r = q
        /\ \A a \in Requests', r \in Responses' : a.id # r.id
        /\ \A a \in Requests' \cup Responses' : a.id \in 1..next'
    BY <1>2, <1>4, <1>5, <1>6 DEF OneCopy
  <1> QED
    BY <1>3, <1>4, <1>5, <1>7, <1>8, <1>9 DEF OneCopy

\* Nothing moves, though numbers may be used up.
LEMMA NothingMoves ==
  ASSUME TypeOK, OneCopy, UNCHANGED <<outq, toAgent, toHub, tasks>>,
         next' \in {next, next + 1}
  PROVE  OneCopy' /\ Requests' = Requests /\ Responses' = Responses
  <1>1. UNCHANGED <<Queued, Sent, Asked, Requests, Responses>>
    BY DEF Queued, Sent, Asked, Requests, Responses
  <1>2. 1..next \subseteq 1..next'
    BY DEF TypeOK
  <1> QED
    BY <1>1, <1>2 DEF OneCopy

\* The writing task puts the next request on the connection.
LEMMA WriteMoves ==
  ASSUME TypeOK, OneCopy, HubWrite
  PROVE  OneCopy' /\ Requests' = Requests /\ Responses' = Responses
  <1> DEFINE m == Head(outq)
  <1>1. /\ m \in Request /\ m \in Queued /\ Queued' = Queued \ {m} /\ IsInjective(outq')
    BY TailRange DEF HubWrite, TypeOK, OneCopy, Queued
  <1> HIDE DEF m
  <1>2. m \notin Sent
    BY <1>1 DEF OneCopy
  <1>3. Sent' = Sent \cup {m} /\ IsInjective(toAgent')
    BY <1>1, <1>2, AppendRange DEF HubWrite, TypeOK, OneCopy, Sent, m
  <1>4. UNCHANGED <<Asked, Responses, tasks, next, toHub>>
    BY DEF HubWrite, agentVars, Asked, Responses
  <1>5. Requests' = Requests
    BY <1>1, <1>3, <1>4 DEF Requests
  <1>6. Queued' \cap Sent' = {} /\ Queued' \cap Asked' = {} /\ Sent' \cap Asked' = {}
    BY <1>1, <1>3, <1>4 DEF OneCopy
  <1> QED
    BY <1>1, <1>3, <1>4, <1>5, <1>6 DEF OneCopy

\* The relay loop takes the next response.
LEMMA ReceiveMoves ==
  ASSUME TypeOK, OneCopy, HubReceive
  PROVE  /\ OneCopy' /\ Requests' = Requests
         /\ Head(toHub) \in Response /\ Head(toHub) \in Responses
         /\ Responses' = Responses \ {Head(toHub)}
  <1>1. /\ Head(toHub) \in Response /\ Head(toHub) \in Responses
        /\ Responses' = Responses \ {Head(toHub)} /\ IsInjective(toHub')
    BY TailRange DEF HubReceive, TypeOK, OneCopy, Responses
  <1>2. UNCHANGED <<Queued, Sent, Asked, Requests, tasks, next, outq, toAgent>>
    BY DEF HubReceive, agentVars, Queued, Sent, Asked, Requests
  <1> QED
    BY <1>1, <1>2 DEF OneCopy

\* The link ends on one side: what was to be written or read there is lost.
LEMMA EndMoves ==
  ASSUME TypeOK, OneCopy, HubEnds \/ EndAgent
  PROVE  OneCopy' /\ Requests' \subseteq Requests /\ Responses' \subseteq Responses
  <1>1. CASE HubEnds
    <2>1. /\ Queued' = {} /\ Responses' = {} /\ IsInjective(outq') /\ IsInjective(toHub')
      BY <1>1, EmptyRange DEF HubEnds, Queued, Responses
    <2>2. UNCHANGED <<Sent, Asked, tasks, next, toAgent>>
      BY <1>1 DEF HubEnds, agentVars, Sent, Asked
    <2>3. Requests' \subseteq Requests
      BY <2>1, <2>2 DEF Requests
    <2> QED
      BY <2>1, <2>2, <2>3 DEF OneCopy
  <1>2. CASE EndAgent
    <2>1. Sent' = {} /\ IsInjective(toAgent')
      BY <1>2, EmptyRange DEF EndAgent, Sent
    <2>2. UNCHANGED <<Queued, Asked, Responses, tasks, next, outq, toHub>>
      BY <1>2 DEF EndAgent, hubVars, Queued, Asked, Responses
    <2>3. Requests' \subseteq Requests
      BY <2>1, <2>2 DEF Requests
    <2> QED
      BY <2>1, <2>2, <2>3 DEF OneCopy
  <1> QED
    BY <1>1, <1>2

\* A request becomes a task.
LEMMA SpawnMoves ==
  ASSUME TypeOK, OneCopy, Spawn, Cardinality(tasks) < Permits
  PROVE  /\ OneCopy' /\ Requests' = Requests /\ Responses' = Responses
         /\ \E j \in Task : j.phase = "check" /\ j.kind = "error" /\ tasks' = tasks \cup {j}
  <1> DEFINE m == Head(toAgent)
             j == [req |-> m, phase |-> "check", kind |-> "error", session |-> 0]
  <1>1. /\ m \in Request /\ m \in Sent /\ Sent' = Sent \ {m} /\ IsInjective(toAgent')
    <2>1. toAgent # <<>> /\ toAgent' = Tail(toAgent)
      BY DEF Spawn
    <2>2. toAgent \in Seq(Request) /\ IsInjective(toAgent)
      BY DEF TypeOK, OneCopy
    <2> QED
      BY <2>1, <2>2, TailRange DEF Sent
  <1>2. j \in Task /\ j.req = m /\ j.phase = "check" /\ j.kind = "error"
    BY <1>1 DEF Task, Kinds
  <1>3. tasks' = tasks \cup {j} /\ UNCHANGED <<outq, toHub, next>>
    BY DEF Spawn, hubVars
  <1> HIDE DEF m, j
  <1>4. Asked' = Asked \cup {m}
    BY <1>2, <1>3 DEF Asked
  <1>5. UNCHANGED <<Queued, Responses>>
    BY <1>3 DEF Queued, Responses
  <1>6. Requests' = Requests
    BY <1>1, <1>4, <1>5 DEF Requests
  <1>7. m \notin Asked /\ m \notin Queued
    BY <1>1 DEF OneCopy
  <1>8. \A k, l \in tasks' : k.req = l.req => k = l
    <2>1. \A k \in tasks : k.req # m
      BY <1>7 DEF Asked
    <2> QED
      BY <1>2, <1>3, <2>1 DEF OneCopy
  <1>9. Queued' \cap Sent' = {} /\ Queued' \cap Asked' = {} /\ Sent' \cap Asked' = {}
    BY <1>1, <1>4, <1>5, <1>7 DEF OneCopy
  <1>10. OneCopy'
    BY <1>1, <1>3, <1>5, <1>6, <1>8, <1>9 DEF OneCopy
  <1> QED
    BY <1>2, <1>3, <1>5, <1>6, <1>10

\* A task goes on with the request it has.
LEMMA TaskMoves ==
  ASSUME TypeOK, OneCopy, NEW k \in tasks, NEW j, j.req = k.req,
         tasks' = (tasks \ {k}) \cup {j}, UNCHANGED <<outq, toAgent, toHub, next>>
  PROVE  OneCopy' /\ Requests' = Requests /\ Responses' = Responses
  <1>1. Asked' = Asked
    BY DEF Asked
  <1>2. UNCHANGED <<Queued, Sent, Requests, Responses>>
    BY <1>1 DEF Queued, Sent, Requests, Responses
  <1>3. \A a, b \in tasks' : a.req = b.req => a = b
    BY DEF OneCopy
  <1> QED
    BY <1>1, <1>2, <1>3 DEF OneCopy

\* A task ends, and its request with it; the response goes out when there is
\* still a connection.
LEMMA ReplyMoves ==
  ASSUME TypeOK, OneCopy, NEW k \in tasks, Reply(k)
  PROVE  LET r == [id |-> k.req.id, kind |-> k.kind, session |-> k.session]
         IN /\ OneCopy' /\ Requests' = Requests \ {k.req} /\ r \in Response
            /\ \/ agent = "run" /\ conn /\ Responses' = Responses \cup {r}
               \/ ~(agent = "run" /\ conn) /\ Responses' = Responses
  <1> DEFINE r == [id |-> k.req.id, kind |-> k.kind, session |-> k.session]
  <1>1. r \in Response /\ r.id = k.req.id
    BY DEF Response, TypeOK, Task, Request
  <1>2. k.req \in Asked /\ k.req \in Requests
    BY DEF Asked, Requests
  <1>3. r \notin Responses /\ \A q \in Responses : q.id # r.id
    BY <1>1, <1>2 DEF OneCopy
  <1>4. /\ UNCHANGED <<outq, toAgent, next>> /\ tasks' = tasks \ {k}
        /\ \/ agent = "run" /\ conn /\ toHub' = Append(toHub, r)
           \/ ~(agent = "run" /\ conn) /\ toHub' = toHub
    BY DEF Reply, hubVars
  <1> HIDE DEF r
  <1>5. /\ IsInjective(toHub')
        /\ \/ agent = "run" /\ conn /\ Responses' = Responses \cup {r}
           \/ ~(agent = "run" /\ conn) /\ Responses' = Responses
    <2>1. toHub \in Seq(Response) /\ IsInjective(toHub) /\ r \notin Range(toHub)
      BY <1>3 DEF TypeOK, OneCopy, Responses
    <2>2. Range(Append(toHub, r)) = Range(toHub) \cup {r} /\ IsInjective(Append(toHub, r))
      BY <1>1, <2>1, AppendRange
    <2> QED
      BY <1>4, <2>1, <2>2 DEF Responses
  <1>6. Asked' = Asked \ {k.req}
    BY <1>4 DEF Asked, OneCopy
  <1>7. UNCHANGED <<Queued, Sent>>
    BY <1>4 DEF Queued, Sent
  <1>8. Requests' = Requests \ {k.req}
    BY <1>2, <1>6, <1>7 DEF Requests, OneCopy
  <1>9. Queued' \cap Sent' = {} /\ Queued' \cap Asked' = {} /\ Sent' \cap Asked' = {}
    BY <1>6, <1>7 DEF OneCopy
  <1>10. \A m \in Requests' : m.id # r.id
    BY <1>1, <1>2, <1>8 DEF OneCopy
  <1>11. r.id \in 1..next
    BY <1>1, <1>2 DEF OneCopy
  <1>12. /\ \A a, b \in Responses' : a.id = b.id => a = b
         /\ \A m \in Requests', a \in Responses' : m.id # a.id
         /\ \A m \in Requests' \cup Responses' : m.id \in 1..next'
    BY <1>3, <1>4, <1>5, <1>8, <1>10, <1>11 DEF OneCopy
  <1>13. /\ \A m, n \in Requests' : m.id = n.id => m = n
         /\ \A a, b \in tasks' : a.req = b.req => a = b
         /\ IsInjective(outq') /\ IsInjective(toAgent')
    BY <1>4, <1>8 DEF OneCopy
  <1>14. OneCopy'
    BY <1>5, <1>9, <1>12, <1>13 DEF OneCopy
  <1> QED
    BY <1>1, <1>5, <1>8, <1>14 DEF r

-----------------------------------------------------------------------------
(* Callers and sessions.                                                   *)

\* A step that makes no request, no response and no session, and after which
\* callers wait as before or have failed.
LEMMA QuietStep ==
  ASSUME TypeOK, TypeOK', CallerInv, TasksFit',
         Requests' \subseteq Requests, Responses' \subseteq Responses,
         Starting' \subseteq Starting, UNCHANGED <<owns, seen, nextSession>>,
         next' \in {next, next + 1},
         \A t \in Callers :
           \/ waiting'[t] = waiting[t] /\ mode'[t] = mode[t]
           \/ waiting'[t] = 0 /\ mode'[t] \in {"idle", "ending"},
         agent' = "run" => agent = "run" /\ linkSessions' = linkSessions
  PROVE  CallerInv'
  <1>1. WaitersApart'
    <2>1. \A t \in Callers : waiting[t] \in Nat /\ waiting[t] <= next
      BY DEF TypeOK, CallerInv, WaitersApart
    <2>2. next \in Nat
      BY DEF TypeOK
    <2>3. \A t \in Callers : waiting'[t] <= next'
      BY <2>1, <2>2
    <2>4. \A t \in Callers : waiting'[t] # 0 <=> mode'[t] \in Waiting
      BY DEF CallerInv, WaitersApart, Waiting
    <2>5. \A t, u \in Callers : t # u /\ waiting'[t] = waiting'[u] => waiting'[t] = 0
      BY DEF CallerInv, WaitersApart
    <2> QED
      BY <2>3, <2>4, <2>5 DEF WaitersApart
  <1>2. Fitting'
    BY DEF CallerInv, Fitting, Fits, Suits
  <1>3. \A s : Unused(s) => Unused(s)'
    BY DEF Unused, Names
  <1>4. StartsApart'
    BY <1>3 DEF CallerInv, StartsApart
  <1>5. OwnersApart'
    BY DEF CallerInv, OwnersApart, Names
  <1>6. Recorded'
    BY DEF CallerInv, Recorded, OpenSessionsRecorded
  <1> QED
    BY <1>1, <1>2, <1>4, <1>5, <1>6 DEF CallerInv

\* A caller's request is registered and queued, or fails at once.
LEMMA ExchangeKeeps ==
  ASSUME TypeOK, TypeOK', OneCopy, CallerInv, NEW t \in Callers,
         NEW op \in {"read", "observe", "poll"}, NEW during, Exchange(t, op, during),
         \/ op = "read" /\ during = "reading" /\ mode[t] = "idle"
         \/ op = "observe" /\ during = "observing" /\ mode[t] = "idle"
         \/ op = "poll" /\ during = "polling" /\ mode[t] = "open"
  PROVE  OneCopy' /\ CallerInv'
  <1> DEFINE m == Message(op, owns[t])
  <1>1. m \in Request /\ m.id = next + 1 /\ m.op = op /\ m.session = owns[t]
    BY DEF Message, Request, Ops, TypeOK
  <1>2. /\ next' = next + 1 /\ next \in Nat
        /\ UNCHANGED <<owns, seen, hub, toAgent, toHub, agent, tasks, linkSessions, helper,
                       nextSession>>
    BY DEF Exchange, netVars, agentVars, TypeOK
  <1>3. TasksFit' /\ Starting' = Starting
    BY <1>2 DEF CallerInv, TasksFit, Starting
  <1> HIDE DEF m
  <1>4. CASE outq' = Append(outq, m) /\ waiting' = [waiting EXCEPT ![t] = next + 1]
              /\ mode' = [mode EXCEPT ![t] = during]
    <2>1. OneCopy' /\ Requests' = Requests \cup {m} /\ Responses' = Responses
      BY <1>1, <1>2, <1>4, QueueMoves
    <2>2. /\ waiting'[t] = next + 1 /\ mode'[t] = during
          /\ \A u \in Callers \ {t} : waiting'[u] = waiting[u] /\ mode'[u] = mode[u]
      BY <1>4 DEF TypeOK
    <2>3. \A u \in Callers : waiting[u] \in Nat /\ waiting[u] <= next
      BY DEF TypeOK, CallerInv, WaitersApart
    <2>4. \A n \in Requests \cup Responses : n.id \in 1..next
      BY DEF OneCopy
    <2>5. \A n \in Requests \cup Responses : n.id # next + 1 /\ n.id # 0
      BY <1>2, <2>4
    <2>6. waiting[t] = 0
      BY DEF CallerInv, WaitersApart, Waiting
    <2>7. WaitersApart'
      <3>1. \A u \in Callers : waiting'[u] <= next'
        BY <1>2, <2>2, <2>3
      <3>2. \A u \in Callers : waiting'[u] # 0 <=> mode'[u] \in Waiting
        BY <1>2, <2>2 DEF CallerInv, WaitersApart, Waiting
      <3>3. \A u, v \in Callers : u # v /\ waiting'[u] = waiting'[v] => waiting'[u] = 0
        BY <1>2, <2>2, <2>3 DEF CallerInv, WaitersApart
      <3> QED
        BY <3>1, <3>2, <3>3 DEF WaitersApart
    <2>8. Fitting'
      <3>1. Fits(during, owns[t], m)
        BY <1>1 DEF Fits
      <3>2. ASSUME NEW u \in Callers, waiting'[u] # 0, NEW n \in Requests', waiting'[u] = n.id
            PROVE  Fits(mode'[u], owns'[u], n)
        <4>1. CASE u = t
          <5>1. n = m
            BY <2>1, <2>2, <2>5, <3>2, <4>1
          <5> QED
            BY <1>2, <2>2, <3>1, <4>1, <5>1
        <4>2. CASE u # t
          <5>1. n \in Requests
            BY <1>1, <1>2, <2>1, <2>2, <2>3, <3>2, <4>2
          <5> QED
            BY <1>2, <2>2, <3>2, <4>2, <5>1 DEF CallerInv, Fitting
        <4> QED
          BY <4>1, <4>2
      <3>3. ASSUME NEW u \in Callers, waiting'[u] # 0, NEW r \in Responses', waiting'[u] = r.id
            PROVE  Suits(mode'[u], owns'[u], r)
        <4>1. u # t
          BY <2>1, <2>2, <2>5, <3>3
        <4> QED
          BY <1>2, <2>1, <2>2, <3>3, <4>1 DEF CallerInv, Fitting
      <3> QED
        BY <3>2, <3>3 DEF Fitting
    <2>9. StartsApart'
      <3>1. \A s : Unused(s) => Unused(s)'
        BY <1>1, <1>2, <2>1 DEF Unused, Names
      <3> QED
        BY <1>3, <2>1, <3>1 DEF CallerInv, StartsApart
    <2>10. OwnersApart'
      <3>1. ASSUME NEW u \in Callers, mode'[u] \in {"open", "polling"}
            PROVE  owns[u] # 0 /\ \A n \in Requests' : Names(n, owns[u]) => n.id = waiting'[u]
        <4>1. CASE u = t
          <5>1. op = "poll" /\ mode[t] = "open"
            BY <2>2, <3>1, <4>1
          <5>2. owns[t] # 0 /\ \A n \in Requests : ~Names(n, owns[t])
            BY <2>5, <2>6, <5>1 DEF CallerInv, OwnersApart
          <5> QED
            BY <1>1, <2>1, <2>2, <4>1, <5>2
        <4>2. CASE u # t
          <5>1. owns[u] # 0 /\ \A n \in Requests : Names(n, owns[u]) => n.id = waiting[u]
            BY <2>2, <3>1, <4>2 DEF CallerInv, OwnersApart
          <5>2. owns[t] # owns[u]
            BY <4>2, <5>1 DEF CallerInv, OwnersApart
          <5>3. ~Names(m, owns[u])
            BY <1>1, <5>2 DEF Names
          <5> QED
            BY <2>1, <2>2, <4>2, <5>1, <5>3
        <4> QED
          BY <4>1, <4>2
      <3>2. \A n \in Requests' : n.op \in {"poll", "close"} => n.session <= nextSession
        <4>1. owns[t] <= nextSession
          BY DEF CallerInv, OwnersApart, TypeOK
        <4> QED
          BY <1>1, <2>1, <4>1 DEF CallerInv, OwnersApart
      <3> QED
        BY <1>2, <3>1, <3>2 DEF CallerInv, OwnersApart, Names
    <2>11. Recorded'
      <3> SUFFICES ASSUME agent = "run" PROVE Recorded'
        BY <1>2 DEF Recorded
      <3>1. OpenSessionsRecorded'
        BY <1>2, <2>2 DEF CallerInv, Recorded, OpenSessionsRecorded
      <3>2. ASSUME NEW u \in Callers, mode'[u] = "polling", owns[u] \notin linkSessions
            PROVE  /\ \A n \in Requests' : n.id # waiting'[u]
                   /\ \A r \in Responses : r.id = waiting'[u] => r.kind \in {"end", "error"}
        <4>1. u # t
          BY <2>2, <3>2 DEF CallerInv, Recorded, OpenSessionsRecorded
        <4>2. m.id # waiting[u]
          BY <1>1, <1>2, <2>3
        <4> QED
          BY <2>1, <2>2, <3>2, <4>1, <4>2 DEF CallerInv, Recorded
      <3> QED
        BY <1>2, <2>1, <3>1, <3>2 DEF CallerInv, Recorded
    <2> QED
      BY <1>3, <2>1, <2>7, <2>8, <2>9, <2>10, <2>11 DEF CallerInv
  <1>5. CASE mode' = [mode EXCEPT ![t] = FailedMode(during)] /\ UNCHANGED <<outq, waiting>>
    <2>1. OneCopy' /\ Requests' = Requests /\ Responses' = Responses
      BY <1>2, <1>5, NothingMoves
    <2>2. /\ mode'[t] \in {"idle", "ending"} /\ waiting'[t] = 0
          /\ \A u \in Callers \ {t} : waiting'[u] = waiting[u] /\ mode'[u] = mode[u]
      BY <1>5 DEF TypeOK, FailedMode, CallerInv, WaitersApart, Waiting
    <2> QED
      BY <1>2, <1>3, <2>1, <2>2, QuietStep
  <1> QED
    BY <1>4, <1>5 DEF Exchange, m

\* A request that nobody waits for is queued: it names no session that a caller
\* has or will be given.
LEMMA LooseRequest ==
  ASSUME TypeOK, TypeOK', OneCopy, CallerInv, NEW m \in Request,
         m.id = next + 1, next' = next + 1, outq' = Append(outq, m),
         m.session <= nextSession,
         \A t \in Callers : owns'[t] # 0 => owns'[t] # m.session,
         \A s : Unused(s) => s # m.session,
         UNCHANGED <<toAgent, toHub, tasks, agent, linkSessions, helper, nextSession>>,
         \A t \in Callers :
           \/ /\ waiting'[t] = waiting[t] /\ mode'[t] = mode[t]
              /\ owns'[t] = owns[t] /\ seen'[t] = seen[t]
           \/ waiting'[t] = 0 /\ mode'[t] = "idle" /\ owns'[t] = 0 /\ seen'[t] = 0
  PROVE  OneCopy' /\ CallerInv'
  <1>1. OneCopy' /\ Requests' = Requests \cup {m} /\ Responses' = Responses
    BY QueueMoves
  <1>2. TasksFit' /\ Starting' = Starting
    BY DEF CallerInv, TasksFit, Starting
  <1>3. next \in Nat /\ \A t \in Callers : waiting[t] \in Nat /\ waiting[t] <= next
    BY DEF TypeOK, CallerInv, WaitersApart
  <1>4. \A t \in Callers : waiting'[t] # m.id
    BY <1>3
  <1>5. WaitersApart'
    <2>1. \A t \in Callers : waiting'[t] <= next'
      BY <1>3
    <2>2. \A t \in Callers : waiting'[t] # 0 <=> mode'[t] \in Waiting
      BY DEF CallerInv, WaitersApart, Waiting
    <2>3. \A t, u \in Callers : t # u /\ waiting'[t] = waiting'[u] => waiting'[t] = 0
      BY DEF CallerInv, WaitersApart
    <2> QED
      BY <2>1, <2>2, <2>3 DEF WaitersApart
  <1>6. Fitting'
    BY <1>1, <1>4 DEF CallerInv, Fitting
  <1>7. StartsApart'
    <2>1. ASSUME NEW s, Unused(s) PROVE Unused(s)'
      <3>0. s # m.session
        BY <2>1
      <3>1. s # 0 /\ s # m.session
        BY <2>1, <3>0 DEF Unused, TypeOK
      <3> QED
        BY <1>1, <2>1, <3>1 DEF Unused, Names
    <2> QED
      BY <1>1, <1>2, <2>1 DEF CallerInv, StartsApart
  <1>8. OwnersApart'
    <2>1. \A t \in Callers : owns'[t] \in {0} \cup 2..nextSession' /\ seen'[t] \in {0, owns'[t]}
      BY DEF CallerInv, OwnersApart
    <2>2. ASSUME NEW t \in Callers, mode'[t] \in {"open", "polling"}
          PROVE  owns'[t] # 0 /\ \A n \in Requests' : Names(n, owns'[t]) => n.id = waiting'[t]
      BY <1>1, <2>2 DEF CallerInv, OwnersApart, Names
    <2>3. \A t, u \in Callers : t # u /\ owns'[t] = owns'[u] => owns'[t] = 0
      BY DEF CallerInv, OwnersApart
    <2>4. \A n \in Requests' : n.op \in {"poll", "close"} => n.session <= nextSession'
      BY <1>1 DEF CallerInv, OwnersApart
    <2>5. OwnSession <= nextSession'
      BY DEF CallerInv, OwnersApart, OwnSession
    <2> QED
      BY <2>1, <2>2, <2>3, <2>4, <2>5 DEF OwnersApart, Names, OwnSession
  <1>9. Recorded'
    BY <1>1, <1>4 DEF CallerInv, Recorded, OpenSessionsRecorded
  <1> QED
    BY <1>1, <1>2, <1>5, <1>6, <1>7, <1>8, <1>9 DEF CallerInv

\* A caller that goes away lets go of what it waits for and owns, and closes its
\* session when there is room for the request.
LEMMA DropKeeps ==
  ASSUME TypeOK, TypeOK', OneCopy, CallerInv, NEW t \in Callers, Drop(t)
  PROVE  OneCopy' /\ CallerInv'
  <1>1. /\ waiting'[t] = 0 /\ mode'[t] = "idle" /\ owns'[t] = 0 /\ seen'[t] = 0
        /\ \A u \in Callers \ {t} : /\ waiting'[u] = waiting[u] /\ mode'[u] = mode[u]
                                    /\ owns'[u] = owns[u] /\ seen'[u] = seen[u]
    BY DEF Drop, TypeOK
  <1>2. UNCHANGED <<toAgent, toHub, tasks, agent, linkSessions, helper, nextSession>>
    BY DEF Drop, netVars, agentVars
  <1>3. CASE owns[t] # 0 /\ CanQueue
    <2> DEFINE m == Message("close", owns[t])
    <2>1. m \in Request /\ m.id = next + 1 /\ m.session = owns[t]
      BY DEF Message, Request, Ops, TypeOK
    <2>2. outq' = Append(outq, m) /\ next' = next + 1
      BY <1>3 DEF Drop
    <2> HIDE DEF m
    <2>3. owns[t] <= nextSession
      BY <1>3 DEF CallerInv, OwnersApart, TypeOK
    <2>4. \A u \in Callers : owns'[u] # 0 => owns'[u] # owns[t]
      BY <1>1 DEF CallerInv, OwnersApart
    <2>5. \A s : Unused(s) => s # owns[t]
      BY DEF Unused
    <2> QED
      BY <1>1, <1>2, <2>1, <2>2, <2>3, <2>4, <2>5, LooseRequest
  <1>4. CASE ~(owns[t] # 0 /\ CanQueue)
    <2>1. outq' = outq /\ next' \in {next, next + 1}
      BY <1>4 DEF Drop
    <2>2. OneCopy' /\ Requests' = Requests /\ Responses' = Responses
      BY <1>2, <2>1, NothingMoves
    <2>3. TasksFit' /\ Starting' = Starting
      BY <1>2 DEF CallerInv, TasksFit, Starting
    <2>4. WaitersApart'
      <3>1. next \in Nat /\ \A u \in Callers : waiting[u] \in Nat /\ waiting[u] <= next
        BY DEF TypeOK, CallerInv, WaitersApart
      <3>2. \A u \in Callers : waiting'[u] <= next'
        BY <1>1, <2>1, <3>1
      <3>3. \A u \in Callers : waiting'[u] # 0 <=> mode'[u] \in Waiting
        BY <1>1 DEF CallerInv, WaitersApart, Waiting
      <3>4. \A u, v \in Callers : u # v /\ waiting'[u] = waiting'[v] => waiting'[u] = 0
        BY <1>1 DEF CallerInv, WaitersApart
      <3> QED
        BY <3>2, <3>3, <3>4 DEF WaitersApart
    <2>5. Fitting'
      BY <1>1, <2>2 DEF CallerInv, Fitting
    <2>6. StartsApart'
      <3>1. ASSUME NEW s, Unused(s) PROVE Unused(s)'
        <4>1. s # 0
          BY <3>1 DEF Unused, TypeOK
        <4> QED
          BY <1>1, <1>2, <2>2, <3>1, <4>1 DEF Unused, Names
      <3> QED
        BY <2>2, <2>3, <3>1 DEF CallerInv, StartsApart
    <2>7. OwnersApart'
      BY <1>1, <1>2, <2>2 DEF CallerInv, OwnersApart, Names
    <2>8. Recorded'
      BY <1>1, <1>2, <2>2 DEF CallerInv, Recorded, OpenSessionsRecorded
    <2> QED
      BY <2>2, <2>3, <2>4, <2>5, <2>6, <2>7, <2>8 DEF CallerInv
  <1> QED
    BY <1>3, <1>4

\* A response reaches the one caller that waits for it, or nobody.
LEMMA ReceiveKeeps ==
  ASSUME TypeOK, TypeOK', OneCopy, CallerInv, HubReceive
  PROVE  OneCopy' /\ CallerInv'
  <1> DEFINE r == Head(toHub)
             mine(t) == waiting[t] # 0 /\ waiting[t] = Matching(r)
             given(t) == mine(t) /\ mode[t] = "observing" /\ r.kind = "started"
  <1>1. /\ OneCopy' /\ Requests' = Requests /\ r \in Responses
        /\ Responses' = Responses \ {r}
    BY ReceiveMoves
  <1>2. UNCHANGED <<next, agent, tasks, linkSessions, helper, nextSession>>
    BY DEF HubReceive, agentVars
  <1>3. \A t \in Callers :
          /\ ~mine(t) => /\ waiting'[t] = waiting[t] /\ mode'[t] = mode[t]
                         /\ owns'[t] = owns[t] /\ seen'[t] = seen[t]
          /\ mine(t) => waiting'[t] = 0 /\ mode'[t] = Answered(mode[t], r.kind)
    BY DEF HubReceive
  <1>4. \A t \in Callers : owns'[t] = IF given(t) THEN r.session ELSE owns[t]
    BY DEF HubReceive
  <1>5. \A t \in Callers :
          seen'[t] = IF mine(t) /\ mode[t] \in {"observing", "polling"}
                        /\ r.kind \in {"started", "event", "end"}
                     THEN r.session ELSE seen[t]
    BY DEF HubReceive
  <1>6. \A t \in Callers : mine(t) => waiting[t] = r.id
    BY DEF Matching
  <1>7. \A t \in Callers : mine(t) => Suits(mode[t], owns[t], r) /\ mode[t] \in Waiting
    BY <1>1, <1>6 DEF CallerInv, Fitting, WaitersApart
  <1>8. \A t, u \in Callers : mine(t) /\ mine(u) => t = u
    BY DEF CallerInv, WaitersApart
  <1>9. r.kind = "started" => Unused(r.session)
    BY <1>1 DEF CallerInv, StartsApart
  <1>10. /\ \A m \in Requests : m.id # r.id /\ m.id # 0
         /\ \A q \in Responses' : q.id # r.id
    BY <1>1 DEF OneCopy, TypeOK
  <1>11. \A t \in Callers : given(t) => mode'[t] = "open"
    BY <1>3 DEF Answered
  <1>12. \A t \in Callers : mine(t) /\ mode'[t] \in Waiting \cup {"open"} =>
           \/ given(t) /\ mode'[t] = "open"
           \/ mode[t] = "polling" /\ r.kind = "event" /\ mode'[t] = "open"
    BY <1>3, <1>7 DEF Answered, FailedMode, Waiting
  <1> HIDE DEF r
  <1>13. TasksFit' /\ Starting' = Starting
    BY <1>2 DEF CallerInv, TasksFit, Starting
  <1>14. WaitersApart'
    <2>1. next \in Nat /\ \A t \in Callers : waiting[t] \in Nat /\ waiting[t] <= next
      BY DEF TypeOK, CallerInv, WaitersApart
    <2>2. \A t \in Callers : waiting'[t] <= next'
      BY <1>2, <1>3, <2>1
    <2>3. \A t \in Callers : waiting'[t] # 0 <=> mode'[t] \in Waiting
      BY <1>3, <1>12 DEF CallerInv, WaitersApart, Waiting
    <2>4. \A t, u \in Callers : t # u /\ waiting'[t] = waiting'[u] => waiting'[t] = 0
      BY <1>3 DEF CallerInv, WaitersApart
    <2> QED
      BY <2>2, <2>3, <2>4 DEF WaitersApart
  <1>15. Fitting'
    BY <1>1, <1>3 DEF CallerInv, Fitting
  <1>16. ASSUME NEW s, Unused(s), s # r.session \/ r.kind # "started" PROVE Unused(s)'
    BY <1>1, <1>2, <1>4, <1>16 DEF Unused, Names
  <1>17. StartsApart'
    <2>1. \A k \in Starting : Unused(k.session)'
      BY <1>1, <1>16 DEF CallerInv, StartsApart
    <2>2. \A q \in Responses' : q.kind = "started" => Unused(q.session)'
      BY <1>1, <1>16 DEF CallerInv, StartsApart
    <2> QED
      BY <1>1, <1>13, <2>1, <2>2 DEF CallerInv, StartsApart
  <1>18. OwnersApart'
    <2>1. \A t \in Callers : owns'[t] \in {0} \cup 2..nextSession'
      BY <1>2, <1>4, <1>9 DEF CallerInv, OwnersApart, Unused
    <2>2. ASSUME NEW t \in Callers PROVE seen'[t] \in {0, owns'[t]}
      <3>1. seen[t] \in {0, owns[t]}
        BY DEF CallerInv, OwnersApart
      <3>2. CASE mine(t) /\ mode[t] = "observing"
        BY <1>4, <1>5, <1>7, <3>1, <3>2 DEF Suits
      <3>3. CASE mine(t) /\ mode[t] = "polling"
        BY <1>4, <1>5, <1>7, <3>1, <3>3 DEF Suits
      <3>4. CASE ~(mine(t) /\ mode[t] \in {"observing", "polling"})
        BY <1>4, <1>5, <3>1, <3>4
      <3> QED
        BY <3>2, <3>3, <3>4
    <2>3. ASSUME NEW t \in Callers, mode'[t] \in {"open", "polling"}
          PROVE  owns'[t] # 0 /\ \A m \in Requests' : Names(m, owns'[t]) => m.id = waiting'[t]
      <3>1. CASE ~mine(t)
        BY <1>1, <1>3, <2>3, <3>1 DEF CallerInv, OwnersApart
      <3>2. CASE given(t)
        <4>1. r.session # 0 /\ \A m \in Requests : ~Names(m, r.session)
          BY <1>9, <3>2 DEF Unused, TypeOK
        <4> QED
          BY <1>1, <1>4, <3>2, <4>1
      <3>3. CASE mine(t) /\ ~given(t)
        <4>1. mode[t] = "polling" /\ owns'[t] = owns[t]
          BY <1>4, <1>12, <2>3, <3>3 DEF Waiting
        <4>2. owns[t] # 0 /\ \A m \in Requests : Names(m, owns[t]) => m.id = waiting[t]
          BY <4>1 DEF CallerInv, OwnersApart
        <4>3. waiting[t] = r.id
          BY <1>6, <3>3
        <4> QED
          BY <1>1, <1>10, <4>1, <4>2, <4>3
      <3> QED
        BY <3>1, <3>2, <3>3
    <2>4. ASSUME NEW t \in Callers, NEW u \in Callers, t # u, owns'[t] = owns'[u]
          PROVE  owns'[t] = 0
      <3>1. CASE ~given(t) /\ ~given(u)
        BY <1>4, <2>4, <3>1 DEF CallerInv, OwnersApart
      <3>2. CASE given(t)
        BY <1>4, <1>8, <1>9, <2>4, <3>2 DEF Unused
      <3>3. CASE given(u)
        BY <1>4, <1>8, <1>9, <2>4, <3>3 DEF Unused
      <3> QED
        BY <3>1, <3>2, <3>3
    <2> QED
      BY <1>1, <1>2, <2>1, <2>2, <2>3, <2>4 DEF CallerInv, OwnersApart, Names
  <1>19. Recorded'
    <2> SUFFICES ASSUME agent = "run" PROVE Recorded'
      BY <1>2 DEF Recorded
    <2>1. ASSUME NEW t \in Callers, mode'[t] = "open" PROVE owns'[t] \in linkSessions
      <3>1. CASE ~mine(t)
        BY <1>3, <2>1, <3>1 DEF CallerInv, Recorded, OpenSessionsRecorded
      <3>2. CASE given(t)
        BY <1>1, <1>4, <3>2 DEF CallerInv, Recorded
      <3>3. CASE mine(t) /\ ~given(t)
        <4>1. mode[t] = "polling" /\ r.kind = "event" /\ owns'[t] = owns[t]
          BY <1>4, <1>12, <2>1, <3>3
        <4>2. waiting[t] = r.id
          BY <1>6, <3>3
        <4> QED
          BY <1>1, <4>1, <4>2 DEF CallerInv, Recorded
      <3> QED
        BY <3>1, <3>2, <3>3
    <2>2. ASSUME NEW t \in Callers, mode'[t] = "polling", owns'[t] \notin linkSessions
          PROVE  /\ \A m \in Requests' : m.id # waiting'[t]
                 /\ \A q \in Responses' : q.id = waiting'[t] => q.kind \in {"end", "error"}
      <3>1. ~mine(t)
        BY <1>12, <2>2 DEF Waiting
      <3> QED
        BY <1>1, <1>3, <2>2, <3>1 DEF CallerInv, Recorded
    <2> QED
      BY <1>1, <1>2, <2>1, <2>2 DEF CallerInv, Recorded, OpenSessionsRecorded
  <1> QED
    BY <1>1, <1>13, <1>14, <1>15, <1>17, <1>18, <1>19 DEF CallerInv

\* A task asks the agent's helper: what it gets is an answer to its request, and
\* a session it is given is new.
LEMMA AskKeeps ==
  ASSUME TypeOK, TypeOK', OneCopy, CallerInv, NEW k \in tasks, Ask(k)
  PROVE  OneCopy' /\ CallerInv'
  <1>1. /\ k.phase = "ask" /\ k \in Task /\ k.kind = "error" /\ k \notin Starting
        /\ ~Names(k.req, OwnSession)
    BY DEF Ask, TypeOK, CallerInv, TasksFit, Starting
  <1>2. /\ UNCHANGED <<mode, waiting, owns, seen, next, outq, toAgent, toHub, agent, linkSessions>>
    BY DEF Ask, callerVars, hubVars, netVars
  <1>3. \E kind \in Kinds, s \in Nat :
          /\ Answer(k, kind, s)
          /\ Answers([k EXCEPT !.phase = "reply", !.kind = kind, !.session = s])
          /\ \/ kind # "started" /\ nextSession' = nextSession
             \/ s = nextSession + 1 /\ nextSession' = nextSession + 1
          /\ OwnSession \in helper'
    <2> USE DEF Kinds
    <2>0. /\ \A kind, s : LET j == [k EXCEPT !.phase = "reply", !.kind = kind, !.session = s]
                          IN j.req = k.req /\ j.kind = kind /\ j.session = s
          /\ k.req.session \in Nat /\ nextSession + 1 \in Nat /\ 0 \in Nat
          /\ OwnSession \in helper
      BY <1>1 DEF Task, Request, TypeOK, CallerInv, TasksFit
    <2>1. CASE k.req.op = "read" /\ Answer(k, "data", 0) /\ UNCHANGED <<helper, nextSession>>
      <3> WITNESS "data" \in Kinds, 0 \in Nat
      <3> QED
        BY <2>0, <2>1 DEF Answers
    <2>2. CASE /\ k.req.op = "observe" /\ helper' = helper \cup {nextSession + 1}
               /\ nextSession' = nextSession + 1 /\ Answer(k, "started", nextSession + 1)
      <3>1. nextSession + 1 \in Nat
        BY <2>0
      <3> WITNESS "started" \in Kinds, nextSession + 1 \in Nat
      <3> QED
        BY <2>0, <2>2 DEF Answers
    <2>3. CASE /\ k.req.op = "poll" /\ Answer(k, "event", k.req.session)
               /\ UNCHANGED <<helper, nextSession>>
      <3>1. k.req.session \in Nat
        BY <2>0
      <3> WITNESS "event" \in Kinds, k.req.session \in Nat
      <3> QED
        BY <2>0, <2>3 DEF Answers
    <2>4. CASE /\ k.req.op = "poll" /\ Answer(k, "end", k.req.session)
               /\ helper' = helper \ {k.req.session} /\ UNCHANGED nextSession
      <3>1. k.req.session \in Nat
        BY <2>0
      <3>2. k.req.session # OwnSession
        BY <1>1, <2>4 DEF Names
      <3> WITNESS "end" \in Kinds, k.req.session \in Nat
      <3> QED
        BY <2>0, <2>4, <3>2 DEF Answers
    <2>5. CASE /\ k.req.op = "close" /\ Answer(k, "closed", 0)
               /\ helper' = helper \ {k.req.session} /\ UNCHANGED nextSession
      <3>1. k.req.session # OwnSession
        BY <1>1, <2>5 DEF Names
      <3> WITNESS "closed" \in Kinds, 0 \in Nat
      <3> QED
        BY <2>0, <2>5, <3>1 DEF Answers
    <2>6. CASE Answer(k, "error", 0) /\ UNCHANGED <<helper, nextSession>>
      <3> WITNESS "error" \in Kinds, 0 \in Nat
      <3> QED
        BY <2>0, <2>6 DEF Answers
    <2> QED
      BY <2>1, <2>2, <2>3, <2>4, <2>5, <2>6 DEF Ask
  <1>4. PICK kind \in Kinds, s \in Nat :
          /\ Answer(k, kind, s)
          /\ Answers([k EXCEPT !.phase = "reply", !.kind = kind, !.session = s])
          /\ \/ kind # "started" /\ nextSession' = nextSession
             \/ s = nextSession + 1 /\ nextSession' = nextSession + 1
          /\ OwnSession \in helper'
    BY <1>3
  <1> DEFINE j == [k EXCEPT !.phase = "reply", !.kind = kind, !.session = s]
  <1>5. /\ tasks' = (tasks \ {k}) \cup {j} /\ Answers(j)
        /\ j.req = k.req /\ j.phase = "reply" /\ j.kind = kind /\ j.session = s
    BY <1>1, <1>4 DEF Answer, Task
  <1> HIDE DEF j
  <1>6. OneCopy' /\ Requests' = Requests /\ Responses' = Responses
    BY <1>2, <1>5, TaskMoves
  <1>7. nextSession \in Nat /\ OwnSession <= nextSession /\ nextSession' \in {nextSession, nextSession + 1}
    BY <1>4 DEF TypeOK, CallerInv, OwnersApart
  <1>8. TasksFit'
    BY <1>1, <1>2, <1>4, <1>5 DEF CallerInv, TasksFit
  <1>9. WaitersApart' /\ Fitting'
    BY <1>2, <1>6 DEF CallerInv, WaitersApart, Fitting
  <1>10. \A x : Unused(x) => Unused(x)' /\ x # nextSession + 1
    BY <1>2, <1>6, <1>7 DEF Unused, Names
  <1>11. kind = "started" => Unused(s)'
    <2> SUFFICES ASSUME kind = "started" PROVE Unused(s)'
      OBVIOUS
    <2>1. s = nextSession + 1 /\ nextSession' = nextSession + 1
      BY <1>4
    <2>2. s \in 2..nextSession'
      BY <1>7, <2>1 DEF OwnSession
    <2>3. \A t \in Callers : owns[t] # s
      BY <1>7, <2>1 DEF CallerInv, OwnersApart
    <2>4. \A m \in Requests : ~Names(m, s)
      BY <1>7, <2>1 DEF CallerInv, OwnersApart, Names
    <2> QED
      BY <1>2, <1>6, <2>2, <2>3, <2>4 DEF Unused, Names
  <1>12. Starting' = Starting \cup (IF kind = "started" THEN {j} ELSE {})
    BY <1>1, <1>5 DEF Starting
  <1>13. StartsApart'
    <2>1. kind = "started" => s = nextSession + 1
      BY <1>4
    <2>2. \A l \in Starting' : Unused(l.session)'
      BY <1>5, <1>10, <1>11, <1>12 DEF CallerInv, StartsApart
    <2>3. \A r \in Responses' : r.kind = "started" => Unused(r.session)'
      BY <1>6, <1>10 DEF CallerInv, StartsApart
    <2>4. \A l \in Starting : l.session # nextSession + 1
      BY <1>10 DEF CallerInv, StartsApart
    <2>5. \A r \in Responses : r.kind = "started" => r.session # nextSession + 1
      BY <1>10 DEF CallerInv, StartsApart
    <2>6. \A l, n \in Starting' : l.session = n.session => l = n
      BY <1>5, <1>12, <2>1, <2>4 DEF CallerInv, StartsApart
    <2>7. \A l \in Starting', r \in Responses' : r.kind = "started" => l.session # r.session
      BY <1>5, <1>6, <1>12, <2>1, <2>5 DEF CallerInv, StartsApart
    <2> QED
      BY <1>6, <2>2, <2>3, <2>6, <2>7 DEF CallerInv, StartsApart
  <1>14. OwnersApart'
    <2>1. \A t \in Callers : owns'[t] \in {0} \cup 2..nextSession'
      BY <1>2, <1>7 DEF CallerInv, OwnersApart
    <2>2. \A m \in Requests : m.op \in {"poll", "close"} => m.session <= nextSession'
      <3>1. \A m \in Requests : m.session \in Nat
        <4>1. \A q \in Seq(Request) : Range(q) \subseteq Request
          BY DEF Range
        <4>2. Range(outq) \subseteq Request /\ Range(toAgent) \subseteq Request
          BY <4>1 DEF TypeOK
        <4> QED
          BY <4>2 DEF Requests, Queued, Sent, Asked, TypeOK, Task, Request
      <3> QED
        BY <1>7, <3>1 DEF CallerInv, OwnersApart
    <2>3. OwnSession <= nextSession'
      BY <1>7 DEF OwnSession
    <2> QED
      BY <1>2, <1>6, <2>1, <2>2, <2>3 DEF CallerInv, OwnersApart, Names, OwnSession
  <1>15. Recorded'
    BY <1>2, <1>6 DEF CallerInv, Recorded, OpenSessionsRecorded
  <1> QED
    BY <1>6, <1>8, <1>9, <1>13, <1>14, <1>15 DEF CallerInv

\* A task ends: its response suits whoever waits for it, and the sessions on
\* record lose only the one that its request was about.
LEMMA ReplyKeeps ==
  ASSUME TypeOK, TypeOK', OneCopy, CallerInv, NEW k \in tasks, Reply(k)
  PROVE  OneCopy' /\ CallerInv'
  <1> DEFINE r == [id |-> k.req.id, kind |-> k.kind, session |-> k.session]
  <1>1. /\ OneCopy' /\ Requests' = Requests \ {k.req}
        /\ Responses' \subseteq Responses \cup {r}
    BY ReplyMoves
  <1>2. /\ UNCHANGED <<mode, waiting, owns, seen, next, agent, helper, nextSession>>
        /\ tasks' = tasks \ {k} /\ k.phase \in {"refused", "reply"}
        /\ linkSessions' = IF k.phase = "reply" THEN Updated(k) ELSE linkSessions
    BY DEF Reply, callerVars, hubVars
  <1>3. r.id = k.req.id /\ r.kind = k.kind /\ r.session = k.session
    OBVIOUS
  <1> HIDE DEF r
  <1>4. k.req \in Requests /\ k.req.id # 0
    BY DEF Requests, Asked, OneCopy
  <1>5. Answers(k) /\ (k.kind = "started" => k \in Starting /\ k.req.op = "observe")
    BY <1>2 DEF CallerInv, TasksFit, Answers, Starting
  <1>6. Starting' = Starting \ {k}
    BY <1>2 DEF Starting
  <1>7. k.kind = "started" => Unused(k.session)
    BY <1>5 DEF CallerInv, StartsApart
  <1>8. \A x : Unused(x) => Unused(x)'
    BY <1>1, <1>2 DEF Unused, Names
  <1>9. TasksFit'
    <2>1. OwnSession \notin linkSessions'
      <3>1. k.kind = "started" => k.session # OwnSession
        BY <1>7 DEF Unused, OwnSession, TypeOK
      <3> QED
        BY <1>2, <3>1 DEF Updated, CallerInv, TasksFit
    <2> QED
      BY <1>2, <2>1 DEF CallerInv, TasksFit
  <1>10. WaitersApart'
    BY <1>2 DEF CallerInv, WaitersApart
  <1>11. Fitting'
    <2>1. ASSUME NEW t \in Callers, waiting[t] # 0, waiting[t] = r.id
          PROVE  Suits(mode[t], owns[t], r)
      <3>1. Fits(mode[t], owns[t], k.req)
        BY <1>3, <1>4, <2>1 DEF CallerInv, Fitting
      <3> QED
        BY <1>3, <1>5, <3>1 DEF Fits, Suits, Answers
    <2> QED
      BY <1>1, <1>2, <2>1 DEF CallerInv, Fitting
  <1>12. StartsApart'
    <2>1. \A l \in Starting' : Unused(l.session)'
      BY <1>6, <1>8 DEF CallerInv, StartsApart
    <2>2. \A q \in Responses' : q.kind = "started" => Unused(q.session)'
      BY <1>1, <1>3, <1>7, <1>8 DEF CallerInv, StartsApart
    <2>3. \A q \in Responses : k.kind = "started" /\ q.kind = "started" => k.session # q.session
      BY <1>5 DEF CallerInv, StartsApart
    <2>4. \A l \in Starting' : k.kind = "started" => l.session # k.session
      BY <1>5, <1>6 DEF CallerInv, StartsApart
    <2>5. \A a, b \in Responses' :
            a.kind = "started" /\ b.kind = "started" /\ a.session = b.session => a = b
      BY <1>1, <1>3, <2>3 DEF CallerInv, StartsApart
    <2>6. \A l \in Starting', q \in Responses' : q.kind = "started" => l.session # q.session
      BY <1>1, <1>3, <1>6, <2>4 DEF CallerInv, StartsApart
    <2>7. \A l, n \in Starting' : l.session = n.session => l = n
      BY <1>6 DEF CallerInv, StartsApart
    <2> QED
      BY <2>1, <2>2, <2>5, <2>6, <2>7 DEF StartsApart
  <1>13. OwnersApart'
    BY <1>1, <1>2 DEF CallerInv, OwnersApart, Names, OwnSession
  <1>14. Recorded'
    <2> SUFFICES ASSUME agent = "run" PROVE Recorded'
      BY <1>2 DEF Recorded
    <2>1. \A x : x \in linkSessions /\ x \notin linkSessions' =>
            Names(k.req, x) /\ (k.req.op = "close" \/ k.kind \in {"end", "error"})
      BY <1>2 DEF Updated, Names
    <2>2. \A x \in linkSessions' : x \in linkSessions \/ (x = k.session /\ k.kind = "started")
      BY <1>2 DEF Updated
    <2>3. ASSUME NEW t \in Callers, mode[t] = "open" PROVE owns[t] \in linkSessions'
      <3>1. owns[t] \in linkSessions /\ waiting[t] = 0
        BY <2>3 DEF CallerInv, Recorded, OpenSessionsRecorded, WaitersApart, Waiting
      <3>2. ~Names(k.req, owns[t])
        BY <1>4, <2>3, <3>1 DEF CallerInv, OwnersApart
      <3> QED
        BY <2>1, <3>1, <3>2
    <2>4. ASSUME NEW t \in Callers, mode[t] = "polling", owns[t] \notin linkSessions'
          PROVE  /\ \A m \in Requests' : m.id # waiting[t]
                 /\ \A q \in Responses' : q.id = waiting[t] => q.kind \in {"end", "error"}
      <3>1. CASE owns[t] \notin linkSessions
        BY <1>1, <1>3, <1>4, <2>4, <3>1 DEF CallerInv, Recorded
      <3>2. CASE owns[t] \in linkSessions
        <4>1. Names(k.req, owns[t]) /\ (k.req.op = "close" \/ k.kind \in {"end", "error"})
          BY <2>1, <2>4, <3>2
        <4>2. k.req.id = waiting[t] /\ waiting[t] # 0
          BY <1>4, <2>4, <4>1 DEF CallerInv, OwnersApart
        <4>3. k.req.op = "poll"
          BY <1>4, <2>4, <4>2 DEF CallerInv, Fitting, Fits
        <4>4. \A m \in Requests' : m.id # waiting[t]
          BY <1>1, <1>4, <4>2 DEF OneCopy
        <4>5. \A q \in Responses : q.id # waiting[t]
          BY <1>4, <4>2 DEF OneCopy
        <4> QED
          BY <1>1, <1>3, <4>1, <4>3, <4>4, <4>5
      <3> QED
        BY <3>1, <3>2
    <2>5. ASSUME NEW q \in Responses', q.kind = "started" PROVE q.session \in linkSessions'
      <3>1. CASE q \in Responses
        <4>1. q.session \in linkSessions /\ ~Names(k.req, q.session)
          BY <1>4, <2>5, <3>1 DEF CallerInv, Recorded, StartsApart, Unused
        <4> QED
          BY <2>1, <4>1
      <3>2. CASE q = r
        <4>1. k.kind = "started" /\ k.phase = "reply" /\ k.req.op = "observe"
          BY <1>3, <1>5, <2>5, <3>2 DEF Starting
        <4> QED
          BY <1>2, <1>3, <3>2, <4>1 DEF Updated
      <3> QED
        BY <1>1, <3>1, <3>2
    <2> QED
      BY <1>2, <2>3, <2>4, <2>5 DEF Recorded, OpenSessionsRecorded
  <1> QED
    BY <1>1, <1>9, <1>10, <1>11, <1>12, <1>13, <1>14 DEF CallerInv

\* Every step keeps numbers, sessions and callers apart.
LEMMA CallerStep ==
  ASSUME TypeOK, TypeOK', OneCopy, CallerInv, [Next]_vars
  PROVE  OneCopy' /\ CallerInv'
  <1>1. ASSUME NEW t \in Callers, Read(t) \/ Observe(t) \/ Poll(t) PROVE OneCopy' /\ CallerInv'
    <2>1. CASE Read(t)
      BY <2>1, ExchangeKeeps DEF Read
    <2>2. CASE Observe(t)
      BY <2>2, ExchangeKeeps DEF Observe
    <2>3. CASE Poll(t)
      BY <2>3, ExchangeKeeps DEF Poll
    <2> QED
      BY <1>1, <2>1, <2>2, <2>3
  <1>2. ASSUME UNCHANGED <<owns, seen, next, outq, toAgent, toHub, agent, tasks, linkSessions,
                           nextSession>>,
               OwnSession \in helper',
               \A t \in Callers :
                 \/ waiting'[t] = waiting[t] /\ mode'[t] = mode[t]
                 \/ waiting'[t] = 0 /\ mode'[t] \in {"idle", "ending"}
        PROVE  OneCopy' /\ CallerInv'
    <2>1. OneCopy' /\ Requests' = Requests /\ Responses' = Responses
      BY <1>2, NothingMoves
    <2>2. TasksFit' /\ Starting' = Starting
      BY <1>2 DEF CallerInv, TasksFit, Starting
    <2> QED
      BY <1>2, <2>1, <2>2, QuietStep
  <1>3. OwnSession \in helper
    BY DEF CallerInv, TasksFit
  <1>4. ASSUME NEW t \in Callers, TimeOut(t) PROVE OneCopy' /\ CallerInv'
    <2>1. /\ waiting'[t] = 0 /\ mode'[t] \in {"idle", "ending"}
          /\ \A u \in Callers \ {t} : waiting'[u] = waiting[u] /\ mode'[u] = mode[u]
      BY <1>4 DEF TimeOut, TypeOK, FailedMode
    <2> QED
      BY <1>2, <1>3, <1>4, <2>1 DEF TimeOut, netVars, agentVars
  <1>5. ASSUME NEW t \in Callers, Drop(t) PROVE OneCopy' /\ CallerInv'
    BY <1>5, DropKeeps
  <1>6. ASSUME NEW op \in {"poll", "close"}, Stray(op) PROVE OneCopy' /\ CallerInv'
    <2> DEFINE m == Message(op, OwnSession)
    <2>1. m \in Request /\ m.id = next + 1 /\ m.session = OwnSession
      BY DEF Message, Request, Ops, TypeOK, OwnSession
    <2>2. /\ outq' = Append(outq, m) /\ next' = next + 1
          /\ UNCHANGED <<mode, waiting, owns, seen, toAgent, toHub, tasks, agent, linkSessions,
                         helper, nextSession>>
      BY <1>6 DEF Stray, callerVars, netVars, agentVars
    <2> HIDE DEF m
    <2>3. OwnSession <= nextSession
      BY DEF CallerInv, OwnersApart
    <2>4. \A t \in Callers : owns'[t] # 0 => owns'[t] # OwnSession
      BY <2>2 DEF CallerInv, OwnersApart, OwnSession, TypeOK
    <2>5. \A s : Unused(s) => s # OwnSession
      BY DEF Unused, OwnSession, TypeOK
    <2> QED
      BY <2>1, <2>2, <2>3, <2>4, <2>5, LooseRequest
  <1>7. CASE HubWrite
    <2>1. OneCopy' /\ Requests' = Requests /\ Responses' = Responses
      BY <1>7, WriteMoves
    <2>2. UNCHANGED <<mode, waiting, owns, seen, next, agent, tasks, linkSessions, helper,
                      nextSession>>
      BY <1>7 DEF HubWrite, callerVars, agentVars
    <2>3. TasksFit' /\ Starting' = Starting
      BY <2>2 DEF CallerInv, TasksFit, Starting
    <2> QED
      BY <2>1, <2>2, <2>3, QuietStep
  <1>8. CASE HubReceive
    BY <1>8, ReceiveKeeps
  <1>9. CASE HubEnds
    <2>1. OneCopy' /\ Requests' \subseteq Requests /\ Responses' \subseteq Responses
      BY <1>9, EndMoves
    <2>2. UNCHANGED <<owns, seen, next, agent, tasks, linkSessions, helper, nextSession>>
      BY <1>9 DEF HubEnds, agentVars
    <2>3. TasksFit' /\ Starting' = Starting
      BY <2>2 DEF CallerInv, TasksFit, Starting
    <2>4. \A t \in Callers :
            \/ waiting'[t] = waiting[t] /\ mode'[t] = mode[t]
            \/ waiting'[t] = 0 /\ mode'[t] \in {"idle", "ending"}
      BY <1>9 DEF HubEnds, FailedMode
    <2> QED
      BY <2>1, <2>2, <2>3, <2>4, QuietStep
  <1>10. ASSUME EndAgent PROVE OneCopy' /\ CallerInv'
    <2>1. OneCopy' /\ Requests' \subseteq Requests /\ Responses' \subseteq Responses
      BY <1>10, EndMoves
    <2>2. /\ UNCHANGED <<mode, waiting, owns, seen, next, tasks, nextSession>>
          /\ agent' = "ended" /\ linkSessions' = {} /\ helper' = helper \ linkSessions
      BY <1>10 DEF EndAgent, callerVars, hubVars
    <2>3. TasksFit' /\ Starting' = Starting
      BY <2>2 DEF CallerInv, TasksFit, Starting
    <2>4. \A t \in Callers : waiting'[t] = waiting[t] /\ mode'[t] = mode[t]
      BY <2>2
    <2>5. agent' # "run"
      BY <2>2
    <2> QED
      BY <2>1, <2>2, <2>3, <2>4, <2>5, QuietStep
  <1>11. CASE Spawn
    <2>1. CASE Cardinality(tasks) < Permits
      <3>1. OneCopy' /\ Requests' = Requests /\ Responses' = Responses
        BY <1>11, <2>1, SpawnMoves
      <3>2. PICK j \in Task : j.phase = "check" /\ j.kind = "error" /\ tasks' = tasks \cup {j}
        BY <1>11, <2>1, SpawnMoves
      <3>3. UNCHANGED <<mode, waiting, owns, seen, next, agent, linkSessions, helper, nextSession>>
        BY <1>11, <2>1 DEF Spawn, callerVars, hubVars
      <3>4. TasksFit' /\ Starting' = Starting
        BY <3>2, <3>3 DEF CallerInv, TasksFit, Starting
      <3> QED
        BY <3>1, <3>3, <3>4, QuietStep
    <2>2. CASE ~(Cardinality(tasks) < Permits)
      BY <1>10, <1>11, <2>2 DEF Spawn
    <2> QED
      BY <2>1, <2>2
  <1>12. CASE AgentEnds
    BY <1>10, <1>12 DEF AgentEnds
  <1>13. ASSUME NEW k \in tasks, Check(k) PROVE OneCopy' /\ CallerInv'
    <2> DEFINE foreign == k.req.op \in {"poll", "close"} /\ k.req.session \notin linkSessions
               j == [k EXCEPT !.phase = IF foreign THEN "refused" ELSE "ask"]
    <2>1. /\ tasks' = (tasks \ {k}) \cup {j} /\ k.phase = "check"
          /\ UNCHANGED <<mode, waiting, owns, seen, next, outq, toAgent, toHub, agent,
                         linkSessions, helper, nextSession>>
      BY <1>13 DEF Check, callerVars, hubVars, netVars
    <2>2. /\ j.req = k.req /\ j.kind = k.kind
          /\ j.phase = IF foreign THEN "refused" ELSE "ask"
      BY DEF TypeOK, Task
    <2> HIDE DEF j
    <2>3. OneCopy' /\ Requests' = Requests /\ Responses' = Responses
      BY <2>1, <2>2, TaskMoves
    <2>4. TasksFit'
      <3>1. k.kind = "error" /\ OwnSession \notin linkSessions
        BY <2>1 DEF CallerInv, TasksFit
      <3>2. j.phase = "ask" => ~Names(j.req, OwnSession)
        BY <2>2, <3>1 DEF Names
      <3> QED
        BY <2>1, <2>2, <3>1, <3>2 DEF CallerInv, TasksFit
    <2>5. Starting' \subseteq Starting
      BY <2>1, <2>2 DEF Starting
    <2> QED
      BY <2>1, <2>3, <2>4, <2>5, QuietStep
  <1>14. ASSUME NEW k \in tasks, Ask(k) PROVE OneCopy' /\ CallerInv'
    BY <1>14, AskKeeps
  <1>15. ASSUME NEW k \in tasks, Reply(k) PROVE OneCopy' /\ CallerInv'
    BY <1>15, ReplyKeeps
  <1>16. ASSUME NEW s \in helper, Expire(s) PROVE OneCopy' /\ CallerInv'
    BY <1>2, <1>3, <1>16 DEF Expire, callerVars, hubVars, netVars
  <1>17. CASE ConnectionLost
    BY <1>2, <1>3, <1>17 DEF ConnectionLost, callerVars, hubVars, agentVars
  <1>18. CASE UNCHANGED vars
    BY <1>2, <1>3, <1>18 DEF vars, callerVars, hubVars, netVars, agentVars
  <1> QED
    BY <1>1, <1>4, <1>5, <1>6, <1>7, <1>8, <1>9, <1>11, <1>12, <1>13, <1>14, <1>15, <1>16, <1>17,
       <1>18
    DEF Next, TaskStep

-----------------------------------------------------------------------------
(* No request is lost inside a link that is up.                            *)

\* The numbers of the requests and the responses that exist.
Tracked == {m.id : m \in Requests \cup Responses}

\* Every pending request has its message, its task or its response, before and
\* after a step.
LEMMA TrackedPending ==
  /\ PendingTracked <=> (hub = "run" /\ conn => pending \subseteq Tracked)
  /\ PendingTracked' <=> (hub' = "run" /\ conn' => pending' \subseteq Tracked')
  <1>1. Tracked = {m.id : m \in Range(outq) \cup Range(toAgent) \cup Range(toHub)}
                    \cup {k.req.id : k \in tasks}
    BY DEF Tracked, Requests, Responses, Queued, Sent, Asked
  <1>2. Tracked' = {m.id : m \in Range(outq') \cup Range(toAgent') \cup Range(toHub')}
                     \cup {k.req.id : k \in tasks'}
    BY DEF Tracked, Requests, Responses, Queued, Sent, Asked
  <1> QED
    BY <1>1, <1>2 DEF PendingTracked

\* Every step keeps track of what is pending: what it takes off the way is no
\* longer pending, or the link is down.
LEMMA TrackedStep ==
  ASSUME TypeOK, OneCopy, Down, PendingTracked, [Next]_vars
  PROVE  Down' /\ PendingTracked'
  <1>0. hub = "run" /\ conn => pending \subseteq Tracked
    BY TrackedPending
  <1>1. ASSUME hub' = hub, conn' = conn, agent' = agent,
               hub = "run" /\ conn => pending' \subseteq Tracked'
        PROVE  Down' /\ PendingTracked'
    BY <1>1, TrackedPending DEF Down
  <1>2. ASSUME hub' = hub, conn' = conn, agent' = agent, pending' \subseteq pending,
               Requests \subseteq Requests', Responses \subseteq Responses'
        PROVE  Down' /\ PendingTracked'
    BY <1>0, <1>1, <1>2 DEF Tracked
  <1>3. ASSUME conn' = FALSE PROVE Down' /\ PendingTracked'
    BY <1>3 DEF Down, PendingTracked
  <1>4. ASSUME NEW t \in Callers, NEW op \in Ops, NEW during, Exchange(t, op, during)
        PROVE  Down' /\ PendingTracked'
    <2> DEFINE m == Message(op, owns[t])
    <2>1. m \in Request /\ m.id = next + 1
      BY DEF Message, Request, TypeOK
    <2>2. next' = next + 1 /\ UNCHANGED <<hub, conn, toAgent, toHub, agent, tasks>>
      BY <1>4 DEF Exchange, netVars, agentVars
    <2> HIDE DEF m
    <2>3. CASE outq' = Append(outq, m) /\ pending' = pending \cup {next + 1}
      <3>1. Requests' = Requests \cup {m} /\ Responses' = Responses
        BY <2>1, <2>2, <2>3, QueueMoves
      <3>2. hub = "run" /\ conn => pending' \subseteq Tracked'
        BY <1>0, <2>1, <2>3, <3>1 DEF Tracked
      <3> QED
        BY <1>1, <2>2, <3>2
    <2>4. CASE UNCHANGED <<outq, pending>>
      <3>1. Requests' = Requests /\ Responses' = Responses
        BY <2>2, <2>4, NothingMoves
      <3> QED
        BY <1>2, <2>2, <2>4, <3>1
    <2> QED
      BY <1>4, <2>3, <2>4 DEF Exchange, m
  <1>5. ASSUME NEW t \in Callers, Read(t) \/ Observe(t) \/ Poll(t)
        PROVE  Down' /\ PendingTracked'
    BY <1>4, <1>5 DEF Read, Observe, Poll, Ops
  <1>6. ASSUME NEW op \in Ops, NEW s \in Nat, next' = next + 1,
               outq' = Append(outq, Message(op, s)),
               UNCHANGED <<pending, hub, conn, toAgent, toHub, agent, tasks>>
        PROVE  Down' /\ PendingTracked'
    <2>1. Message(op, s) \in Request /\ Message(op, s).id = next + 1
      BY DEF Message, Request, TypeOK
    <2>2. Requests' = Requests \cup {Message(op, s)} /\ Responses' = Responses
      BY <1>6, <2>1, QueueMoves
    <2> QED
      BY <1>2, <1>6, <2>2
  <1>7. ASSUME UNCHANGED <<outq, toAgent, toHub, tasks, hub, conn, agent>>, next' \in {next, next + 1},
               pending' \subseteq pending
        PROVE  Down' /\ PendingTracked'
    <2>1. Requests' = Requests /\ Responses' = Responses
      BY <1>7, NothingMoves
    <2> QED
      BY <1>2, <1>7, <2>1
  <1>8. ASSUME NEW t \in Callers, TimeOut(t) PROVE Down' /\ PendingTracked'
    BY <1>7, <1>8 DEF TimeOut, netVars, agentVars
  <1>9. ASSUME NEW t \in Callers, Drop(t) PROVE Down' /\ PendingTracked'
    <2>1. owns[t] \in Nat /\ UNCHANGED <<pending, hub, conn, toAgent, toHub, agent, tasks>>
      BY <1>9 DEF Drop, TypeOK, netVars, agentVars
    <2>2. \/ outq' = outq /\ next' \in {next, next + 1}
          \/ outq' = Append(outq, Message("close", owns[t])) /\ next' = next + 1
      BY <1>9 DEF Drop
    <2> QED
      BY <1>6, <1>7, <2>1, <2>2 DEF Ops
  <1>10. ASSUME NEW op \in {"poll", "close"}, Stray(op) PROVE Down' /\ PendingTracked'
    BY <1>6, <1>10 DEF Stray, Ops, OwnSession, netVars, agentVars
  <1>11. CASE HubWrite
    <2>1. Requests' = Requests /\ Responses' = Responses
      BY <1>11, WriteMoves
    <2> QED
      BY <1>2, <1>11, <2>1 DEF HubWrite, agentVars
  <1>12. CASE HubReceive
    <2> DEFINE r == Head(toHub)
    <2>1. Requests' = Requests /\ r \in Responses /\ Responses' = Responses \ {r}
      BY <1>12, ReceiveMoves
    <2>2. pending' = pending \ {Matching(r)} /\ UNCHANGED <<hub, conn, agent>>
      BY <1>12 DEF HubReceive, agentVars
    <2> HIDE DEF r
    <2>3. r.id \notin pending'
      BY <2>2 DEF Matching
    <2>4. hub = "run" /\ conn => pending' \subseteq Tracked'
      BY <1>0, <2>1, <2>2, <2>3 DEF Tracked
    <2> QED
      BY <1>1, <2>2, <2>4
  <1>13. CASE HubEnds
    BY <1>3, <1>13 DEF HubEnds
  <1>14. ASSUME EndAgent PROVE Down' /\ PendingTracked'
    BY <1>3, <1>14 DEF EndAgent
  <1>15. CASE Spawn
    <2>1. CASE Cardinality(tasks) < Permits
      <3>1. Requests' = Requests /\ Responses' = Responses
        BY <1>15, <2>1, SpawnMoves
      <3> QED
        BY <1>2, <1>15, <2>1, <3>1 DEF Spawn, hubVars
    <2>2. CASE ~(Cardinality(tasks) < Permits)
      BY <1>14, <1>15, <2>2 DEF Spawn
    <2> QED
      BY <2>1, <2>2
  <1>16. CASE AgentEnds
    BY <1>14, <1>16 DEF AgentEnds
  <1>17. ASSUME NEW k \in tasks, Check(k) \/ Ask(k) PROVE Down' /\ PendingTracked'
    <2>1. k.req \in Request /\ k \in Task
      BY DEF TypeOK, Task
    <2>2. PICK j : j.req = k.req /\ tasks' = (tasks \ {k}) \cup {j}
      <3>1. CASE Check(k)
        <4>1. \A p : [k EXCEPT !.phase = p].req = k.req
          BY <2>1 DEF Task
        <4> QED
          BY <3>1, <4>1 DEF Check
      <3>2. CASE Ask(k)
        <4>1. \A c, s : [k EXCEPT !.phase = "reply", !.kind = c, !.session = s].req = k.req
          BY <2>1 DEF Task
        <4> QED
          BY <3>2, <4>1 DEF Ask, Answer
      <3> QED
        BY <1>17, <3>1, <3>2
    <2>3. UNCHANGED <<next, pending, hub, outq, conn, toAgent, toHub, agent>>
      BY <1>17 DEF Check, Ask, hubVars, netVars
    <2>4. Requests' = Requests /\ Responses' = Responses
      BY <2>2, <2>3, TaskMoves
    <2> QED
      BY <1>2, <2>3, <2>4
  <1>18. ASSUME NEW k \in tasks, Reply(k) PROVE Down' /\ PendingTracked'
    <2> DEFINE r == [id |-> k.req.id, kind |-> k.kind, session |-> k.session]
    <2>1. /\ Requests' = Requests \ {k.req}
          /\ \/ agent = "run" /\ conn /\ Responses' = Responses \cup {r}
             \/ ~(agent = "run" /\ conn)
      BY <1>18, ReplyMoves
    <2>2. r.id = k.req.id /\ UNCHANGED <<pending, hub, conn, agent>>
      BY <1>18 DEF Reply, hubVars
    <2> HIDE DEF r
    <2>3. conn => agent = "run"
      BY DEF Down, TypeOK
    <2>4. hub = "run" /\ conn => pending' \subseteq Tracked'
      BY <1>0, <2>1, <2>2, <2>3 DEF Tracked
    <2> QED
      BY <1>1, <2>2, <2>4
  <1>19. ASSUME NEW s \in helper, Expire(s) PROVE Down' /\ PendingTracked'
    BY <1>7, <1>19 DEF Expire, hubVars, netVars
  <1>20. CASE ConnectionLost
    BY <1>3, <1>20 DEF ConnectionLost
  <1>21. CASE UNCHANGED vars
    BY <1>7, <1>21 DEF vars, hubVars, netVars, agentVars
  <1> QED
    BY <1>5, <1>8, <1>9, <1>10, <1>11, <1>12, <1>13, <1>15, <1>16, <1>17, <1>18, <1>19, <1>20,
       <1>21
    DEF Next, TaskStep

-----------------------------------------------------------------------------
(* The theorems.                                                           *)

\* A link starts with nothing asked and nothing recorded.
LEMMA InitInv ==
  ASSUME PendingLimit \in Nat, OutCapacity \in Nat, Permits \in Nat, Init
  PROVE  Inv
  <1>1. IsFiniteSet({}) /\ Cardinality({}) = 0
    BY FS_EmptySet
  <1>2. TypeOK
    <2>1. mode \in [Callers -> Modes] /\ waiting \in [Callers -> Nat]
      BY DEF Init, Modes
    <2>2. <<>> \in Seq(Request) /\ <<>> \in Seq(Response) /\ Len(<<>>) = 0
      OBVIOUS
    <2> QED
      BY <1>1, <2>1, <2>2 DEF Init, TypeOK, OwnSession
  <1>3. Queued = {} /\ Sent = {} /\ Asked = {} /\ Requests = {} /\ Responses = {} /\ Starting = {}
    BY EmptyRange DEF Init, Queued, Sent, Asked, Requests, Responses, Starting
  <1>4. OneCopy
    BY <1>3, EmptyRange DEF Init, OneCopy
  <1>5. WaitersApart /\ Fitting /\ TasksFit /\ StartsApart /\ OwnersApart /\ Recorded
    BY <1>3 DEF Init, WaitersApart, Waiting, Fitting, TasksFit, StartsApart, OwnersApart, Recorded,
                OpenSessionsRecorded, OwnSession
  <1> QED
    BY <1>1, <1>2, <1>4, <1>5 DEF Init, Inv, Finite, CallerInv, Down, PendingTracked

\* The invariant is inductive.
LEMMA Inductive ==
  ASSUME PendingLimit \in Nat, OutCapacity \in Nat, Permits \in Nat
  PROVE  (Init => Inv) /\ (Inv /\ [Next]_vars => Inv')
  <1>1. Init => Inv
    BY InitInv
  <1>2. Inv /\ [Next]_vars => Inv'
    <2> SUFFICES ASSUME Inv, [Next]_vars PROVE Inv'
      OBVIOUS
    <2>1. TypeOK' /\ Finite'
      BY TypeStep DEF Inv
    <2>2. OneCopy' /\ CallerInv'
      BY <2>1, CallerStep DEF Inv
    <2>3. Down' /\ PendingTracked'
      BY TrackedStep DEF Inv
    <2> QED
      BY <2>1, <2>2, <2>3 DEF Inv
  <1> QED
    BY <1>1, <1>2

\* What the invariant says of the callers and of the records.
LEMMA InvSuffices == Inv => LinkKeepsApart /\ LinkRecords
  BY DEF Inv, CallerInv, OwnersApart, TasksFit, Recorded, LinkKeepsApart, CallersSeparated,
         OwnViewersSafe, LinkRecords, OpenSessionsRecorded

\* The pending table, the outgoing channel and the agent's tasks stay within
\* PENDING_LIMIT, the channel's capacity and CONCURRENT_REQUESTS
\* (hosts/link.rs, hosts/connector.rs).
THEOREM TypeCorrect ==
  ASSUME PendingLimit \in Nat, OutCapacity \in Nat, Permits \in Nat
  PROVE  Spec => []TypeOK
  <1>1. Inv => TypeOK
    BY DEF Inv
  <1> QED
    BY <1>1, Inductive, PTL DEF Spec

\* However responses overtake each other, whatever was forgotten, dropped or
\* timed out, a caller of the hub sees events of its own session only, no two
\* callers own one session, and no request of the hub ends a session of the
\* agent's own viewers (AgentLink::complete, answer_monitor_request).
THEOREM LinkApart ==
  ASSUME PendingLimit \in Nat, OutCapacity \in Nat, Permits \in Nat
  PROVE  Spec => []LinkKeepsApart
  BY Inductive, InvSuffices, PTL DEF Spec

\* While the link is up no pending request is lost, and what a caller polls is on
\* the agent's record of the link's sessions, so that its polls are let through
\* and its session can be closed (Sessions::update, run_agent_session).
THEOREM LinkRecorded ==
  ASSUME PendingLimit \in Nat, OutCapacity \in Nat, Permits \in Nat
  PROVE  Spec => []LinkRecords
  BY Inductive, InvSuffices, PTL DEF Spec
=============================================================================
