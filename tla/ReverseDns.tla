----------------------------- MODULE ReverseDns ------------------------------
(***************************************************************************)
(* The helper's cache of reverse lookups (system/resolver.rs): snapshots   *)
(* ask and never wait, four threads resolve.                               *)
(***************************************************************************)
EXTENDS Naturals, Sequences, FiniteSets

CONSTANTS
  Ips, Workers,
  QueueLimit,  \* 4096: capacity of the channel
  CacheLimit   \* 4096: entries of the cache

VARIABLES
  cache,   \* ip to absent, pending, expired or its answer
  queue,   \* the channel
  worker   \* the address each thread looks up; Idle: none

vars == <<cache, queue, worker>>
Idle == "idle"

Cached(c) == {ip \in Ips : c[ip] # "absent"}

MutantRetained ==
  [ip \in Ips |-> IF cache[ip] \in {"pending", "expired"} THEN "absent" ELSE cache[ip]]

\* Looking up drops what has expired and keeps what is pending.
Retained == [ip \in Ips |-> IF cache[ip] = "expired" THEN "absent" ELSE cache[ip]]

MutantAsk(ip) ==
  /\ cache[ip] \in {"absent", "expired"}
  /\ IF Cardinality(Cached(Retained)) >= CacheLimit THEN cache' = Retained /\ UNCHANGED queue
     ELSE /\ cache' = [Retained EXCEPT ![ip] = "pending"]
          /\ queue' = IF Len(queue) < QueueLimit THEN Append(queue, ip) ELSE queue
  /\ UNCHANGED worker

\* lookup of an address whose answer is not in the cache; an entry is made only
\* when the channel took the request.
Ask(ip) ==
  /\ cache[ip] \in {"absent", "expired"}
  /\ IF Cardinality(Cached(Retained)) >= CacheLimit \/ Len(queue) >= QueueLimit
       THEN cache' = Retained /\ UNCHANGED queue
       ELSE /\ queue' = Append(queue, ip)
            /\ cache' = [Retained EXCEPT ![ip] = "pending"]
  /\ UNCHANGED worker

\* A thread waits for the receiver's mutex and takes the next address.
Take(w) ==
  /\ worker[w] = Idle /\ queue # <<>>
  /\ worker' = [worker EXCEPT ![w] = Head(queue)]
  /\ queue' = Tail(queue)
  /\ UNCHANGED cache

\* getnameinfo gives a name, or none: a failure, an empty name, an address.
LookupHostname == {"name", "none"}

\* The answer replaces the pending entry.
Answer(w) ==
  /\ worker[w] # Idle
  /\ \E found \in LookupHostname : cache' = [cache EXCEPT ![worker[w]] = found]
  /\ worker' = [worker EXCEPT ![w] = Idle]
  /\ UNCHANGED queue

\* Five minutes pass for a name, one for a failure.
Expire(ip) ==
  /\ cache[ip] \in LookupHostname
  /\ cache' = [cache EXCEPT ![ip] = "expired"]
  /\ UNCHANGED <<queue, worker>>

Init ==
  /\ cache = [ip \in Ips |-> "absent"]
  /\ queue = <<>>
  /\ worker = [w \in Workers |-> Idle]

Next ==
  \/ \E ip \in Ips : Ask(ip) \/ Expire(ip)
  \/ \E w \in Workers : Take(w) \/ Answer(w)

\* getnameinfo returns, and the threads go on taking addresses.
Spec == Init /\ [][Next]_vars /\ \A w \in Workers : WF_vars(Take(w)) /\ WF_vars(Answer(w))

-----------------------------------------------------------------------------
(* Properties                                                              *)

Asked(ip) == Cardinality({i \in DOMAIN queue : queue[i] = ip})
             + Cardinality({w \in Workers : worker[w] = ip})

\* An address is asked for once at a time, although lookups of other addresses
\* sweep the cache while it waits and a full channel refuses requests.
AskedOnce == \A ip \in Ips : Asked(ip) <= 1

\* A pending address gets its answer, and can be asked for again later.
PendingAnswered == \A ip \in Ips : cache[ip] = "pending" ~> cache[ip] # "pending"
=============================================================================
