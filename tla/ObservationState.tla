-------------------------- MODULE ObservationState --------------------------
(***************************************************************************)
(* The state the HTTP server keeps for each observation session            *)
(* (ObservationProcessor in http_server/processing.rs), the mutex around   *)
(* it and the list of closed sessions (http_server/client.rs), and the two *)
(* kinds of callers: local streams, which own an ObservationSession, and a *)
(* hub, whose requests connector.rs passes to MonitorClient::request.      *)
(*                                                                         *)
(* "table" is histories, whose key holds the session; activity is bounded, *)
(* cleared and closed alike, but gets its entry with the first batch.  A   *)
(* reply is processed in two steps, because processing awaits mapped files *)
(* with the mutex held.                                                    *)
(***************************************************************************)
EXTENDS Naturals, FiniteSets

CONSTANTS
  MaxSessions,  \* bound on the sessions of one behaviour
  ViewerLimit,  \* sessions the helper admits, 32 in the code
  Cap,          \* entries of the table, 64 in the code
  Adverse       \* what else may happen: "cancel" (a caller gives up while its
                \* session is set up), "fail" (processing fails), "expire"
                \* (a lease runs out), "hub" (a hub uses this host)

ASSUME StateAssumption ==
  /\ MaxSessions \in Nat /\ ViewerLimit \in Nat
  /\ Cap \in Nat /\ 0 < Cap /\ ViewerLimit <= Cap
  /\ Adverse \subseteq {"cancel", "fail", "expire", "hub"}

Sessions == 1..MaxSessions

VARIABLES
  helper,   \* sessions alive in the helper
  stage,    \* the session, as its caller sees it
  setup,    \* its first reply has not been handed to the caller
  byHub,    \* it was started for a hub
  lock,     \* the session whose reply is processed, 0 when the mutex is free
  table,    \* sessions with an entry
  closed    \* closed_sessions

vars == <<helper, stage, setup, byHub, lock, table, closed>>

\* The shape of the state: the table never holds more than its bound, although a
\* live session's entry may be the one too many.
TypeOK ==
  /\ helper \subseteq Sessions
  /\ stage \in [Sessions -> {"none", "reply", "processing", "open", "closed", "failed"}]
  /\ setup \in [Sessions -> BOOLEAN] /\ byHub \in [Sessions -> BOOLEAN]
  /\ lock \in 0..MaxSessions
  /\ table \subseteq Sessions /\ Cardinality(table) <= Cap
  /\ closed \subseteq Sessions

Init ==
  /\ helper = {} /\ lock = 0 /\ table = {} /\ closed = {}
  /\ stage = [s \in Sessions |-> "none"]
  /\ setup = [s \in Sessions |-> TRUE]
  /\ byHub = [s \in Sessions |-> FALSE]

SetStage(s, to) == stage' = [stage EXCEPT ![s] = to]

-----------------------------------------------------------------------------
\* The helper starts a session; its reply reaches the caller's task.
Start(s, hub) ==
  /\ hub => "hub" \in Adverse
  /\ stage[s] = "none" /\ Cardinality(helper) < ViewerLimit
  /\ \A r \in Sessions : r < s => stage[r] # "none"
  /\ helper' = helper \cup {s}
  /\ byHub' = [byHub EXCEPT ![s] = hub]
  /\ SetStage(s, "reply")
  /\ UNCHANGED <<setup, lock, table, closed>>

\* The reply of a poll reaches the caller's task.
Poll(s) ==
  /\ stage[s] = "open" /\ s \in helper
  /\ SetStage(s, "reply")
  /\ UNCHANGED <<helper, setup, byHub, lock, table, closed>>

\* ObservationProcessor::close for each session of ss.
Close(ss, t) == t \ ss

\* A full table is emptied for a new entry.
Insert(s, t) == IF Cardinality(t) >= Cap /\ s \notin t THEN {s} ELSE t \cup {s}

MutantProcess(s) ==
  /\ stage[s] = "reply" /\ lock = 0
  /\ lock' = s
  /\ SetStage(s, "processing")
  /\ table' = Insert(s, table)
  /\ UNCHANGED <<helper, setup, byHub, closed>>

\* The mutex is taken, closed sessions are drained, then the entry is made.
Process(s) ==
  /\ stage[s] = "reply" /\ lock = 0
  /\ lock' = s
  /\ SetStage(s, "processing")
  /\ table' = Insert(s, Close(closed, table))
  /\ closed' = {}
  /\ UNCHANGED <<helper, setup, byHub>>

\* The reply is handed to the caller, which has its session then, unless a
\* hub closed it in the meantime.
Processed(s) ==
  /\ lock = s
  /\ lock' = 0
  /\ SetStage(s, IF byHub[s] /\ s \notin helper THEN "closed" ELSE "open")
  /\ setup' = [setup EXCEPT ![s] = FALSE]
  /\ UNCHANGED <<helper, byHub, table, closed>>

Unlocked(s) == lock' = IF lock = s THEN 0 ELSE lock

\* try_lock: the mutex is free, unless it was already given to a waiter.
TryLock(s, got) ==
  IF got THEN lock' = 0 ELSE lock' # 0 \/ \E r \in Sessions \ {s} : stage[r] = "reply"

MutantDrop(s) ==
  /\ ~byHub[s] /\ ~setup[s]
  /\ stage[s] \in {"open", "reply", "processing"}
  /\ Unlocked(s)
  /\ SetStage(s, "closed")
  /\ \E got \in BOOLEAN :
       /\ TryLock(s, got)
       /\ table' = IF got THEN Close(closed \cup {s}, table) ELSE table
       /\ closed' = IF got THEN {} ELSE closed
  /\ UNCHANGED <<helper, setup, byHub>>

\* An ObservationSession is dropped, at whatever point of a poll: the state
\* is released at once if the mutex can be had, else by the next reply.
Drop(s) ==
  /\ ~byHub[s] /\ ~setup[s]
  /\ stage[s] \in {"open", "reply", "processing"}
  /\ Unlocked(s)
  /\ SetStage(s, "closed")
  /\ \E got \in BOOLEAN :
       /\ TryLock(s, got)
       /\ table' = IF got THEN Close(closed \cup {s}, table) ELSE table
       /\ closed' = IF got THEN {} ELSE closed \cup {s}
  /\ UNCHANGED <<helper, setup, byHub>>

\* A local caller gives up before it has an ObservationSession, or processing
\* fails for a caller that has none.
Fails(s) ==
  /\ setup[s] \/ byHub[s]
  /\ \/ stage[s] \in {"reply", "processing"} /\ ~byHub[s] /\ "cancel" \in Adverse
     \/ stage[s] = "processing" /\ "fail" \in Adverse
  /\ Unlocked(s)
  /\ SetStage(s, "failed")
  /\ UNCHANGED <<helper, setup, byHub, table, closed>>

\* A hub closes its session, perhaps during a poll: the request goes to the
\* helper.
HubClose(s) ==
  /\ byHub[s] /\ ~setup[s] /\ s \in helper
  /\ stage[s] \in {"open", "reply", "processing"}
  /\ SetStage(s, IF stage[s] = "open" THEN "closed" ELSE stage[s])
  /\ helper' = helper \ {s}
  /\ UNCHANGED <<setup, byHub, lock, table, closed>>

\* The Close of a dropped session arrives, or the lease of one that nobody
\* polls, or that its caller polls too seldom, runs out.
Release(s) ==
  /\ s \in helper
  /\ stage[s] \in {"closed", "failed"} \/ (stage[s] = "open" /\ "expire" \in Adverse)
  /\ helper' = helper \ {s}
  /\ UNCHANGED <<stage, setup, byHub, lock, table, closed>>

Next ==
  \E s \in Sessions :
    \/ \E hub \in BOOLEAN : Start(s, hub)
    \/ Poll(s) \/ Process(s) \/ Processed(s)
    \/ Drop(s) \/ Fails(s) \/ HubClose(s) \/ Release(s)

Spec == Init /\ [][Next]_vars

-----------------------------------------------------------------------------
(* Properties                                                              *)

\* A local session that was closed has no entry, or one that the next reply
\* will remove, wherever its caller and the others were when it was dropped
\* (ObservationSession::drop, MonitorClient::close).
LocalReleased ==
  \A s \in Sessions :
    stage[s] = "closed" /\ ~byHub[s] /\ s \in table => s \in closed

\* Entries nobody will release: of sessions that ended without a close that
\* MonitorClient::close saw.
Orphans == {s \in table : s \notin helper /\ s \notin closed}

Live == {"reply", "processing", "open"}

\* A session that is watched loses its history only to orphans: the clear of
\* ObservationProcessor::process takes it only when as many of them have piled
\* up as the table has entries beyond the helper's limit of viewers.
HistoryKept ==
  [][\A s \in Sessions :
       stage[s] \in Live /\ stage'[s] \in Live /\ s \in table /\ s \notin table'
         => Cardinality(Orphans) + ViewerLimit >= Cap]_vars

\* "Closing an observation releases that session's state" (DEVELOPMENT.md),
\* whoever opened it.
ClosedReleased ==
  \A s \in Sessions : stage[s] = "closed" /\ s \in table => s \in closed

=============================================================================
