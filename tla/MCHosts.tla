------------------------------ MODULE MCHosts -------------------------------
(* What travels between hosts and to the pages, for TLC: the delivery of    *)
(* snapshots, the link between hub and agent, and the relations of RDMA     *)
(* queue pairs.  They share nothing: `which` says which of them a behaviour *)
(* is about; the variables of the others stay Off, or as they start.        *)
EXTENDS SnapshotDelivery, FiniteSets, TLC

CONSTANTS
  Callers, PendingLimit, OutCapacity, Permits, Adverse, MaxRequests,
  Qps, HostOf, Layer, GidIndex, QueuePairLimit, Movable, OpenedBy, None,
  Off

VARIABLES
  which,
  mode, waiting, owns, seen, next, pending, hub, outq, conn, toAgent, toHub, agent,
  tasks, linkSessions, helper, nextSession,
  peer, cm, gidKnown, neighbors, qpTable, cmTable, step, relations, changed

Link == INSTANCE AgentLink
Rdma == INSTANCE RdmaRelations

linkVars == <<mode, waiting, owns, seen, next, pending, hub, outq, conn, toAgent,
              toHub, agent, tasks, linkSessions, helper, nextSession>>
rdmaVars == <<peer, cm, gidKnown, neighbors, qpTable, cmTable, step, relations,
              changed>>

NoLink ==
  /\ mode = Off /\ waiting = Off /\ owns = Off /\ seen = Off /\ next = Off
  /\ pending = Off /\ hub = Off /\ outq = Off /\ conn = Off /\ toAgent = Off
  /\ toHub = Off /\ agent = Off /\ tasks = Off /\ linkSessions = Off /\ helper = Off
  /\ nextSession = Off
NoRdma ==
  /\ peer = Off /\ cm = Off /\ gidKnown = Off /\ neighbors = Off /\ qpTable = Off
  /\ cmTable = Off /\ step = Off /\ relations = Off /\ changed = Off

\* Two RDMA devices on one host, a third on another; numbers repeat.
MCQps == {<<1, 1>>, <<1, 2>>, <<2, 1>>, <<2, 2>>, <<3, 2>>}
MCHostOf == (1 :> 1) @@ (2 :> 1) @@ (3 :> 2)
MCMovable == {{<<1, 2>>, <<2, 1>>}, {<<1, 2>>, <<3, 2>>}}
MCLayer == (1 :> "ib") @@ (2 :> "ether") @@ (3 :> "ib")
MCGidIndex == (1 :> 0) @@ (2 :> 1) @@ (3 :> 0)

\* Either all the port addresses are readable or only the second device's.
RdmaInit ==
  /\ Rdma!Init
  /\ gidKnown \in {{2}, Rdma!Devices} /\ neighbors = Rdma!Devices
  /\ \A q \in Qps : cm[q] = "bare" => q = <<1, 2>>
  /\ \A q \in Qps : q # <<1, 1>> /\ cm[q] = "none" /\ peer[q] # None => peer[q] = <<3, 2>>

\* The second host's scan follows the first's: they share nothing.  At most one
\* queue pair dump fails, and none when a connection changes meanwhile.
FailedDumps ==
  {d \in Rdma!Devices :
    /\ qpTable[d] = None
    /\ step[HostOf[d]] > 2 * Cardinality({e \in Rdma!DevicesOf(HostOf[d]) : e < d})}
Reduced ==
  which = "rdma" =>
    /\ (step[2] = 0 /\ relations[2] = None) \/ relations[1] # None
    /\ Cardinality(FailedDumps) <= (IF changed = {} THEN 1 ELSE 0)

MCInit ==
  /\ Init
  /\ \/ which = "delivery" /\ NoLink /\ NoRdma
     \/ which = "link" /\ Link!Init /\ NoRdma
     \/ which = "rdma" /\ RdmaInit /\ NoLink

MCNext ==
  /\ UNCHANGED which
  /\ \/ which = "delivery" /\ Next /\ UNCHANGED <<linkVars, rdmaVars>>
     \/ which = "link" /\ Link!Next /\ UNCHANGED <<vars, rdmaVars>>
     \/ which = "rdma" /\ Rdma!Next /\ UNCHANGED <<vars, linkVars>>

MCSpec == MCInit /\ [][MCNext]_<<which, vars, linkVars, rdmaVars>>

\* The callers of a link are interchangeable.
Symmetry == Permutations(Callers)

-----------------------------------------------------------------------------
(* Properties                                                              *)

\* The link of an agent: a caller sees replies and events of its own requests and
\* sessions only, and the agent's own viewers are never closed by the hub.
LinkKeepsApart == which = "link" => Link!LinkKeepsApart

\* Each request the hub has pending is still on its way or has its response on the
\* way back, and the agent has on record every session it opened for a link that
\* stands, so that it can close it (hosts/link.rs, hosts/connector.rs).
LinkRecords == which = "link" => Link!LinkRecords

\* build_rdma_relations and rdma_links: a queue pair is in one relation and at most
\* one link, and what is joined is connected, although queue pair numbers repeat and
\* connections come and go between the dumps of the tables.
QueuePairsRelated == which = "rdma" => Rdma!QueuePairsRelated
=============================================================================
