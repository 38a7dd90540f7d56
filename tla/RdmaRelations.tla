---------------------------- MODULE RdmaRelations ----------------------------
(***************************************************************************)
(* RDMA queue pairs: each host dumps its devices' queue pairs and          *)
(* connection manager (CM) IDs one table at a time (system/rdma/), pairs   *)
(* the queue pairs connected within it (rdma/relations.rs), and the hub    *)
(* links the unpaired ones of different hosts (hosts/correlate.rs).        *)
(* Queue pair numbers are unique per device only, and connections open and *)
(* close between the dumps.                                                *)
(***************************************************************************)
EXTENDS Naturals, FiniteSets

CONSTANTS
  Qps,             \* existing queue pairs: <<device, number>>, devices numbered
  HostOf,          \* the host of a device
  Layer,           \* link layer of a device's port
  GidIndex,        \* index of the port GID the device's connections use
  QueuePairLimit,  \* 4096: queue pairs kept per snapshot
  Movable,         \* bound: sets of ends whose connection opens or closes meanwhile
  OpenedBy,        \* bound: CM kinds of the connections that open meanwhile
  None

Devices == {q[1] : q \in Qps}
Hosts == {HostOf[d] : d \in Devices}
DevicesOf(h) == {d \in Devices : HostOf[d] = h}
\* What the CM tells of a queue pair: no ID, an ID without addresses, IP or IB ones.
CmKinds == {"none", "bare", "ip", "ib"}

VARIABLES
  peer,       \* the fabric's connections
  cm,         \* kind of the CM ID bound to each queue pair
  gidKnown,   \* devices whose port's first GID is readable in sysfs
  neighbors,  \* devices whose GID the IPoIB neighbors give for their address
  qpTable,    \* what each device's queue pair dump returned; None: failed or not yet read
  cmTable,    \* what its CM ID dump returned
  step,       \* dumps each host has made
  relations,  \* each host's relations; None: no snapshot yet
  changed     \* queue pairs connected or disconnected during the scans

vars == <<peer, cm, gidKnown, neighbors, qpTable, cmTable, step, relations, changed>>

-----------------------------------------------------------------------------
(* The fabric                                                              *)

Before(p, q) == p[1] < q[1] \/ (p[1] = q[1] /\ p[2] < q[2])
Pairing(f) == \A q \in Qps : f[q] # None => f[q] # q /\ f[f[q]] = q
SameFamily(f, c) ==
  \A q \in Qps : f[q] # None => {c[q], c[f[q]]} # {"ip", "ib"}

\* A connection is made, with the CM or without.
Connect(p, q) ==
  /\ changed = {} /\ {p, q} \in Movable
  /\ Before(p, q) /\ peer[p] = None /\ peer[q] = None
  /\ \E kp \in OpenedBy, kq \in OpenedBy :
       /\ {kp, kq} # {"ip", "ib"}
       /\ cm' = [cm EXCEPT ![p] = kp, ![q] = kq]
  /\ peer' = [peer EXCEPT ![p] = q, ![q] = p]
  /\ changed' = changed \union {p, q}
  /\ UNCHANGED <<gidKnown, neighbors, qpTable, cmTable, step, relations>>

Disconnect(p) ==
  /\ changed = {}
  /\ peer[p] # None /\ {p, peer[p]} \in Movable /\ Before(p, peer[p])
  /\ peer' = [peer EXCEPT ![p] = None, ![peer[p]] = None]
  /\ cm' = [cm EXCEPT ![p] = "none", ![peer[p]] = "none"]
  /\ changed' = changed \union {p, peer[p]}
  /\ UNCHANGED <<gidKnown, neighbors, qpTable, cmTable, step, relations>>

-----------------------------------------------------------------------------
(* One host's observation: a queue pair dump and a CM dump per device      *)

\* parse_queue_pair: a zero destination, of an unconnected queue pair, is none.
ParseQueuePair(q) ==
  [qp |-> q, remote |-> IF peer[q] = None THEN None ELSE peer[q][2]]

\* Addresses of a connection's ends: the client's port is its own, the other end
\* shows the port it listens on.
Address(q, at) == IF Before(at, q) THEN <<at[1], at[2]>> ELSE <<at[1], 0>>
\* parse_cm_id with RdmaAddress::decode: an unassigned family is no address.
ParseCmId(q) ==
  [kind |-> cm[q],
   source |-> IF cm[q] = "bare" THEN None ELSE Address(peer[q], q),
   destination |-> IF cm[q] = "bare" THEN None ELSE Address(q, peer[q])]

Dumping(h, d) ==
  /\ d \in DevicesOf(h) /\ relations[h] = None
  /\ step[h] \div 2 = Cardinality({e \in DevicesOf(h) : e < d})

Kept(h) == Cardinality(UNION {IF qpTable[e] = None THEN {} ELSE qpTable[e] : e \in DevicesOf(h)})

\* read_resources, queue pairs of one device; those above the limit are dropped.
DumpQueuePairs(h, d) ==
  /\ Dumping(h, d) /\ step[h] % 2 = 0
  /\ LET found == {q \in Qps : q[1] = d}
         fit == {q \in found :
                   Kept(h) + Cardinality({p \in found : Before(p, q)}) < QueuePairLimit}
     IN qpTable' = [qpTable EXCEPT ![d] = {ParseQueuePair(q) : q \in fit}]
  /\ step' = [step EXCEPT ![h] = @ + 1]
  /\ UNCHANGED <<peer, cm, gidKnown, neighbors, cmTable, relations, changed>>

\* read_resources, CM IDs of one device, under the queue pair they are bound to.
DumpCmIds(h, d) ==
  /\ Dumping(h, d) /\ step[h] % 2 = 1
  /\ cmTable' = [cmTable EXCEPT ![d] =
       [q \in {p \in Qps : p[1] = d /\ peer[p] # None /\ cm[p] # "none"} |-> ParseCmId(q)]]
  /\ step' = [step EXCEPT ![h] = @ + 1]
  /\ UNCHANGED <<peer, cm, gidKnown, neighbors, qpTable, relations, changed>>

\* A dump of one device fails, or its driver does not implement it.
DumpFails(h, d) ==
  /\ Dumping(h, d)
  /\ step' = [step EXCEPT ![h] = @ + 1]
  /\ UNCHANGED <<peer, cm, gidKnown, neighbors, qpTable, cmTable, relations, changed>>

\* The socket cannot be opened, or the deadline ends the scan: no queue pairs.
ScanFails(h) ==
  /\ relations[h] = None
  /\ relations' = [relations EXCEPT ![h] = {}]
  /\ UNCHANGED <<peer, cm, gidKnown, neighbors, qpTable, cmTable, step, changed>>

-----------------------------------------------------------------------------
(* build_rdma_relations                                                    *)

EntriesOf(h) == UNION {IF qpTable[d] = None THEN {} ELSE qpTable[d] : d \in DevicesOf(h)}
CmOf(q) == IF q \in DOMAIN cmTable[q[1]] THEN cmTable[q[1]][q] ELSE None
\* read_rdma_ports: the GID at index 0 of the port.
PortGid(q) == IF q[1] \in gidKnown THEN <<q[1], 0>> ELSE None
UsedGid(d) == <<d, GidIndex[d]>>
\* ipoib_gids: a neighbor not resolved, or seen with two GIDs, gives none.
NeighborGid(d) == IF d \in neighbors THEN UsedGid(d) ELSE None
\* The GID of an IB destination, or the IPoIB neighbor of an IP one.
RemoteGid(q) ==
  LET c == CmOf(q) IN
  CASE c = None -> None
    [] c # None /\ c.kind = "ib" -> UsedGid(c.destination[1])
    [] c # None /\ c.kind = "ip" -> NeighborGid(c.destination[1])
    [] OTHER -> None

Endpoint(e) == [qp |-> e.qp, remote |-> e.remote, cm |-> CmOf(e.qp),
                gid |-> RemoteGid(e.qp), port |-> PortGid(e.qp)]

\* Each comparison of addresses that both ends allow: TRUE or FALSE.
GidMatch(a, b) == IF a.gid = None \/ b.port = None THEN {} ELSE {a.gid = b.port}
CmMatch(a, b) ==
  IF a.cm = None \/ b.cm = None THEN {}
  ELSE IF a.cm.kind = "bare" \/ b.cm.kind = "bare" THEN {}
  ELSE {a.cm.source = b.cm.destination /\ a.cm.destination = b.cm.source}
Evidence(a, b) == GidMatch(a, b) \union GidMatch(b, a) \union CmMatch(a, b)

MutantSameConnection(a, b) == a.qp[1] = b.qp[1] \/ TRUE \in Evidence(a, b)

\* same_connection: contradiction rejects, and another device needs evidence.
SameConnection(a, b) ==
  /\ FALSE \notin Evidence(a, b)
  /\ a.qp[1] = b.qp[1] \/ TRUE \in Evidence(a, b)

Swapped(a, b) == a.remote = b.qp[2] /\ b.remote = a.qp[2]
Matches(endpoints, a) ==
  {b \in endpoints \ {a} : a.remote # None /\ Swapped(a, b) /\ SameConnection(a, b)}
Only(S) == CHOOSE x \in S : TRUE
PeerOf(endpoints, a) ==
  IF Cardinality(Matches(endpoints, a)) = 1 THEN Only(Matches(endpoints, a)) ELSE None

MutualPeer(endpoints, a) ==
  LET b == PeerOf(endpoints, a)
  IN IF b # None /\ PeerOf(endpoints, b) = a THEN b ELSE None

\* A relation has the smaller end first; its remote fields are that end's.
Relation(a, b) ==
  IF b = None THEN [first |-> a, second |-> None]
  ELSE IF Before(b.qp, a.qp) THEN [first |-> b, second |-> a.qp]
  ELSE [first |-> a, second |-> b.qp]

BuildRdmaRelations(h) ==
  LET endpoints == {Endpoint(e) : e \in EntriesOf(h)}
  IN {Relation(a, MutualPeer(endpoints, a)) : a \in endpoints}

\* collect_rdma_observation, once every device is dumped. A failed neighbor dump
\* costs the remote GIDs.
Build(h) ==
  /\ relations[h] = None /\ step[h] = 2 * Cardinality(DevicesOf(h))
  /\ relations' = [relations EXCEPT ![h] = BuildRdmaRelations(h)]
  /\ UNCHANGED <<peer, cm, gidKnown, neighbors, qpTable, cmTable, step, changed>>

NeighborsUnavailable(h) ==
  /\ relations[h] = None /\ step[h] = 2 * Cardinality(DevicesOf(h))
  /\ neighbors # {}
  /\ neighbors' = {}
  /\ UNCHANGED <<peer, cm, gidKnown, qpTable, cmTable, step, relations, changed>>

-----------------------------------------------------------------------------
(* rdma_links of the hosts with a snapshot                                 *)

\* Connected queue pairs without a peer on their host.
Unpaired ==
  {r.first : r \in UNION {{x \in relations[h] : x.second = None /\ x.first.remote # None} :
                          h \in {g \in Hosts : relations[g] # None}}}
HostOfEnd(a) == HostOf[a.qp[1]]

Candidates(a) ==
  {b \in Unpaired : /\ HostOfEnd(b) # HostOfEnd(a) /\ Swapped(a, b)
                    /\ FALSE \notin Evidence(a, b)}

\* Unique both ways; without an address on one link layer only.
Links ==
  {l \in Unpaired \X Unpaired :
     /\ Candidates(l[1]) = {l[2]} /\ Candidates(l[2]) = {l[1]}
     /\ HostOfEnd(l[1]) < HostOfEnd(l[2])
     /\ TRUE \in Evidence(l[1], l[2]) \/ Layer[l[1].qp[1]] = Layer[l[2].qp[1]]}

-----------------------------------------------------------------------------
Init ==
  /\ peer \in {f \in [Qps -> Qps \union {None}] : Pairing(f)}
  /\ cm \in {c \in [Qps -> CmKinds] :
               SameFamily(peer, c) /\ \A q \in Qps : peer[q] = None => c[q] = "none"}
  /\ gidKnown \in SUBSET Devices
  /\ neighbors \in SUBSET Devices
  /\ qpTable = [d \in Devices |-> None]
  /\ cmTable = [d \in Devices |-> <<>>]
  /\ step = [h \in Hosts |-> 0]
  /\ relations = [h \in Hosts |-> None]
  /\ changed = {}

Next ==
  \/ \E p \in Qps, q \in Qps : Connect(p, q)
  \/ \E p \in Qps : Disconnect(p)
  \/ \E h \in Hosts, d \in Devices :
       DumpQueuePairs(h, d) \/ DumpCmIds(h, d) \/ DumpFails(h, d)
  \/ \E h \in Hosts : ScanFails(h) \/ NeighborsUnavailable(h) \/ Build(h)

Spec == Init /\ [][Next]_vars

-----------------------------------------------------------------------------
(* Properties                                                              *)

Ends(r) == {r.first.qp} \union (IF r.second = None THEN {} ELSE {r.second})

\* Every queue pair a host has dumped is an end of exactly one of its relations.
EntriesInOne ==
  \A h \in Hosts : relations[h] \notin {None, {}} =>
    \A e \in EntriesOf(h) : Cardinality({r \in relations[h] : e.qp \in Ends(r)}) = 1

\* It is an end of at most one link between hosts too, although several queue
\* pairs may claim the same peer.
InOneRelation ==
  /\ EntriesInOne
  /\ \A k \in Links, l \in Links : k # l => {k[1], k[2]} \intersect {l[1], l[2]} = {}

Addressed(p, q) ==
  /\ p \notin changed /\ q \notin changed
  /\ CmOf(p) # None /\ CmOf(q) # None
  /\ CmOf(p).kind # "bare" /\ CmOf(q).kind # "bare"

\* Two queue pairs of a host that kept their connections during the scan, on two
\* devices or with known addresses, are shown as a pair only if they are connected
\* to each other: equal numbers on another device or host do not make a peer.
PairsConnected ==
  \A h \in Hosts : relations[h] # None =>
    \A r \in relations[h] :
      LET p == r.first.qp q == r.second IN
      r.second # None /\ {p, q} \intersect changed = {} /\ (p[1] # q[1] \/ Addressed(p, q))
        => peer[p] = q

\* The same across hosts: a link never joins ends whose addresses name others.
LinksConnected ==
  \A l \in Links : LET p == l[1].qp q == l[2].qp IN
    Addressed(p, q) => peer[p] = q

\* All three: no queue pair is shown twice, and none with a peer that is not its own.
QueuePairsRelated == InOneRelation /\ PairsConnected /\ LinksConnected
=============================================================================
