---------------------------- MODULE HardwareView -----------------------------
(***************************************************************************)
(* The hardware of a system snapshot: the helper reads sysfs attributes    *)
(* one PCI device after the other while devices may be unplugged           *)
(* (system/hardware_capture.rs), then lists the descriptors of processes;  *)
(* the server builds the tree of bridges and devices, the paths between    *)
(* devices and the handles of processes (analysis/hardware/).              *)
(***************************************************************************)
EXTENDS Integers, Sequences, FiniteSets

CONSTANTS
  Bridges,    \* host bridges, numbered below the functions
  Functions,  \* PCI functions, numbered; a parent has the smaller number
  Processes,
  MaxBytes    \* 16 MiB: records the acquisition may hold

Nodes == Bridges \union Functions

VARIABLES
  parent,     \* the tree above each function
  interest,   \* GPUs, RDMA NICs, accelerators and NVSwitches
  numa,       \* NUMA node of each host bridge's devices; 0: none reported
  present,    \* functions now plugged in
  opened,     \* processes to the device each has a descriptor of
  alive,      \* processes running
  todo,       \* functions the acquisition has still to visit
  climbing,   \* nodes whose attributes it reads next
  links,      \* functions whose sysfs path was recorded
  texts,      \* nodes whose attributes were recorded
  truncated,  \* the size limit was reached
  raw,        \* descriptors listed: pairs of process and device
  live,       \* processes of the snapshot
  phase,      \* names, devices, descriptors, observed
  view        \* what the server shows: nodes, paths, handles

vars == <<parent, interest, numa, present, opened, alive, todo, climbing, links, texts,
          truncated, raw, live, phase, view>>
world == <<parent, interest, numa, opened>>

\* The sysfs path of a function, from its host bridge.
Chain == LET above[n \in Nodes] ==
               IF n \in Bridges THEN <<n>> ELSE Append(above[parent[n]], n)
         IN above
Bus(n) == Chain[n][1]
SeqRange(s) == {s[i] : i \in DOMAIN s}
Least(S) == CHOOSE x \in S : \A y \in S : x <= y

-----------------------------------------------------------------------------
(* The world                                                               *)

\* A device is removed, with all that is below it. Bound: once.
Unplug(f) ==
  /\ present = Functions /\ phase \in {"names", "devices"}
  /\ present' = {g \in present : f \notin SeqRange(Chain[g])}
  /\ UNCHANGED <<world, alive, todo, climbing, links, texts, truncated, raw, live, phase, view>>

Exits(p) ==
  /\ p \in alive /\ phase = "descriptors"
  /\ alive' = alive \ {p}
  /\ UNCHANGED <<world, present, todo, climbing, links, texts, truncated, raw, live, phase, view>>

-----------------------------------------------------------------------------
(* collect_hardware_files                                                  *)

\* Room for one more record.
Reserve == Cardinality(links) + Cardinality(texts) < MaxBytes

ReadNames ==
  /\ phase = "names"
  /\ todo' = present /\ phase' = "devices"
  /\ UNCHANGED <<world, present, alive, climbing, links, texts, truncated, raw, live, view>>

\* The path of the next device; one that is gone has none.
ReadLink ==
  /\ phase = "devices" /\ climbing = <<>> /\ todo # {} /\ ~truncated
  /\ LET f == Least(todo) IN
     /\ todo' = todo \ {f}
     /\ IF f \notin present THEN UNCHANGED <<climbing, links, truncated>>
        ELSE IF ~Reserve THEN truncated' = TRUE /\ UNCHANGED <<climbing, links>>
        ELSE /\ links' = links \union {f}
             /\ climbing' = Chain[f]
             /\ UNCHANGED truncated
  /\ UNCHANGED <<world, present, alive, texts, raw, live, phase, view>>

\* HardwareReader::node for one node, from the device up; each is read once.
ReadNode ==
  /\ phase = "devices" /\ climbing # <<>> /\ ~truncated
  /\ LET n == climbing[Len(climbing)] IN
     /\ climbing' = SubSeq(climbing, 1, Len(climbing) - 1)
     /\ IF n \in texts \/ n \notin Bridges \union present THEN UNCHANGED <<texts, truncated>>
        ELSE IF ~Reserve THEN truncated' = TRUE /\ UNCHANGED texts
        ELSE texts' = texts \union {n} /\ UNCHANGED truncated
  /\ UNCHANGED <<world, present, alive, todo, links, raw, live, phase, view>>

Acquired ==
  /\ phase = "devices" /\ (truncated \/ (climbing = <<>> /\ todo = {}))
  /\ phase' = "descriptors" /\ todo' = Processes
  /\ UNCHANGED <<world, present, alive, climbing, links, texts, truncated, raw, live, view>>

\* Descriptors of the next process, recorded before it is known to have stayed.
ListDescriptors ==
  /\ phase = "descriptors" /\ todo # {}
  /\ LET p == Least(todo) IN
     /\ raw' = IF p \in alive THEN raw \union {<<p, opened[p]>>} ELSE raw
     /\ todo' = todo \ {p}
     /\ climbing' = <<p>>
  /\ UNCHANGED <<world, present, alive, links, texts, truncated, live, phase, view>>

StillThere ==
  /\ phase = "descriptors" /\ climbing # <<>>
  /\ live' = IF climbing[1] \in alive THEN live \union {climbing[1]} ELSE live
  /\ climbing' = <<>>
  /\ UNCHANGED <<world, present, alive, todo, links, texts, truncated, raw, phase, view>>

-----------------------------------------------------------------------------
(* read_topology                                                           *)

\* classify_pci_device, from the class that was read.
Kind(f) == f \in interest /\ f \in texts
Chains == {f \in links : Kind(f)}

MutantEndpoint(n, chains) == n \in chains /\ \A f \in chains \ {n} : n \notin SeqRange(Chain[f])

\* A bridge that is itself of interest becomes a device, in whichever order it and
\* the devices below it come.
Endpoint(n, chains) == n \in chains

\* build_pci_node
Role(n, chains) ==
  IF n \in Bridges THEN "HostBridge"
  ELSE IF Endpoint(n, chains) THEN "Endpoint"
  ELSE IF parent[n] \in Bridges THEN "RootPort" ELSE "SwitchPort"

\* The bridges above a device are named by its path, read or not.
TopologyNodes(chains) == {n \in Nodes : \E f \in chains : n \in SeqRange(Chain[f])}

-----------------------------------------------------------------------------
(* build_hardware_paths                                                    *)

CommonLength(ca, cb) ==
  LET same == {k \in 0..Len(ca) : k <= Len(cb) /\ SubSeq(ca, 1, k) = SubSeq(cb, 1, k)}
  IN CHOOSE k \in same : \A j \in same : j <= k
Reversed(s) == [i \in 1..Len(s) |-> s[Len(s) + 1 - i]]
Max1(k) == IF k = 0 THEN 1 ELSE k

\* A switch is an upstream port and its downstream ports.
SwitchOf(n, chains) ==
  IF parent[n] \in Functions /\ Role(parent[n], chains) = "SwitchPort" THEN parent[n] ELSE n

NumaOf(n) == IF n \in texts THEN numa[Bus(n)] ELSE 0

\* From a's parent up to the common ancestor, or to a's host bridge, and down again.
Via(ca, cb) ==
  LET common == CommonLength(ca, cb)
  IN Reversed(SubSeq(ca, Max1(common), Len(ca) - 1)) \o SubSeq(cb, common + 1, Len(cb) - 1)

PathClass(a, b, chains) ==
  LET common == CommonLength(Chain[a], Chain[b])
      switches == {SwitchOf(n, chains) : n \in {m \in SeqRange(Via(Chain[a], Chain[b])) :
                                                  Role(m, chains) = "SwitchPort"}}
  IN CASE common = 0 /\ NumaOf(a) # 0 /\ NumaOf(a) = NumaOf(b) -> "Node"
       [] common = 0 /\ ~(NumaOf(a) # 0 /\ NumaOf(a) = NumaOf(b)) -> "Sys"
       [] common > 0 /\ Chain[a][Max1(common)] \in Bridges -> "Phb"
       [] OTHER -> IF Cardinality(switches) <= 1 THEN "Pix" ELSE "Pxb"

Path(a, b, chains) ==
  [a |-> a, b |-> b, via |-> Via(Chain[a], Chain[b]), class |-> PathClass(a, b, chains)]

-----------------------------------------------------------------------------
(* DeviceHandleCollector and the snapshot                                  *)

\* Descriptors of known devices, of processes that the snapshot has.
Handles(nodes) == {h \in raw : h[2] \in nodes /\ h[1] \in live}

Observe ==
  /\ phase = "descriptors" /\ todo = {} /\ climbing = <<>>
  /\ LET chains == Chains nodes == TopologyNodes(chains) IN
     view' = [nodes |-> [n \in nodes |-> Role(n, chains)],
              paths |-> {Path(q[1], q[2], chains) : q \in
                           {p \in nodes \X nodes : /\ p[1] < p[2]
                                                   /\ Role(p[1], chains) = "Endpoint"
                                                   /\ Role(p[2], chains) = "Endpoint"}},
              handles |-> Handles(nodes)]
  /\ phase' = "observed"
  /\ UNCHANGED <<world, present, alive, todo, climbing, links, texts, truncated, raw, live>>

-----------------------------------------------------------------------------
Init ==
  /\ parent \in {f \in [Functions -> Nodes] : \A n \in Functions : f[n] < n}
  /\ interest \in SUBSET Functions
  /\ numa \in [Bridges -> 0..2]
  /\ present = Functions
  /\ opened \in [Processes -> Functions]
  /\ alive = Processes
  /\ todo = {} /\ climbing = <<>> /\ links = {} /\ texts = {} /\ truncated = FALSE
  /\ raw = {} /\ live = {}
  /\ phase = "names"
  /\ view = [nodes |-> <<>>, paths |-> {}, handles |-> {}]

Next ==
  \/ \E f \in Functions : Unplug(f)
  \/ \E p \in Processes : Exits(p)
  \/ ReadNames \/ ReadLink \/ ReadNode \/ Acquired
  \/ ListDescriptors \/ StillThere \/ Observe

Spec == Init /\ [][Next]_vars

-----------------------------------------------------------------------------
(* Properties                                                              *)

\* The tree shown is closed: the parent of every function is shown, handles name
\* devices and processes of the same snapshot, although devices are unplugged and
\* processes end while they are read one after the other.
ViewClosed ==
  phase = "observed" =>
    /\ \A n \in DOMAIN view.nodes \ Bridges : parent[n] \in DOMAIN view.nodes
    /\ \A h \in view.handles : h[1] \in live /\ h[2] \in DOMAIN view.nodes

\* A device of interest that stayed plugged in is shown as a device, or the
\* snapshot says that its size limit was reached.
DevicesShown ==
  phase = "observed" =>
    truncated \/ \A f \in present \cap interest :
                   f \in DOMAIN view.nodes /\ view.nodes[f] = "Endpoint"

Adjacent(m, n) == (m \in Functions /\ parent[m] = n) \/ (n \in Functions /\ parent[n] = m)

\* The path visits nothing twice, goes along the links of the tree but from one host
\* bridge to the other, and its class tells how many host bridges it crosses.
AlongTree(p) ==
  LET walk == <<p.a>> \o p.via \o <<p.b>>
      bridges == {i \in DOMAIN walk : walk[i] \in Bridges}
  IN /\ Cardinality(SeqRange(walk)) = Len(walk)
     /\ \A i \in 1..(Len(walk) - 1) :
          Adjacent(walk[i], walk[i + 1]) \/ {i, i + 1} \subseteq bridges
     /\ Cardinality(bridges) = (CASE p.class \in {"Pix", "Pxb"} -> 0
                                  [] p.class = "Phb" -> 1
                                  [] OTHER -> 2)

\* A path leads from one device to the other along the links of the tree, crosses
\* host bridges only where it must, and visits nothing twice; its class tells how.
PathsOfTree == \A p \in view.paths : AlongTree(p)
=============================================================================
