------------------------------ MODULE MCScans -------------------------------
(* The acquisitions of the helper that read a system that changes under     *)
(* them, for TLC: `which` says which of them a behaviour is about, and the  *)
(* variables of the others stay Off.                                        *)
EXTENDS SystemScan, TLC

CONSTANTS
  Target, EntryLimit, MatchLimit, DescriptorPeers, MaxChanges,
  NDevices, MaxPackets, ReplyLimit, Faults,
  Off

VARIABLES
  which,
  \* DescriptorScan, which shares the names of SystemScan, and NetlinkDump
  entries, table, scanned, found, matches, shown,
  packets, ending, sock, running, k, replies, total, outcome, failed

Fd == INSTANCE DescriptorScan WITH PeerLimit <- DescriptorPeers
Netlink == INSTANCE NetlinkDump WITH result <- outcome

\* The variables of one component alone, by the components that share the others.
scanOnly   == <<start, file, link, late, todo, metadata, owners, warnings, changes, held>>
systemOnly == <<ns, home, cur, processes, infos, seenNs, pinned, inspected, truncated, left,
                relations, unreadable>>
fdOnly     == <<entries, table, scanned, found, matches, shown>>
dumpOnly   == <<packets, ending, sock, running, k, replies, total, outcome, failed>>
allVars == <<which, scanOnly, systemOnly, fdOnly, dumpOnly, phase>>

NoScan ==
  /\ start = Off /\ file = Off /\ link = Off /\ late = Off /\ todo = Off /\ metadata = Off
  /\ owners = Off /\ warnings = Off /\ changes = Off /\ held = Off
NoSystem ==
  /\ ns = Off /\ home = Off /\ cur = Off /\ processes = Off /\ infos = Off /\ seenNs = Off
  /\ pinned = Off /\ inspected = Off /\ truncated = Off /\ left = Off /\ relations = Off
  /\ unreadable = Off
NoFds ==
  /\ entries = Off /\ table = Off /\ scanned = Off /\ found = Off /\ matches = Off /\ shown = Off
NoDump ==
  /\ packets = Off /\ ending = Off /\ sock = Off /\ running = Off /\ k = Off /\ replies = Off
  /\ total = Off /\ outcome = Off /\ failed = Off

\* Both processes have the first descriptor open, the first process not as a
\* pipe's writer, and the second one starts with more only when all are pipes.
\* UNIX sockets, and the sockets of processes of one namespace, are in it.
SystemInit ==
  /\ Init
  /\ \A p \in Pids : file[p][1] # None
  /\ file[1][1].access # "w"
  /\ ns[1] = ns[2] => \A s \in Sockets : home[s] = ns[1]
  /\ file[2][2] # None =>
       \A p \in Pids, d \in Fds : file[p][d] # None /\ file[p][d].key \in Pipes
  /\ link = "unix" => \A p \in Pids, s \in Sockets : ns[p] = ns[1] /\ home[s] = ns[1]

\* The other process starts with one descriptor at most; it may open more.
DescriptorsInit ==
  /\ Fd!Init
  /\ file[Target][2] # None => file[Target][1] # None
  /\ \A p \in Pids \ {Target}, d \in Fds : d # 1 => file[p][d] = None

\* The tables of the second RDMA device are one packet long and end well.
NetlinkInit == Netlink!Init /\ \A j \in {4, 5} : packets[j] = 1 /\ ending[j] = "done"

\* A scan of one process meets a change or its deadline, not both.
Reduced == which = "descriptors" => ~(late /\ changes > 0)

MCInit ==
  \/ which = "system" /\ SystemInit /\ NoFds /\ NoDump
  \/ which = "descriptors" /\ DescriptorsInit /\ NoSystem /\ NoDump
  \/ which = "netlink" /\ NetlinkInit /\ NoScan /\ NoSystem /\ NoFds

MCNext ==
  /\ UNCHANGED which
  /\ \/ which = "system" /\ Next /\ UNCHANGED <<fdOnly, dumpOnly>>
     \/ which = "descriptors" /\ Fd!Next
        /\ UNCHANGED <<systemOnly, dumpOnly>>
     \/ which = "netlink" /\ Netlink!Next
        /\ UNCHANGED <<scanOnly, systemOnly, fdOnly>>

MCSpec == MCInit /\ [][MCNext]_allVars

\* Sockets are interchangeable, and so are network namespaces.
Swap == Permutations(Sockets) \cup Permutations(Namespaces)

-----------------------------------------------------------------------------
(* Properties                                                              *)

\* Every relation of the system snapshot is between processes that held the two ends
\* while it was taken, and a guess by addresses stays within one network namespace
\* (system/snapshot.rs, analysis/relations.rs).
RelationsOfSystem == which = "system" => RelationsHeld /\ CandidatesSameNamespace

\* A snapshot of a system at rest without a warning misses no relation: every limit,
\* refusal and deadline that cuts it short leaves a warning.
SystemCompleteOrWarned == which = "system" => CompleteOrWarned

\* The descriptors shown for a process, and the peers shown for them, were held under
\* these numbers while the scan ran; what is said of a socket was asked of that
\* socket (process/fds.rs, socket_metadata.rs).
DescriptorsAsHeld == which = "descriptors" => Fd!DescriptorsAsHeld

\* A list of descriptors of a system at rest without a warning or a note is complete.
DescriptorsCompleteOrWarned == which = "descriptors" => Fd!DescriptorsCompleteOrWarned

\* A table dumped over netlink is whole and its own, whatever an earlier dump that
\* failed left on the socket (netlink.rs, rdma/nldev.rs).
DumpsWhole == which = "netlink" => Netlink!DumpsWhole
=============================================================================
