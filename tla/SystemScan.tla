----------------------------- MODULE SystemScan -----------------------------
(***************************************************************************)
(* The structure of the system as the SPACE page gets it: the helper's     *)
(* scan of all processes (system/snapshot.rs), which reads /proc in many   *)
(* steps while the system changes, and the relations the server builds     *)
(* from it (analysis/relations.rs).  The sockets are two, connected with   *)
(* each other when they share a network namespace, next to pipes; memory   *)
(* maps, names, addresses beyond equality and labels are left out.         *)
(***************************************************************************)
EXTENDS Naturals, FiniteSets, Sequences, SequencesExt

CONSTANTS
  Pids, Fds,
  Sockets, Pipes,
  Namespaces,
  FdLimit,        \* 100 000: descriptors inspected
  PeerLimit,      \* 64: relations of one endpoint
  RelationLimit,  \* 20 000: relations at which building stops
  MaxStart,       \* bound on the processes that use a pid
  MaxEvents,      \* bound on changes, deadline and refused listings of a scan
  None

VARIABLES
  start, file,   \* the process behind each pid, and its descriptors
  ns, home,      \* the network namespace of a pid, and of a socket
  link,          \* whether the sockets are UNIX or TCP
  phase,         \* idle, scan, diag, relate, done
  late,          \* the deadline of eight seconds has passed
  todo,          \* processes still to be scanned
  cur,           \* the one being scanned: what is left and what was read
  processes,     \* processes of the snapshot
  owners,        \* raw_owners: coalesced endpoints
  infos,         \* raw_sockets with raw_namespaces, by inode
  seenNs, pinned, \* namespaces whose tables were tried, and opened ones
  metadata,      \* sockets that were asked directly
  inspected,     \* inspected_fds
  truncated, warnings,
  left,          \* resources whose relations are not built yet
  relations,
  changes, held, unreadable  \* ghosts: what happened during the scan

world == <<start, file, ns, home, link>>
scan == <<todo, cur, inspected, seenNs, pinned>>
result == <<processes, owners, infos, metadata, truncated, warnings>>
vars == <<world, phase, late, scan, result, left, relations, changes, held, unreadable>>

Files == {[key |-> s, access |-> "rw"] : s \in Sockets}
         \cup {[key |-> p, access |-> a] : p \in Pipes, a \in {"r", "w"}}
Id(pid) == [pid |-> pid, start |-> start[pid]]
PeerOf(s) == CHOOSE t \in Sockets : t # s

\* The sockets a namespace's tables list, as long as someone holds them.
Alive(n) ==
  {s \in Sockets : home[s] = n /\ \E p \in Pids, d \in Fds : file[p][d] # None /\ file[p][d].key = s}

Holding(starts, files) ==
  {[id |-> [pid |-> x[1], start |-> starts[x[1]]], key |-> files[x[1]][x[2]].key, fd |-> x[2]] :
     x \in {y \in Pids \X Fds : files[y[1]][y[2]] # None}}

-----------------------------------------------------------------------------
(* The system                                                              *)

Disturbable ==
  /\ phase = "scan"
  /\ changes + Cardinality({TRUE} \cap {late, "denied" \in warnings}) < MaxEvents

Changed(starts, files) ==
  /\ Disturbable
  /\ start' = starts /\ file' = files /\ changes' = changes + 1
  /\ held' = held \cup Holding(starts, files)
  /\ UNCHANGED <<ns, home, link, phase, late, scan, result, left, relations, unreadable>>

ChangeFile(pid, fd, f) == f # file[pid][fd] /\ Changed(start, [file EXCEPT ![pid][fd] = f])

ReusePid(pid, f) ==
  /\ start[pid] < MaxStart
  /\ Changed([start EXCEPT ![pid] = @ + 1], [file EXCEPT ![pid] = [d \in Fds |-> f]])

DeadlinePasses ==
  /\ Disturbable /\ ~late
  /\ late' = TRUE
  /\ UNCHANGED <<world, phase, scan, result, left, relations, changes, held, unreadable>>

-----------------------------------------------------------------------------
(* The helper: collect_system_snapshot_from_sources                        *)

Valid(id) == start[id.pid] = id.start

\* collect_processes
Begin ==
  /\ phase = "idle"
  /\ phase' = "scan" /\ todo' = {Id(p) : p \in Pids}
  /\ held' = Holding(start, file)
  /\ UNCHANGED <<world, late, cur, inspected, seenNs, pinned, result, left, relations,
                 changes, unreadable>>

NoPeer == [ns |-> None, peer |-> None, local |-> None, remote |-> None]
SocketInfo(s, n) ==
  [ns |-> n, peer |-> None, local |-> IF link = "tcp" THEN s ELSE None,
   remote |-> IF link = "tcp" THEN PeerOf(s) ELSE None]

\* The first process of a namespace gives its tables; a table that cannot be
\* read is passed over.
ReadNamespace(id) ==
  LET n == ns[id.pid]
  IN IF n \in seenNs THEN UNCHANGED <<seenNs, pinned, infos, warnings, unreadable>>
     ELSE /\ seenNs' = seenNs \cup {n}
          /\ IF Valid(id) THEN pinned' = pinned \cup {n} /\ UNCHANGED warnings
                          ELSE warnings' = warnings \cup {"namespace"} /\ UNCHANGED pinned
          /\ \/ /\ infos' = [s \in DOMAIN infos \cup Alive(n) |->
                               IF s \in Alive(n) THEN SocketInfo(s, n) ELSE infos[s]]
                /\ UNCHANGED unreadable
             \/ unreadable' = TRUE /\ UNCHANGED infos

\* The next process.  After the deadline it is listed without being looked at.
\* The kernel may refuse to let its sockets be asked.
OpenProcess(id) ==
  /\ phase = "scan" /\ cur = None /\ id \in todo /\ \A other \in todo : id.pid <= other.pid
  /\ todo' = todo \ {id}
  /\ IF late
       THEN /\ processes' = processes \cup {id} /\ truncated' = TRUE
            /\ UNCHANGED <<cur, seenNs, pinned, infos, warnings, unreadable>>
       ELSE /\ ReadNamespace(id)
            /\ \E allowed \in BOOLEAN :
                 cur' = [id |-> id, left |-> {d \in Fds : file[id.pid][d] # None}, got |-> {},
                         ask |-> allowed]
            /\ UNCHANGED <<processes, truncated>>
  /\ UNCHANGED <<world, phase, late, inspected, owners, metadata, left, relations, changes, held>>

\* The descriptors of a process may not be listed.
AccessDenied ==
  /\ Disturbable /\ cur # None /\ cur.left # {} /\ cur.got = {}
  /\ cur' = [cur EXCEPT !.left = {}]
  /\ warnings' = warnings \cup {"denied"}
  /\ UNCHANGED <<world, phase, late, todo, inspected, seenNs, pinned, processes, owners, infos,
                 metadata, truncated, left, relations, changes, held, unreadable>>

\* One descriptor; the limits end the loop over this process's descriptors.
ReadFd(d) ==
  LET id == cur.id
      f == file[id.pid][d]
  IN /\ phase = "scan" /\ cur # None /\ d \in cur.left /\ \A other \in cur.left : d <= other
     /\ IF late \/ inspected >= FdLimit
          THEN /\ truncated' = TRUE /\ cur' = [cur EXCEPT !.left = {}]
               /\ UNCHANGED <<inspected, metadata>>
          ELSE /\ inspected' = inspected + 1 /\ UNCHANGED truncated
               /\ cur' = [cur EXCEPT !.left = @ \ {d},
                            !.got = @ \cup {[fd |-> d, key |-> g.key, access |-> g.access] :
                                            g \in {f} \ {None}}]
               /\ metadata' = metadata \cup (IF cur.ask /\ Valid(id) /\ f # None
                                                THEN {f.key} \cap Sockets ELSE {})
     /\ UNCHANGED <<world, phase, late, todo, seenNs, pinned, processes, owners, infos, warnings,
                    left, relations, changes, held, unreadable>>

MutantStillThere(id) == TRUE

StillThere(id) == Valid(id)

\* Descriptors of one process for the same file and access become one endpoint
\* with the lowest number.
Coalesced(id, got) ==
  {[id |-> id, key |-> g.key, access |-> g.access, fd |-> g.fd] :
     g \in {x \in got : \A y \in got : y.key = x.key /\ y.access = x.access => x.fd <= y.fd}}

CloseProcess ==
  /\ phase = "scan" /\ cur # None /\ cur.left = {}
  /\ IF StillThere(cur.id)
       THEN /\ owners' = owners \cup Coalesced(cur.id, cur.got)
            /\ processes' = processes \cup {cur.id}
       ELSE UNCHANGED <<owners, processes>>
  /\ cur' = None
  /\ UNCHANGED <<world, phase, late, todo, inspected, seenNs, pinned, infos, metadata, truncated,
                 warnings, left, relations, changes, held, unreadable>>

\* UNIX diagnostics of the namespaces that were opened; some may fail or come
\* too late.  Sockets that were asked directly become known.
Diagnose ==
  /\ phase = "scan" /\ cur = None /\ todo = {}
  /\ \E ok \in SUBSET pinned :
       LET diag == IF link = "unix" THEN UNION {Alive(n) : n \in ok} ELSE {}
           old(s) == IF s \in DOMAIN infos THEN infos[s] ELSE NoPeer
           peer(s) == IF home[s] = home[PeerOf(s)] THEN PeerOf(s) ELSE None
       IN /\ infos' = [s \in DOMAIN infos \cup diag \cup metadata |->
                         IF s \in diag THEN [old(s) EXCEPT !.peer = peer(s)] ELSE old(s)]
          /\ warnings' = warnings \cup (IF ok = pinned THEN {} ELSE {"diag"})
                                  \cup (IF truncated THEN {"truncated"} ELSE {})
  /\ phase' = "relate" /\ left' = {e.key : e \in owners}
  /\ UNCHANGED <<world, late, scan, processes, owners, metadata, truncated, relations,
                 changes, held, unreadable>>

-----------------------------------------------------------------------------
(* The server: build_ipc_relations                                         *)

\* FdAccess::opposite
AccessOpposite(a, b) ==
  {a, b} \in {{"r", "w"}, {"r", "rw"}, {"w", "rw"}, {"rw"}}

Before(x, y) ==
  \/ x.id.pid < y.id.pid
  \/ x.id.pid = y.id.pid /\ x.id.start < y.id.start
  \/ x.id = y.id /\ x.fd < y.fd

Endpoints(key) == {e \in owners : e.key = key}

\* The endpoints in their order: the i-th one has i - 1 before it.
Sorted(S) == [i \in 1..Cardinality(S) |->
                CHOOSE e \in S : Cardinality({x \in S : Before(x, e)}) = i - 1]

\* TCP or UDP with a remote address
Tuple(s) == s \in DOMAIN infos /\ infos[s].remote # None

\* Sockets of the same namespace whose addresses are those of s, reversed.
Reversed(s) ==
  {t \in DOMAIN infos \ {s} : /\ Tuple(s) /\ Tuple(t) /\ infos[t].ns = infos[s].ns
                              /\ infos[t].local = infos[s].remote /\ infos[t].remote = infos[s].local}

IsFirst(e) == \A other \in Endpoints(e.key) \ {e} : Before(e, other)

\* Two owners of a resource that do not talk to each other through it.
Shared(x, y) == x.key \in Sockets \/ ~AccessOpposite(x.access, y.access)

\* The endpoints that share the resource.  Those that do not talk to each other
\* form a group around the first one.
Near(e) ==
  {[peer |-> p, candidate |-> FALSE, shared |-> Shared(e, p)] :
     p \in {q \in Endpoints(e.key) \ {e} : Shared(e, q) => IsFirst(e) \/ IsFirst(q)}}

\* The endpoints at the other end of a socket.
Far(e) ==
  IF e.key \notin Sockets \cap DOMAIN infos THEN {}
  ELSE LET known == infos[e.key].peer # None
           keys == IF known THEN {infos[e.key].peer} ELSE Reversed(e.key)
       IN {[peer |-> p, candidate |-> ~known, shared |-> FALSE] : p \in {q \in owners : q.key \in keys}}

Matches(e) == Near(e) \cup Far(e)

\* Peers first, shared owners after them.
Sooner(m, n) ==
  \/ ~m.shared /\ n.shared
  \/ (m.shared <=> n.shared) /\ Before(m.peer, n.peer)

\* A socket towards the network keeps its destination although it is shared.
External(e) == Matches(e) = {} \/ (Tuple(e.key) /\ \A m \in Matches(e) : m.shared)

MutantTooMany(all, sum) == Cardinality(sum) > RelationLimit

\* What makes the result incomplete.
TooMany(all, sum) == Cardinality(all) > PeerLimit \/ Cardinality(sum) >= RelationLimit

\* The relations of one endpoint; a pair that is there stays as it is.  The loop
\* stops once the limit is reached.
AddEndpoint(out, e) ==
  LET all == Matches(e)
      kept == {m \in all : Cardinality({n \in all : Sooner(n, m)}) < PeerLimit}
      new == {[ends |-> {e, m.peer}, candidate |-> m.candidate, shared |-> m.shared] : m \in kept}
             \cup (IF External(e) THEN {[ends |-> {e}, candidate |-> FALSE, shared |-> FALSE]} ELSE {})
      sum == out.relations \cup {r \in new : \A q \in out.relations : q.ends # r.ends}
  IN IF Cardinality(out.relations) >= RelationLimit THEN out
     ELSE [relations |-> sum, truncated |-> out.truncated \/ TooMany(all, sum)]

\* One resource, in the order of a hash map.
Relate(key) ==
  /\ phase = "relate" /\ key \in left
  /\ LET out == FoldLeft(AddEndpoint, [relations |-> relations, truncated |-> truncated],
                         Sorted(Endpoints(key)))
     IN relations' = out.relations /\ truncated' = out.truncated
  /\ left' = left \ {key}
  /\ UNCHANGED <<world, phase, late, scan, processes, owners, infos, metadata, warnings,
                 changes, held, unreadable>>

\* SocketInfo::connection_status knows of a peer, or the socket said so.
Connected(s) ==
  \/ s \in metadata
  \/ s \in DOMAIN infos /\ (infos[s].peer # None \/ infos[s].remote # None)

\* What stays unknown of the sockets.
Unknown ==
  LET sockets == {e.key : e \in owners} \cap Sockets
  IN (IF sockets \subseteq DOMAIN infos THEN {} ELSE {"type"})
     \cup (IF \A s \in sockets : Connected(s) THEN {} ELSE {"status"})

Finish ==
  /\ phase = "relate" /\ left = {}
  /\ phase' = "done"
  /\ warnings' = warnings \cup Unknown \cup (IF truncated THEN {"truncated"} ELSE {})
  /\ UNCHANGED <<world, late, scan, processes, owners, infos, metadata, truncated, left,
                 relations, changes, held, unreadable>>

-----------------------------------------------------------------------------
Init ==
  /\ start = [p \in Pids |-> 1] /\ file \in [Pids -> [Fds -> Files \cup {None}]]
  /\ ns \in [Pids -> Namespaces] /\ home \in [Sockets -> Namespaces] /\ link \in {"unix", "tcp"}
  /\ phase = "idle" /\ late = FALSE /\ todo = {} /\ cur = None
  /\ processes = {} /\ owners = {} /\ infos = << >> /\ seenNs = {} /\ pinned = {}
  /\ metadata = {} /\ inspected = 0 /\ truncated = FALSE /\ warnings = {}
  /\ left = {} /\ relations = {} /\ changes = 0 /\ held = {} /\ unreadable = FALSE

Next ==
  \/ \E pid \in Pids, f \in Files \cup {None} :
       ReusePid(pid, f) \/ \E fd \in Fds : ChangeFile(pid, fd, f)
  \/ DeadlinePasses \/ Begin
  \/ \E id \in todo : OpenProcess(id)
  \/ \E d \in Fds : ReadFd(d)
  \/ AccessDenied \/ CloseProcess \/ Diagnose
  \/ \E key \in left : Relate(key)
  \/ Finish

Spec == Init /\ [][Next]_vars

-----------------------------------------------------------------------------
(* Properties                                                              *)

\* Every end of a relation is a descriptor that its process had open while the
\* scan ran, and its process is in the snapshot, although pids are reused
\* between the list of processes and the reads.
RelationsHeld ==
  \A r \in relations : \A e \in r.ends :
    /\ [id |-> e.id, key |-> e.key, fd |-> e.fd] \in held
    /\ e.id \in processes

\* Reversed addresses make a candidate only within one network namespace.
CandidatesSameNamespace ==
  changes = 0 => \A r \in relations : r.candidate => Cardinality({home[e.key] : e \in r.ends}) = 1

\* A snapshot of a system at rest without a warning has every relation: the
\* ends of each pipe, of each connection in a namespace that has a process, and
\* each group of holders of one file held together.
Talk(x, y) ==
  \/ x.key = y.key /\ x.key \in Pipes /\ AccessOpposite(x.access, y.access)
  \/ x.key \in Sockets /\ y.key \in Sockets \ {x.key} /\ home[x.key] = home[y.key]
     /\ home[x.key] \in {ns[p] : p \in Pids}
Complete ==
  /\ \A p \in Pids, d \in Fds : file[p][d] # None =>
       \E e \in owners : e.id = Id(p) /\ e.key = file[p][d].key /\ e.access = file[p][d].access
  /\ \A x, y \in owners : x # y /\ Talk(x, y) => \E r \in relations : r.ends = {x, y} /\ ~r.shared
  /\ \A x, y \in owners : x # y /\ x.key = y.key =>
       \E z \in owners : \A e \in {x, y} : e = z \/ \E r \in relations : r.ends = {e, z}
CompleteOrWarned ==
  phase = "done" /\ changes = 0 /\ ~unreadable /\ warnings = {} => Complete

=============================================================================
