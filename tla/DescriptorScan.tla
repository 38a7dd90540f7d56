--------------------------- MODULE DescriptorScan ---------------------------
(***************************************************************************)
(* The descriptors of one process as its page shows them: the helper's     *)
(* scan (fds.rs, socket_metadata.rs, sockets.rs), which reads /proc in     *)
(* many steps while processes open and close files, end, and give their    *)
(* pids to others, and the relations the server builds from its result     *)
(* (analysis/descriptors.rs).  Sockets and pipes are kept as keys with     *)
(* their inode; names, paths and the wording of notes are left out.        *)
(***************************************************************************)
EXTENDS Naturals, FiniteSets, FiniteSetsExt

CONSTANTS
  Pids, Fds,
  Sockets,      \* socket inodes: they have a peer each
  Pipes,        \* pipe inodes
  Target,       \* the pid of the process that is shown
  EntryLimit,   \* 4096: descriptors of the process
  MatchLimit,   \* 8192: descriptors of others that are kept
  PeerLimit,    \* 64: peers and holders shown of a descriptor
  MaxStart,     \* bound on the processes that use a pid
  MaxChanges,   \* bound on the changes while the scan runs
  None

VARIABLES
  start, file,  \* the process behind each pid, and its descriptors
  link,         \* "unix" or "tcp": how the sockets are connected
  phase,        \* where the scan is; "idle": not begun, "failed": an error
  late,         \* the deadline of three seconds has passed
  todo,         \* what the phase still has to read
  entries,      \* fd to what was read of it
  table,        \* what is known of sockets, by inode
  metadata,     \* pairs of an inode and the socket that was asked for it
  scanned,      \* the process whose descriptors are being compared
  found,        \* its matches; they count once the process is still there
  matches,      \* how many matches there were, of processes that ended too
  owners,
  warnings,
  shown,        \* the page: peers, holders and note by fd
  changes,      \* changes of the system since the scan began
  held          \* what processes held since then

world == <<start, file, link>>
result == <<entries, table, metadata, owners, warnings>>
vars == <<world, phase, late, todo, result, scanned, found, matches, shown, changes, held>>

Files == {[key |-> s, mode |-> "rw"] : s \in Sockets}
         \cup {[key |-> p, mode |-> m] : p \in Pipes, m \in {"r", "w"}}
Id(pid) == [pid |-> pid, start |-> start[pid]]
Shown == [pid |-> Target, start |-> 1]

\* The sockets form pairs.
PeerOf(s) == CHOOSE t \in Sockets : t # s

Holding(starts, files) ==
  {[id |-> [pid |-> x[1], start |-> starts[x[1]]], fd |-> x[2], key |-> files[x[1]][x[2]].key] :
     x \in {y \in Pids \X Fds : files[y[1]][y[2]] # None}}

-----------------------------------------------------------------------------
(* The system                                                              *)

Changed(starts, files) ==
  /\ phase \notin {"idle", "done", "failed"} /\ changes < MaxChanges
  /\ start' = starts /\ file' = files /\ changes' = changes + 1
  /\ held' = held \cup Holding(starts, files)
  /\ UNCHANGED <<link, phase, late, todo, result, scanned, found, matches, shown>>

\* A process opens, closes or replaces a descriptor.
ChangeFile(pid, fd, f) ==
  f # file[pid][fd] /\ Changed(start, [file EXCEPT ![pid][fd] = f])

\* A process ends and another one gets its pid.
ReusePid(pid, fd, f) ==
  /\ start[pid] < MaxStart
  /\ Changed([start EXCEPT ![pid] = @ + 1],
             [file EXCEPT ![pid] = [d \in Fds |-> IF d = fd THEN f ELSE None]])

DeadlinePasses ==
  /\ phase \notin {"idle", "done", "failed"} /\ ~late
  /\ late' = TRUE
  /\ UNCHANGED <<world, phase, todo, result, scanned, found, matches, shown, changes, held>>

-----------------------------------------------------------------------------
(* The helper: collect_file_descriptors                                    *)

\* validate_process_identity
Valid(id) == start[id.pid] = id.start

Begin ==
  /\ phase = "idle"
  /\ phase' = IF Valid(Shown) THEN "entries" ELSE "failed"
  /\ todo' = {d \in Fds : file[Target][d] # None}
  /\ held' = Holding(start, file)
  /\ UNCHANGED <<world, late, result, scanned, found, matches, shown, changes>>

MutantStopEntries ==
  /\ phase' = "table" /\ todo' = {}
  /\ UNCHANGED warnings

\* The limit or the deadline ends the loop with a warning.
StopEntries ==
  /\ phase' = "table" /\ todo' = {}
  /\ warnings' = warnings \cup {"limit"}

\* One descriptor of the directory: one that was closed is only counted.
ReadEntry(d) ==
  LET f == file[Target][d]
  IN /\ phase = "entries" /\ d \in todo
     /\ IF late \/ Cardinality(DOMAIN entries) >= EntryLimit
          THEN StopEntries /\ UNCHANGED entries
          ELSE /\ todo' = todo \ {d} /\ UNCHANGED phase
               /\ IF f = None
                    THEN warnings' = warnings \cup {"omitted"} /\ UNCHANGED entries
                    ELSE /\ entries' = [x \in DOMAIN entries \cup {d} |->
                                          IF x = d THEN f ELSE entries[x]]
                         /\ UNCHANGED warnings
     /\ UNCHANGED <<world, late, table, metadata, owners, scanned, found, matches, shown, changes, held>>

EntriesRead ==
  /\ phase = "entries" /\ todo = {}
  /\ phase' = "table"
  /\ UNCHANGED <<world, late, todo, result, scanned, found, matches, shown, changes, held>>

SocketEntries == {d \in DOMAIN entries : entries[d].key \in Sockets}
Alive == {file[x[1]][x[2]].key : x \in {y \in Pids \X Fds : file[y[1]][y[2]] # None}} \cap Sockets

\* What the tables of /proc/PID/net say of a socket, and what the UNIX socket
\* diagnostics of the process's namespace add.
InetInfo(s) == [peer |-> None, local |-> s, remote |-> PeerOf(s)]
UnixInfo(s) == [peer |-> None, local |-> None, remote |-> None]
DiagInfo(s) == [UnixInfo(s) EXCEPT !.peer = PeerOf(s)]

\* The namespace is pinned with the process checked before and after.
NamespacePinned == Valid(Shown)

\* socket_table: tables or the diagnostics may be unreadable.
ReadTables ==
  /\ phase = "table"
  /\ IF SocketEntries = {} THEN UNCHANGED <<table, warnings>>
     ELSE \/ /\ link = "tcp" \/ NamespacePinned
             /\ table' = [s \in Alive |-> IF link = "tcp" THEN InetInfo(s) ELSE DiagInfo(s)]
             /\ UNCHANGED warnings
          \/ /\ link = "unix"
             /\ table' = [s \in Alive |-> UnixInfo(s)]
             /\ warnings' = warnings \cup {"peers"}
          \/ table' = << >> /\ warnings' = warnings \cup {"table"}
  /\ phase' = "metadata" /\ todo' = SocketEntries
  /\ UNCHANGED <<world, late, entries, metadata, owners, scanned, found, matches, shown, changes, held>>

\* The duplicate must be the socket the entry was read for.
SameSocket(d) == file[Target][d] # None /\ file[Target][d].key = entries[d].key

\* SocketMetadataReader::read of one descriptor.  A pidfd of a process that has
\* ended gives nothing, and the kernel may refuse it.
ReadMetadata(d) ==
  /\ phase = "metadata" /\ d \in todo
  /\ IF late
       THEN todo' = {} /\ warnings' = warnings \cup {"metadata"} /\ UNCHANGED metadata
       ELSE /\ todo' = todo \ {d} /\ UNCHANGED warnings
            /\ \/ /\ Valid(Shown) /\ SameSocket(d)
                  /\ metadata' = metadata \cup {<<entries[d].key, file[Target][d].key>>}
               \/ UNCHANGED metadata
  /\ UNCHANGED <<world, phase, late, entries, table, owners, scanned, found, matches, shown, changes, held>>

\* Metadata makes a socket known that the tables do not have.
KnownSockets == DOMAIN table \cup {x[1] : x \in metadata}

\* SocketInfo::connection_status: what the socket itself said, else a peer or a
\* remote address of the tables.
Connected(s) ==
  \/ <<s, s>> \in metadata
  \/ s \in DOMAIN table /\ (table[s].peer # None \/ table[s].remote # None)

\* What stays unknown is counted in a warning.
MetadataRead ==
  LET keys == {entries[d].key : d \in SocketEntries}
  IN /\ phase = "metadata" /\ todo = {}
     /\ warnings' = warnings \cup (IF keys \subseteq KnownSockets THEN {} ELSE {"type"})
                             \cup (IF \A s \in keys : Connected(s) THEN {} ELSE {"status"})
     /\ phase' = IF DOMAIN entries = {} THEN "check" ELSE "owners"
     /\ todo' = IF DOMAIN entries = {} THEN {} ELSE Pids
     /\ UNCHANGED <<world, late, entries, table, metadata, owners, scanned, found, matches,
                    shown, changes, held>>

\* The sockets an entry talks to: the peer the kernel names, or those with its
\* addresses reversed.
Reversed(s) ==
  {t \in DOMAIN table \ {s} :
     table[s].local # None /\ table[t].local = table[s].remote /\ table[t].remote = table[s].local}
PeerKeys(d) ==
  LET s == entries[d].key
  IN IF s \notin DOMAIN table THEN {}
     ELSE IF table[s].peer # None THEN {table[s].peer} ELSE Reversed(s)

Wanted == {entries[d].key : d \in DOMAIN entries} \cup UNION {PeerKeys(d) : d \in DOMAIN entries}

\* collect_descriptor_owners: the processes in the order of their pids.
StatProcess(pid) ==
  /\ phase = "owners" /\ scanned = None
  /\ pid \in todo /\ \A p \in todo : pid <= p
  /\ IF late
       THEN /\ warnings' = warnings \cup {"time"} /\ phase' = "check" /\ todo' = {}
            /\ UNCHANGED <<scanned, found>>
       ELSE /\ todo' = todo \ {pid}
            /\ scanned' = [id |-> Id(pid), left |-> {d \in Fds : file[pid][d] # None}]
            /\ found' = {} /\ UNCHANGED <<warnings, phase>>
  /\ UNCHANGED <<world, late, entries, table, metadata, owners, matches, shown, changes, held>>

\* The descriptors of the next process may not be read.
AccessDenied(pid) ==
  /\ phase = "owners" /\ scanned = None /\ ~late
  /\ pid \in todo /\ \A p \in todo : pid <= p
  /\ todo' = todo \ {pid}
  /\ warnings' = warnings \cup {"denied"}
  /\ UNCHANGED <<world, phase, late, entries, table, metadata, owners, scanned, found, matches,
                 shown, changes, held>>

\* The limits end the scan; the matches of the process at hand are lost.
CompareFile(d) ==
  LET id == scanned.id
      match == {[key |-> f.key, id |-> id, fd |-> d, mode |-> f.mode] :
                  f \in {g \in {file[id.pid][d]} \ {None} : g.key \in Wanted}}
  IN /\ phase = "owners" /\ scanned # None /\ d \in scanned.left
     /\ IF late \/ matches >= MatchLimit
          THEN /\ warnings' = warnings \cup {"count"} /\ phase' = "check" /\ todo' = {}
               /\ scanned' = None /\ found' = {} /\ UNCHANGED matches
          ELSE /\ scanned' = [scanned EXCEPT !.left = @ \ {d}]
               /\ found' = found \cup match /\ matches' = matches + Cardinality(match)
               /\ UNCHANGED <<warnings, phase, todo>>
     /\ UNCHANGED <<world, late, entries, table, metadata, owners, shown, changes, held>>

MutantStillThere(id) == TRUE

StillThere(id) == Valid(id)

ProcessCompared ==
  /\ phase = "owners" /\ scanned # None /\ scanned.left = {}
  /\ owners' = IF StillThere(scanned.id) THEN owners \cup found ELSE owners
  /\ scanned' = None /\ found' = {}
  /\ UNCHANGED <<world, phase, late, todo, entries, table, metadata, warnings, matches, shown, changes, held>>

OwnersRead ==
  /\ phase = "owners" /\ scanned = None /\ todo = {}
  /\ phase' = "check"
  /\ UNCHANGED <<world, late, todo, result, scanned, found, matches, shown, changes, held>>

-----------------------------------------------------------------------------
(* The server: resolve_descriptor_relations                                *)

PipeOpposite(a, b) == <<a, b>> \in {<<"r", "w">>, <<"r", "rw">>, <<"w", "r">>, <<"w", "rw">>,
                                    <<"rw", "r">>, <<"rw", "w">>, <<"rw", "rw">>}

\* A prefix of the owners in some order, as long as the limit allows.
Prefixes(set, n) == IF Cardinality(set) <= n THEN {set} ELSE kSubset(n, set)

Others(d) == {o \in owners : o.key = entries[d].key /\ ~(o.id = Shown /\ o.fd = d)}
Opposite(d, o) == entries[d].key \in Pipes /\ PipeOpposite(entries[d].mode, o.mode)

\* The holders of its peers, and those of the same file that use it the other way.
Far(d) == {o \in owners : o.key \in PeerKeys(d)}
Near(d, kept) == {o \in kept : Opposite(d, o)}

\* One entry: those with the same file first, then the holders of its peers.  A
\* pipe has no far end and a socket no opposite one, so one limit is at work.
Resolved(d) ==
  {[peers |-> Near(d, kept) \cup more, holders |-> kept \ Near(d, kept),
    note |-> Cardinality(Others(d)) >= PeerLimit
             \/ Cardinality(Near(d, kept)) + Cardinality(Far(d)) > PeerLimit] :
   kept \in Prefixes(Others(d), PeerLimit), more \in Prefixes(Far(d), PeerLimit)}

\* The process must still be there for the result to be sent; the server then
\* resolves it.
Publish ==
  /\ phase = "check"
  /\ IF Valid(Shown)
       THEN /\ phase' = "done"
            /\ \E choice \in [DOMAIN entries -> UNION {Resolved(d) : d \in DOMAIN entries}] :
                 /\ \A d \in DOMAIN entries : choice[d] \in Resolved(d)
                 /\ shown' = choice
       ELSE phase' = "failed" /\ UNCHANGED shown
  /\ UNCHANGED <<world, late, todo, result, scanned, found, matches, changes, held>>

-----------------------------------------------------------------------------
Init ==
  /\ start = [p \in Pids |-> 1] /\ file \in [Pids -> [Fds -> Files \cup {None}]]
  /\ link \in {"unix", "tcp"}
  /\ phase = "idle" /\ late = FALSE /\ todo = {}
  /\ entries = << >> /\ table = << >> /\ metadata = {} /\ owners = {} /\ warnings = {}
  /\ scanned = None /\ found = {} /\ matches = 0 /\ shown = << >> /\ changes = 0 /\ held = {}

Next ==
  \/ \E pid \in Pids, fd \in Fds, f \in Files \cup {None} :
       ChangeFile(pid, fd, f) \/ ReusePid(pid, fd, f)
  \/ DeadlinePasses \/ Begin
  \/ \E d \in Fds : ReadEntry(d) \/ ReadMetadata(d) \/ CompareFile(d)
  \/ EntriesRead \/ ReadTables \/ MetadataRead
  \/ \E pid \in Pids : StatProcess(pid) \/ AccessDenied(pid)
  \/ ProcessCompared \/ OwnersRead \/ Publish

Spec == Init /\ [][Next]_vars

-----------------------------------------------------------------------------
(* Properties                                                              *)

\* What is shown was held: every descriptor of the process and every peer and
\* holder names a process that had that file open under that number while the
\* scan ran, although pids and descriptor numbers were reused between reads.
ShownHeld ==
  phase = "done" =>
    /\ \A d \in DOMAIN entries : [id |-> Shown, fd |-> d, key |-> entries[d].key] \in held
    /\ \A o \in owners : [id |-> o.id, fd |-> o.fd, key |-> o.key] \in held

\* The kind of a socket was asked of that socket, never of a file that got its
\* descriptor number meanwhile.
MetadataOfSocket == \A x \in metadata : x[1] = x[2]

\* Both: what the page says of a process and of its sockets was so.
DescriptorsAsHeld == ShownHeld /\ MetadataOfSocket

\* A scan of a system at rest that carries no warning and no note is complete:
\* all descriptors, and for each one every other descriptor of the same file
\* and every descriptor of the other end.
DescriptorsCompleteOrWarned ==
  phase = "done" /\ changes = 0 /\ warnings = {} =>
    /\ \A d \in Fds : file[Target][d] # None => d \in DOMAIN entries
    /\ \A d \in DOMAIN entries :
         LET related == {x \in Holding(start, file) :
                           \/ x.key = entries[d].key /\ ~(x.id = Shown /\ x.fd = d)
                           \/ entries[d].key \in Sockets /\ x.key = PeerOf(entries[d].key)}
         IN shown[d].note \/ related = {[id |-> o.id, fd |-> o.fd, key |-> o.key] :
                                         o \in shown[d].peers \cup shown[d].holders}
=============================================================================
